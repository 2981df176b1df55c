# A TLA+ model of Qubitum

Qubitum is a Substrate chain on which users pay for inference: an operator bonds
capital for a *miner*, another stakes capital for a *validator*, a user escrows a
payment for a request, the chain assigns a miner and a validator to it, and a
verified proof settles the payment. The code is `pallet-qubitum`
(`src/pallets/qubitum/src/lib.rs`), with its primitives under
`src/primitives/qubitum-protocol`, wired into a runtime inherited from Subtensor.

This project models the pallet, model-checks it on small instances, and proves
its central invariants for every instance.

## The system

### Parts, their state and what they do

| Part | State | Operations | Depends on |
|---|---|---|---|
| Registry and capital (`pallet-qubitum`) | subnets, miners, validators, capital records, holds | create, register, activate, deactivate, withdraw, root slash | currency, identities, assignment counters |
| Identities (`pallet-qubitum`) | commitment, bundle and challenge maps | set, clear | assignment counters, capacity, verifier |
| Requests and escrow (`pallet-qubitum`) | requests, request counter, status counters, assignment counters, the `InferencePayment` hold | open, cancel, expire | registry, identities, currency |
| Proofs (`pallet-qubitum`) | proof records | submit (valid, invalid), challenge | everything above |
| Migrations (`pallet-qubitum`) | storage version | upgrade from versions 1 to 26 | all maps |
| Protocol primitives | an in-memory `ProtocolState`, the post-quantum signature policy | registry calls without transactions | none |
| Runtime | call filters: safe mode, the privacy extension, the shielded origin | which calls reach the pallet | pallet |
| Shield, crowdloan, drand, commitments, proxy, registry pallets | their own maps | their own calls | currency |
| Subtensor, swap, share pool | inherited staking, emission and exchange | inherited calls | fixed-point arithmetic |
| RPC, runtime API, precompiles, chain extensions, node | none | decoding, queries, wiring | pallets |

`PROJECT.json` lists every part with its sources and whether it is modelled.

### What makes the pallet hard

* **Shared holds.** All miners of one operator share one `MinerBond` hold. What
  each of them may lose or withdraw is a separate record.
* **Five ends of a request.** A proof settles it, an invalid proof or a challenge
  rejects it, its user cancels it, anyone with the witnesses expires it. The
  calls come from four different accounts and race at the cancellation delay.
* **Work that outlives its participants.** A slash caused by one request may
  take the miner of another pending request below the minimum. An identity may
  be cleared, or an exit begun, while requests are being assigned.
* **Counters that gate.** Exits, root slashes and identity changes look only at a
  counter of pending requests, moved at six places.
* **Capacity.** The route set of a subnet is computed, not stored: participants
  enter and leave it by activating, attesting, clearing, slashing and exiting.
* **Two forms of one account.** An upgraded chain holds operator commitments in
  two forms, and participants without capital records.
* **Existential deposits.** A transfer to an account that does not exist fails
  when it is too small, and with it the settlement.

## The modules

| Module | What it is |
|---|---|
| `Currency` | `pallet_balances` as the pallet uses it (external): free balances, holds by reason, the existential deposit |
| `Qubitum` | the pallet: one action per dispatchable, one operator per helper, with the code's names |
| `Escrow` | the abstract specification: a payment enters a pot once and leaves it once, in full |
| `QubitumProperties` | the properties, the fairness and the refinement mapping to `Escrow` |
| `MCQubitum` | instances from genesis and from a chain at work |
| `MCQubitumCooldown` | the same, with a history of when each participant last had work |
| `MCQubitumLegacy` | instances of a chain upgraded from storage version 9 |
| `QubitumProofs` | types |
| `QubitumSafetyProofs` | the counters |
| `QubitumEscrowProofs` | the refinement and the finality of requests |
| `QubitumWorkProofs` | proof records, separate operators, participants bound to their work |

### How the model corresponds to the code

Each storage item of the pallet is a variable of the same name. The three
identity maps of a participant are one flag (`MinerAttested`,
`ValidatorAttested`): they are written and removed together, and the code asks
only whether a bound bundle is there. The five status counters are one function.
The running totals are not modelled, since the code clears them at every step.
The deprecated stored route indexes are empty in the code and absent here.

A dispatchable is an action whose guards are the code's checks in one
conjunction. All dispatchables that write more than one item are transactional,
and the others write after their last check, so a call that fails changes
nothing and is a stuttering step. `request_inference_commitments` always fails.
The caller of `request_inference` names the request's identifier; the code
accepts it only when it is the counter's value and not in use.

*Commitments* are modelled by what they open to. Blake2 is taken to be
injective, so a call with witnesses succeeds exactly when the witnesses are the
values that were committed; who holds the witnesses is not modelled, so any call
that some account can make may happen. The operator commitment keeps its two
forms, because the code compares commitments and not accounts.

*Routing* scans the eligible miners and validators cyclically from positions
that are hashes of the request. The model allows any eligible pair of different
operators, and no request when there is none.

*The verifiers* are constants. `IdentityVerifierAccepts` and
`ProofVerifierAccepts` are false for the production runtime's fail-closed
verifiers. `VerifierSlashBps` is the set of slashes an invalid outcome names.

*Arithmetic* is the code's: `pro_rata` multiplies, then divides, and fails when
the product exceeds `MaxBalance`.

Definitions marked "Mutation" in `Qubitum` are wrong variants of the definition
below them: a dropped guard, an off-by-one, a missing reset. Each property of a
passing run is violated when one of them takes the place of the right one.

## The runs

| Run | From | What it shows |
|---|---|---|
| `lifecycle` | genesis | escrow, counters, identities and proof records stay consistent; the stored requests are those below the counter, whatever identifiers are named; payments are conserved; the pallet implements `Escrow` |
| `capacity` | genesis | route sets stay within their limits with two candidates for each slot |
| `shared` | a chain at work | two miners and two validators on shared holds keep their own capital |
| `liveness` | a chain at work | pending requests close, those whose payment cannot be split included, and begun exits end |
| `failclosed` | genesis | with the production configuration nobody becomes active and stakes come back |
| `cooldown` | a chain at work | with two requests, root slashes and accounts that can be burned out of existence: the active have the minimum capital, only an absent treasury or an overflow blocks the settlement of a valid proof, and capital outlives work by a whole cooldown |
| `legacy_uniform` | an upgraded chain | the shared hold keeps the bond of every miner while another of the operator bonds, withdraws and is slashed |

Five runs end in a violation, each of a statement the repository makes:

| Run | The statement | What the code does |
|---|---|---|
| `shielded_exit` | an exiting miner's bond is still slashable (`docs/qubitum-protocol.md:42`) | not under shielded payloads, the runtime's configuration |
| `treasury_dust` | a valid proof settles (`docs/qubitum-protocol.md:38`) | not when the treasury does not exist and its fee is below the existential deposit |
| `legacy_mixed` | the capital fallback is used only when unambiguous (`tests.rs:2005`) | a later miner of the same operator is not counted, because its commitment has the other form |
| `legacy_self` | miner and validator are not of one operator (`lib.rs:1422`) | the two forms of one account are taken for two operators, once a root slash has given the upgraded miner the capital record that routing asks for |
| `legacy_stuck` | after the cooldown the bond can be withdrawn (`docs/qubitum-protocol.md:42`) | never, for two recordless miners of one operator |

### Bounds

Two accounts besides the treasury suffice for every pairing the code tells
apart: operator and user the same or different, miner and validator of one
account or of two. Where a property is about sharing (`shared`, `legacy_*`) or
competition (`capacity`) there are two miners and two validators, and a third
miner in `legacy_uniform`, which bonds with a record beside two without; otherwise
one of each, with two requests, so that one request can change the participants
of another. `BlockMax` is 1 to 3, and delays and cooldowns are 1 or 2, so that
calls happen before, at and after each deadline. The minimum bond is half the
maximum, and slashes are half or all, so that a slash may leave the minimum,
less, or nothing. `capacity` has no slashes: from genesis a slash only shrinks the route sets,
and `cooldown` and `shared` have them. `MCUnevenFees` has a split in which all
three shares are positive and two are rounded, and a split above the whole, which
the code refuses. In `cooldown` the existential deposit is 2, the treasury is
endowed, and a subnet's burn can empty an account that has lost its capital. In
`liveness` one payment exceeds `MaxBalance` divided by the denominator, so it can
be opened and refunded and never split. `Endowment` lets an account afford what
the run is about. The bounded clock and identifiers stop the model where
the chain would go on, so deadlock is not checked. `lifecycle` and `capacity` use
the symmetry of the accounts, which no definition tells apart; `liveness`,
`shared`, `failclosed` and `legacy` do not.

### Fairness

`Fairness` is weak fairness of new blocks, of `expire_inference` for each
request, and of the withdrawals. Blocks keep being produced. Anyone may expire a
request, and no other call can take away the possibility except by closing it,
so one keeper that holds the witnesses suffices. An operator that has begun to
exit is taken to come back for the capital. Nothing is assumed of miners,
validators or users.

## The proofs

For every set of accounts, every number of identifiers and blocks, and every
value of the parameters that satisfies the named assumptions:

* `TypeCorrect`: `Spec => []TypeOK`. The balances and holds are natural numbers,
  so the theorem says that no step takes more than there is. The argument rests
  on two facts about rounding: a share at a rate of at most the whole is at most
  the amount (`ProRataBound`), and two shares of a valid split are together at
  most the payment (`FeesWithinPayment`).
* `PendingCountersCorrect` and `StatusCountersCorrect`. Neither is inductive
  alone: a step opens a request at the identifier the counter names, and unless
  that identifier is unused it may overwrite a pending request. `CounterInv` adds
  `TypeOK` and `FreshIds` (identifiers beyond the counters are unused, and the
  stored requests are exactly those below the counter). Every
  step opens a request, closes one, or leaves requests and counters alone
  (`StepKinds`), and the two interesting cases move one element between finite
  sets.
* `RequestIdsAreDense`: `Spec => []RequestIdsDense`, a conjunct of `CounterInv`.
* `EscrowImplemented`: `Spec => ImplementsEscrow`. Every step is `Open`, `Close`
  or invisible to the escrow. It uses `CounterInv` and that the holds for bonds
  and stakes are other holds, whatever the same call burns there.
* `RequestsAreFinal`: `Spec => RequestsFinal`, from the same case split.
* `ProofsAreSettlements`: `Spec => []ProofIffSettled`, inductive relative to
  `CounterInv`: an opened request takes an unused identifier, so it never
  inherits a proof.
* `OperatorsAreSeparate`: `Spec => []NoSelfValidation`. The code compares
  commitments when it assigns a pair. `SeparationInv` adds what makes that
  enough: requests name stored participants, operators are never replaced, and
  all commitments have one form. The last holds on a chain from genesis;
  `legacy_self` shows what happens without it.
* `ParticipantsStayBound`: `Spec => []AssignedParticipantsBound`. By
  `CounterInv` a participant of a pending request has a counter above zero, so
  the calls that could unbind it are refused, and a slash by another request
  leaves a record behind (`MinerStaysBound`, `ValidatorStaysBound`).

The assumptions are `QubitumAssumption` (the parameters are numbers, and the
largest slash is at most the whole), `NoRecordAssumption` and `EscrowAssumption`
(the absent value is none of the records) and `CurrencyAssumption`.

Only model-checked: the properties that sum over sets (`EscrowBacked`,
`CapitalBacked`, `PaymentsConserved`), for which a proof needs induction over
sets; liveness and the cooldown; `ActiveMeansBonded`, `RouteSetsBounded` and
`SettlementUnblocked`; and everything about the upgraded chain.

## Not modelled

The content of commitments and the order of bytes in them; proof envelopes and
their size limits; events, weights and queries; the accounting totals. Parts
inherited from Subtensor that are fixed-point or matrix arithmetic are out of
TLC's reach; decoding, wiring and build-time code have no state.

## Plan

1. Proofs of `ActiveMeansBonded` and `RouteSetsBounded` on top of `CounterInv`.
2. `Routing`: the cyclic scan as a function, against the set of eligible pairs.
3. `SignaturePolicy`: which bundles bind under each signature mode, and the
   three identity maps in detail, as a refinement of the attested flag.
4. `Migrations`: the upgrade steps in order, with restarts between versions, and
   the legacy instances as what they produce.
5. `SafeMode`: the runtime's call filters composed with the pallet; what remains
   of `PendingRequestsClose`.
6. `ProtocolState`: the primitives' registry, where a failing call may have
   partial effects.
7. `Shield` (rotation of keys), `Crowdloan`, `Drand`, `Commitments`, `Proxy`, and
   the child-key and coldkey schedules of the Subtensor pallet.
