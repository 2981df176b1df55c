SPECIFICATION Spec
CONSTANTS
    NoRecord = NoRecord
    Account = {alice, bob, treasury}
    Treasury = treasury
    Alice = alice
    Bob = bob
    HoldReason = {"MinerBond", "ValidatorStake", "InferencePayment"}
    ExistentialDeposit = 1
    ProofSystem = {"Stark", "Mock"}
    SubnetIdMax = 1
    MinerIdMax = 2
    ValidatorIdMax = 2
    RequestIdMax = 0
    BlockMax = 1
    MaxBalance = 1000000
    SubnetCreationBurn = 1
    MinerRegistrationBurn = 1
    MinMinerBond = 4
    MaxMinerBond = 8
    MinValidatorStake = 4
    MaxActiveMinersPerSubnet = 1
    MaxActiveValidatorsPerSubnet = 1
    MinInvalidProofSlashBps = 5000
    MaxInvalidProofSlashBps = 10000
    MinerExitCooldownBlocks = 1
    ValidatorExitCooldownBlocks = 1
    RequestCancelDelayBlocks = 1
    MaxProofSubmissionAgeBlocks = 1
    ShieldedCallPayloads = FALSE
    IdentityVerifierAccepts = TRUE
    ProofVerifierAccepts = TRUE
    VerifierSlashBps = {5000}
    BondInput = {4}
    StakeInput = {4}
    PaymentInput = {4}
    FeeInput <- MCQuarterFees
    RootSlashBps = {}
    InitialFree <- MCInitialFree
    Endowment = 21
    TreasuryEndowment = 1
INVARIANTS
    RouteSetsBounded
CHECK_DEADLOCK FALSE
SYMMETRY Symmetry
