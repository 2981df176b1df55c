SPECIFICATION MCWorkingSpec
CONSTANTS
    NoRecord = NoRecord
    Account = {alice, bob, treasury}
    Treasury = treasury
    Alice = alice
    Bob = bob
    HoldReason = {"MinerBond", "ValidatorStake", "InferencePayment"}
    ExistentialDeposit = 1
    ProofSystem = {"Stark"}
    SubnetIdMax = 1
    MinerIdMax = 2
    ValidatorIdMax = 2
    RequestIdMax = 1
    BlockMax = 1
    MaxBalance = 1000000
    SubnetCreationBurn = 1
    MinerRegistrationBurn = 1
    MinMinerBond = 4
    MaxMinerBond = 8
    MinValidatorStake = 4
    MaxActiveMinersPerSubnet = 2
    MaxActiveValidatorsPerSubnet = 2
    MinInvalidProofSlashBps = 5000
    MaxInvalidProofSlashBps = 10000
    MinerExitCooldownBlocks = 1
    ValidatorExitCooldownBlocks = 1
    RequestCancelDelayBlocks = 1
    MaxProofSubmissionAgeBlocks = 1
    ShieldedCallPayloads = FALSE
    IdentityVerifierAccepts = TRUE
    ProofVerifierAccepts = TRUE
    VerifierSlashBps = {5000}
    BondInput = {}
    StakeInput = {}
    PaymentInput = {4}
    FeeInput <- MCUnevenFees
    RootSlashBps = {10000}
    InitialFree <- MCInitialFree
    Endowment = 9
    TreasuryEndowment = 1
INVARIANTS
    CapitalBacked
CHECK_DEADLOCK FALSE
