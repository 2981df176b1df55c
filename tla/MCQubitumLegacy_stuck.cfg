SPECIFICATION MCLegacyFairSpec
CONSTANTS
    NoRecord = NoRecord
    Account = {alice, bob, treasury}
    Treasury = treasury
    Alice = alice
    Bob = bob
    HoldReason = {"MinerBond", "ValidatorStake", "InferencePayment"}
    ExistentialDeposit = 1
    ProofSystem = {"Stark"}
    SubnetIdMax = 1
    MinerIdMax = 2
    ValidatorIdMax = 0
    RequestIdMax = 0
    BlockMax = 3
    MaxBalance = 1000000
    SubnetCreationBurn = 1
    MinerRegistrationBurn = 1
    MinMinerBond = 4
    MaxMinerBond = 8
    MinValidatorStake = 4
    MaxActiveMinersPerSubnet = 1
    MaxActiveValidatorsPerSubnet = 1
    MinInvalidProofSlashBps = 5000
    MaxInvalidProofSlashBps = 10000
    MinerExitCooldownBlocks = 1
    ValidatorExitCooldownBlocks = 1
    RequestCancelDelayBlocks = 1
    MaxProofSubmissionAgeBlocks = 1
    ShieldedCallPayloads = FALSE
    IdentityVerifierAccepts = TRUE
    ProofVerifierAccepts = TRUE
    VerifierSlashBps = {5000}
    BondInput = {8}
    StakeInput = {4}
    PaymentInput = {4}
    FeeInput <- MCQuarterFees
    RootSlashBps = {5000}
    InitialFree <- MCInitialFree
    Endowment = 16
    TreasuryEndowment = 1
    LegacyMiners = 2
PROPERTIES
    ExitsComplete
CHECK_DEADLOCK FALSE
