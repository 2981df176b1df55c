SPECIFICATION CooldownSpec
CONSTANTS
    NoRecord = NoRecord
    Account = {alice, bob, treasury}
    Treasury = treasury
    Alice = alice
    Bob = bob
    HoldReason = {"MinerBond", "ValidatorStake", "InferencePayment"}
    ExistentialDeposit = 2
    ProofSystem = {"Stark"}
    SubnetIdMax = 2
    MinerIdMax = 1
    ValidatorIdMax = 1
    RequestIdMax = 2
    BlockMax = 3
    MaxBalance = 1000000
    SubnetCreationBurn = 9
    MinerRegistrationBurn = 1
    MinMinerBond = 4
    MaxMinerBond = 8
    MinValidatorStake = 4
    MaxActiveMinersPerSubnet = 1
    MaxActiveValidatorsPerSubnet = 1
    MinInvalidProofSlashBps = 5000
    MaxInvalidProofSlashBps = 10000
    MinerExitCooldownBlocks = 2
    ValidatorExitCooldownBlocks = 1
    RequestCancelDelayBlocks = 1
    MaxProofSubmissionAgeBlocks = 1
    ShieldedCallPayloads = FALSE
    IdentityVerifierAccepts = TRUE
    ProofVerifierAccepts = TRUE
    VerifierSlashBps = {5000}
    BondInput = {}
    StakeInput = {}
    PaymentInput = {4}
    FeeInput <- MCUnevenFees
    RootSlashBps = {10000}
    InitialFree <- MCInitialFree
    Endowment = 10
    TreasuryEndowment = 2
INVARIANTS
    ActiveMeansBonded
    SettlementUnblocked
PROPERTIES
    CapitalOutlivesWork
CHECK_DEADLOCK FALSE
