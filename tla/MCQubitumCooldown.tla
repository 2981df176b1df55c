-------------------------- MODULE MCQubitumCooldown -------------------------
(***************************************************************************)
(* The pallet with a record of when each participant last had work: the    *)
(* block in which its latest assigned request closed.                      *)
(***************************************************************************)
EXTENDS MCQubitum

VARIABLES minerIdleSince, validatorIdleSince

cooldownVars == <<vars, minerIdleSince, validatorIdleSince>>

CooldownInit ==
    /\ MCWorkingInit
    /\ minerIdleSince = [m \in MinerIds |-> 0]
    /\ validatorIdleSince = [v \in ValidatorIds |-> 0]

CooldownNext ==
    /\ Next
    /\ minerIdleSince' = [m \in MinerIds |->
         IF PendingOf(m)' # PendingOf(m) THEN block ELSE minerIdleSince[m]]
    /\ validatorIdleSince' = [v \in ValidatorIds |->
         IF PendingAt(v)' # PendingAt(v) THEN block ELSE validatorIdleSince[v]]

CooldownSpec == CooldownInit /\ [][CooldownNext]_cooldownVars

(* Capital leaves its hold for the operator only when the participant has  *)
(* no pending request and a whole cooldown has passed since its last one   *)
(* closed: nothing it was paid for can be answered for with less capital.  *)
CapitalOutlivesWork ==
    [][/\ \A m \in MinerIds : MinerLockedBond[m] # NoRecord /\ MinerLockedBond'[m] = NoRecord =>
            PendingOf(m) = {} /\ block >= minerIdleSince[m] + MinerExitCooldownBlocks
       /\ \A v \in ValidatorIds :
            ValidatorLockedStake[v] # NoRecord /\ ValidatorLockedStake'[v] = NoRecord =>
            PendingAt(v) = {} /\ block >= validatorIdleSince[v] + ValidatorExitCooldownBlocks
      ]_cooldownVars
=============================================================================
