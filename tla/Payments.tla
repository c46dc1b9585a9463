-------------------------------- MODULE Payments --------------------------------
(***************************************************************************)
(* The payments of every pairing modelled, each by its module of rails.    *)
(***************************************************************************)
CONSTANTS None, Hashes

VARIABLES stage, pairing, option, choice, payment, form, served, built, answer, told

vars == <<stage, pairing, option, choice, payment, form, served, built, answer, told>>

Evm == INSTANCE EvmRails

Svm == INSTANCE SvmRails

Hedera == INSTANCE HederaRails

Stellar == INSTANCE StellarRails

Xrpl == INSTANCE XrplRails

Near == INSTANCE NearRails

Move == INSTANCE MoveRails

Cardano == INSTANCE CardanoRails

Starknet == INSTANCE StarknetRails

Casper == INSTANCE CasperRails

Ccd == INSTANCE CcdRails

Polkadot == INSTANCE PolkadotRails

Tron == INSTANCE TronRails

Algorand == INSTANCE AlgorandRails

Tvm == INSTANCE TvmRails

Charges == INSTANCE ChargeRails

(* An ATR hash is 32 bytes in hex, and no name of a form that is not one.   *)
ASSUME HashesAssumption == Hashes \cap ({"absent", "http", "malformed"} \cup Tvm!BagForms) = {}

Init ==
    \/ Evm!Init
    \/ Svm!Init
    \/ Hedera!Init
    \/ Stellar!Init
    \/ Xrpl!Init
    \/ Near!Init
    \/ Move!Init
    \/ Cardano!Init
    \/ Starknet!Init
    \/ Casper!Init
    \/ Ccd!Init
    \/ Polkadot!Init
    \/ Tron!Init
    \/ Algorand!Init
    \/ Tvm!Init
    \/ Charges!Init

Next ==
    \/ Evm!Next
    \/ Svm!Next
    \/ Hedera!Next
    \/ Stellar!Next
    \/ Xrpl!Next
    \/ Near!Next
    \/ Move!Next
    \/ Cardano!Next
    \/ Starknet!Next
    \/ Casper!Next
    \/ Ccd!Next
    \/ Polkadot!Next
    \/ Tron!Next
    \/ Algorand!Next
    \/ Tvm!Next
    \/ Charges!Next

Spec == Init /\ [][Next]_vars

--------------------------------------------------------------------------------
(* A binding keeps what every binding promises (Pairing): the hash asked of *)
(* build is what bound reads from the payment complete gives, over every    *)
(* option the filter serves, and no member changed on the way makes a       *)
(* payment that still settles read as another hash (_types.py:184-200).     *)
Promise == INSTANCE Pairing WITH
    asked <- IF choice = None \/ built # "ok" THEN None ELSE choice.h,
    verdict <- IF stage = "read" /\ answer \in Hashes THEN answer ELSE None

KeepsPromise == Promise!Spec

(* broadcaster refuses a payment only with the refusal bound gives it, and  *)
(* answers for every payment bound reads a hash from (_types.py:201-208).   *)
BroadcasterAgrees == stage = "read" => told \in {"payer", "payee"} \/ told = answer

(* The filter of every pairing serves what its build takes (Payment).       *)
ServedBuilds ==
    /\ Evm!ServedBuilds
    /\ Svm!ServedBuilds
    /\ Hedera!ServedBuilds
    /\ Stellar!ServedBuilds
    /\ Xrpl!ServedBuilds
    /\ Near!ServedBuilds
    /\ Move!ServedBuilds
    /\ Cardano!ServedBuilds
    /\ Starknet!ServedBuilds
    /\ Casper!ServedBuilds
    /\ Ccd!ServedBuilds
    /\ Polkadot!ServedBuilds
    /\ Tron!ServedBuilds
    /\ Algorand!ServedBuilds
    /\ Tvm!ServedBuilds
    /\ Charges!ServedBuilds
================================================================================
