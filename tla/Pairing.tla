-------------------------------- MODULE Pairing --------------------------------
(***************************************************************************)
(* What every pairing's binding promises (the Binding of _types.py), over  *)
(* one payment: the hash asked of build is what bound reads from the       *)
(* payment complete gave, and a payment changed on its way, which the rail *)
(* still settles because what the payer signed is whole, never reads as    *)
(* another hash.  A payment the rail would not settle may read as          *)
(* anything: bound verifies no signature.                                  *)
(***************************************************************************)
CONSTANTS
    Hashes,     \* the ATR hashes
    None        \* no hash

VARIABLES
    stage,      \* "offer", "request", "payment", "read" or "refused"
    asked,      \* the hash the payer was asked to sign, or None
    form,       \* "whole", as complete gave it; "settles", changed and settled; "void"
    verdict     \* the hash bound reads, or None when it refuses

vars == <<stage, asked, form, verdict>>

Init ==
    /\ stage = "offer"
    /\ asked = None
    /\ form = "void"
    /\ verdict = None

(* build refuses the choice, or complete the signer's answer.               *)
Refuse ==
    /\ stage \in {"offer", "request"}
    /\ stage' = "refused"
    /\ UNCHANGED <<asked, form, verdict>>

Build ==
    /\ stage = "offer"
    /\ stage' = "request"
    /\ asked' \in Hashes
    /\ UNCHANGED <<form, verdict>>

Complete ==
    /\ stage = "request"
    /\ stage' = "payment"
    /\ form' \in {"whole", "void"}
    /\ UNCHANGED <<asked, verdict>>

Alter ==
    /\ stage = "payment"
    /\ form' \in {"settles", "void"}
    /\ UNCHANGED <<stage, asked, verdict>>

Bound ==
    /\ stage = "payment"
    /\ stage' = "read"
    /\ verdict' \in Hashes \cup {None}
    /\ form = "whole" => verdict' = asked
    /\ form = "settles" => verdict' \in {asked, None}
    /\ UNCHANGED <<asked, form>>

Next == Refuse \/ Build \/ Complete \/ Alter \/ Bound

Spec == Init /\ [][Next]_vars
==============================================================================
