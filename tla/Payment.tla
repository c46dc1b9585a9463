-------------------------------- MODULE Payment --------------------------------
(***************************************************************************)
(* One payment of one pairing, from the option a document offers to the    *)
(* hash its receiver reads: the filter and build of the pairing's binding, *)
(* the signer, complete, the way to the receiver, and bound with           *)
(* broadcaster.  The binding is the constants; a module of rails defines   *)
(* them, and instantiates this one.                                        *)
(***************************************************************************)
CONSTANTS
    None,                       \* not there yet
    Hashes,                     \* the ATR hashes
    Pairings,                   \* the rails' pairings
    PublicProof(_),             \* whether a payment of the pairing proves its hash
    Options(_),                 \* the options a document may offer it
    HonestOptions(_),           \* those a seller of the pairing offers
    Choices(_),                 \* what build may be given, hash included
    HonestChoices(_),           \* what the gate gives it
    Answers(_, _),              \* what the signer may answer
    HonestAnswer(_),            \* what it answers when it signs as asked
    Altered(_, _),              \* a payment with one member changed, and whether it settles
    Served(_, _),               \* the option filter
    BuildOnly(_, _, _),         \* what of an option and a hash only build refuses
    Built(_, _, _),             \* the piece's choose, then build
    Completed(_, _, _, _),      \* the piece's complete
    Paid(_, _, _, _),           \* the payment it gives
    Bound(_, _),                \* bound
    Told(_, _)                  \* broadcaster

VARIABLES
    stage,      \* "offer", "request", "payment", "read" or "refused"
    pairing,
    option,     \* the option
    choice,     \* what build was given
    payment,    \* the payment, on its way
    form,       \* "whole", as complete gave it; "settles", changed and settled; "void"
    served,     \* the filter's answer for the option
    built,      \* build's refusal, or "ok" when it asks the signer
    answer,     \* complete's refusal, or what bound reads
    told        \* broadcaster's answer

vars == <<stage, pairing, option, choice, payment, form, served, built, answer, told>>

Init ==
    /\ stage = "offer"
    /\ pairing \in Pairings
    /\ option \in Options(pairing)
    /\ choice = None
    /\ payment = None
    /\ form = "void"
    /\ served = "ok"
    /\ built = "ok"
    /\ answer = "ok"
    /\ told = "ok"

(* build, for any choice over an honest option and for an honest one over   *)
(* any option.                                                              *)
Build ==
    /\ stage = "offer"
    /\ choice' \in IF option \in HonestOptions(pairing) THEN Choices(pairing) ELSE HonestChoices(pairing)
    /\ served' = Served(pairing, option)
    /\ built' = Built(pairing, option, choice')
    /\ stage' = IF built' = "ok" THEN "request" ELSE "refused"
    /\ UNCHANGED <<pairing, option, payment, form, answer, told>>

Complete ==
    /\ stage = "request"
    /\ \E given \in Answers(pairing, option) :
          /\ answer' = Completed(pairing, option, choice, given)
          /\ stage' = IF answer' = "ok" THEN "payment" ELSE "refused"
          /\ IF answer' # "ok" THEN UNCHANGED <<payment, form>>
             ELSE /\ payment' = Paid(pairing, option, choice, given)
                  /\ form' = IF given = HonestAnswer(pairing) THEN "whole" ELSE "void"
    /\ UNCHANGED <<pairing, option, choice, served, built, told>>

(* The payment is changed by whoever carries it.                            *)
Alter ==
    /\ stage = "payment" /\ form = "whole"
    /\ option \in HonestOptions(pairing) /\ choice \in HonestChoices(pairing)
    /\ \E changed \in Altered(pairing, payment) :
          /\ payment' = changed[1]
          /\ form' = IF changed[2] /\ PublicProof(pairing) THEN "settles" ELSE "void"
    /\ UNCHANGED <<stage, pairing, option, choice, served, built, answer, told>>

Read ==
    /\ stage = "payment"
    /\ stage' = "read"
    /\ answer' = Bound(pairing, payment)
    /\ told' = Told(pairing, payment)
    /\ UNCHANGED <<pairing, option, choice, payment, form, served, built>>

Next == pairing \in Pairings /\ (Build \/ Complete \/ Alter \/ Read)

(* The filter serves an option exactly when build asks the signer over it,  *)
(* but for the faults named as left to build, and where it refuses one,     *)
(* build refuses with the same code: read offers no other option that       *)
(* cannot be paid, and hides none that can (x402_evm.py:220-223,            *)
(* _x402.py:124-137).                                                       *)
ServedBuilds ==
    stage # "offer" /\ pairing \in Pairings /\ choice \in HonestChoices(pairing) =>
        /\ built = "ok" <=> served = "ok" /\ ~BuildOnly(pairing, option, choice.h)
        /\ served \notin {"ok", "none"} => built = served
================================================================================
