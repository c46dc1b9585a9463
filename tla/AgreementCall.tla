---------------------------- MODULE AgreementCall ----------------------------
(***************************************************************************)
(* What one caller may rely on from the gate's agreement exchange          *)
(* (agree / exchange), whatever the agreement URL, the network, the signer *)
(* and the caller's signal do.  Calls come one after another.  A call is   *)
(* unpaid ("ask"), or carries a payment the agent approved: one for this   *)
(* agreement URL and these bytes ("pay"), or for others ("refuse").  Only  *)
(* a pay call lets a payment leave, and one at most.  Once it has left,    *)
(* the call ends with the receipt or with a decline that keeps the         *)
(* payment; before, with a decline that keeps nothing.                     *)
(***************************************************************************)
VARIABLES
    mode,      \* "idle", or the kind of the call in progress
    left,      \* whether the payment of the latest call has left the gate
    outcome    \* the latest call's outcome, [code, moved]

callVars == <<mode, left, outcome>>

Kinds == {"ask", "pay", "refuse"}
Modes == Kinds \cup {"idle"}

DeclineCodes == {"agreement-failed", "agreement-pending", "hash-mismatch", "offer-unreadable",
                 "no-payable-option", "link-not-https", "signer-failed", "signed-not-bound"}

Agreed == [code |-> "agreed", moved |-> FALSE]
ToApprove == [code |-> "to-approve", moved |-> FALSE]
Declined(keeps) == [code : DeclineCodes, moved : {keeps}]
NoOutcome == [code |-> "none", moved |-> FALSE]

Outcomes == Declined(TRUE) \cup Declined(FALSE) \cup {Agreed, ToApprove, NoOutcome}

(* The outcomes of a call, by its kind and by whether its payment has left. *)
OutcomesOf(m, l) ==
    IF l THEN {Agreed} \cup Declined(TRUE)
    ELSE IF m = "ask" THEN {Agreed, ToApprove} \cup Declined(FALSE)
    ELSE Declined(FALSE)

CallInit == mode = "idle" /\ left = FALSE /\ outcome = NoOutcome

Begin(m) ==
    /\ mode = "idle"
    /\ mode' = m
    /\ left' = FALSE
    /\ UNCHANGED outcome

Leave ==
    /\ mode = "pay"
    /\ ~left
    /\ left' = TRUE
    /\ UNCHANGED <<mode, outcome>>

Return ==
    /\ mode # "idle"
    /\ mode' = "idle"
    /\ outcome' \in OutcomesOf(mode, left)
    /\ UNCHANGED left

CallNext == (\E m \in Kinds : Begin(m)) \/ Leave \/ Return

CallSafety == CallInit /\ [][CallNext]_callVars

(* Every call returns. *)
CallSpec == CallSafety /\ WF_callVars(Return)
==============================================================================
