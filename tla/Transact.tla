------------------------------- MODULE Transact -------------------------------
(***************************************************************************)
(* The buyer gate's transact: confirm, the agreement exchange, the signer  *)
(* step by step, and finish (_gate.py; gate.ts and transact.ts).  An agent *)
(* calls it again and again, for any offer, any pairing and with any       *)
(* agreement payment an earlier call gave it to approve.  The seller, the  *)
(* link, the agreement URL and the signer are the environment: the offer   *)
(* and the bytes behind the link may change from call to call, and the     *)
(* caller may change its document while a call awaits.  The exchange is    *)
(* AgreementCall, which module Exchange implements.                        *)
(***************************************************************************)
EXTENDS Integers

CONSTANTS
    Hashes,         \* the ATR hashes of offers, served bytes and payments
    Urls,           \* the agreement URLs an offer can name
    Pairings,       \* the kinds of pairing, [publicProof, place, moves, turns, nothing, steps]
    Refusals,       \* what confirm declines an offer with before it fetches
    FetchFaults,    \* what it declines a link's answer with
    MAX_STEPS,      \* 2: the most signer calls one payment takes
    MaxCalls        \* bound: the number of calls the agent makes

(* A pairing's payment is itself a public proof of the hash or not, has a   *)
(* place the pairing reads the hash from or not, is moved by its signer or  *)
(* only signed, and takes some signatures; of some, the offer decides       *)
(* whether its signer moves it, and turns with it.  There may be nothing to *)
(* sign.                                                                    *)
PairingKinds ==
    [publicProof : BOOLEAN, place : BOOLEAN, moves : BOOLEAN, turns : BOOLEAN, nothing : BOOLEAN,
     steps : 0..MAX_STEPS]

ASSUME PairingsAssumption ==
    /\ MAX_STEPS \in Nat
    /\ MaxCalls \in Nat
    /\ Pairings \subseteq PairingKinds
    /\ \A p \in Pairings :
          /\ p.publicProof => p.place /\ ~p.nothing
          /\ p.moves => p.steps > 0
    /\ "no-hash" \notin Hashes
    /\ (Refusals \cup FetchFaults) \cap {"none", "to-approve", "transacted"} = {}

VARIABLES
    pc,         \* "idle", or where the call is
    call,       \* the call's arguments and the seller's offer
    changed,    \* whether the caller changed the offer since it was built from
    calls,      \* how many calls the agent has made
    computed,   \* the hash of the bytes this call fetched
    asked,      \* whether this call reached the agreement exchange
    receipt,    \* the hash the agreement receipt in hand names
    answers,    \* how often the signer answered for the resource's payment
    spent,      \* whether the signer moved the resource's payment
    carries,    \* the hash read from the completed payment
    approvals,  \* the agreement payments the agent was given to approve
    result,     \* the latest call's outcome, [code, moved]
    mode, left, outcome     \* the agreement exchange

callVars == <<mode, left, outcome>>
vars == <<pc, call, changed, calls, computed, asked, receipt, answers, spent, carries, approvals, result,
          mode, left, outcome>>

Agreement == INSTANCE AgreementCall

NoHash == "no-hash"
NoUrl == "no-url"
NotApproved == [url |-> NoUrl, h |-> NoHash]
Approval == [url : Urls, h : Hashes]

Offer == [refusal : Refusals \cup {"none"}, h : Hashes, url : Urls \cup {NoUrl}, builds : BOOLEAN]
Call == [pairing : Pairings, offer : Offer, approved : Approval \cup {NotApproved}]

pairing == call.pairing

(* The agreement URL the call pays: a public proof needs none. *)
agreementUrl == IF pairing.publicProof THEN NoUrl ELSE call.offer.url

(* Mutant of Kind: the approved payment is paid whatever hash it was for. *)
KindOfUrl(approved, url, h) ==
    IF approved = NotApproved THEN "ask" ELSE IF approved.url = url THEN "pay" ELSE "refuse"

(* The exchange's kind of call: unpaid, or with an approved payment that is *)
(* or is not for this URL and these bytes.                                  *)
Kind(approved, url, h) ==
    IF approved = NotApproved THEN "ask"
    ELSE IF approved.url = url /\ approved.h = h THEN "pay"
    ELSE "refuse"

GateCodes == {"hash-mismatch", "agreement-not-offered", "offer-unreadable", "signer-failed", "signed-not-bound"}
Declines == Refusals \cup FetchFaults \cup GateCodes \cup Agreement!DeclineCodes
Outcome == [code : Declines \cup {"none", "to-approve", "transacted"}, moved : SUBSET {"agreement", "resource"}]

Init ==
    /\ pc = "idle"
    /\ call \in [pairing : Pairings, offer : Offer, approved : {NotApproved}]
    /\ changed = FALSE
    /\ calls = 0
    /\ computed = NoHash
    /\ asked = FALSE
    /\ receipt = NoHash
    /\ answers = 0
    /\ spent = FALSE
    /\ carries = NoHash
    /\ approvals = {}
    /\ result = [code |-> "none", moved |-> {}]
    /\ Agreement!CallInit

Return(code, keeps) ==
    /\ pc' = "idle"
    /\ result' = [code |-> code, moved |-> keeps]

------------------------------------------------------------------------------
(* confirm. *)

Start ==
    /\ pc = "idle"
    /\ calls < MaxCalls
    /\ pc' = "confirm"
    /\ calls' = calls + 1
    /\ call' \in [pairing : Pairings, offer : Offer, approved : approvals \cup {NotApproved}]
    /\ changed' = FALSE
    /\ computed' = NoHash
    /\ asked' = FALSE
    /\ receipt' = NoHash
    /\ answers' = 0
    /\ spent' = FALSE
    /\ carries' = NoHash
    /\ UNCHANGED <<approvals, result, callVars>>

RefuseOffer ==
    /\ pc = "confirm"
    /\ call.offer.refusal # "none"
    /\ Return(call.offer.refusal, {})
    /\ UNCHANGED <<call, changed, calls, computed, asked, receipt, answers, spent, carries, approvals, callVars>>

Fetch ==
    /\ pc = "confirm"
    /\ call.offer.refusal = "none"
    /\ pc' = "fetch"
    /\ UNCHANGED <<call, changed, calls, computed, asked, receipt, answers, spent, carries, approvals, result, callVars>>

FetchFails ==
    /\ pc = "fetch"
    /\ \E code \in FetchFaults : Return(code, {})
    /\ UNCHANGED <<call, changed, calls, computed, asked, receipt, answers, spent, carries, approvals, callVars>>

(* The link serves bytes of any hash. *)
Fetched ==
    /\ pc = "fetch"
    /\ computed' \in Hashes
    /\ pc' = "compare"
    /\ UNCHANGED <<call, changed, calls, asked, receipt, answers, spent, carries, approvals, result, callVars>>

(* Mutant of Comparison: the served bytes are not compared. *)
ComparisonOfForm ==
    IF ~pairing.publicProof /\ agreementUrl = NoUrl THEN "agreement-not-offered"
    ELSE IF ~call.offer.builds THEN "offer-unreadable"
    ELSE "confirmed"

(* The code the fetched bytes are declined with, "confirmed" when none. *)
Comparison ==
    IF computed # call.offer.h THEN "hash-mismatch"
    ELSE IF ~pairing.publicProof /\ agreementUrl = NoUrl THEN "agreement-not-offered"
    ELSE IF ~call.offer.builds THEN "offer-unreadable"
    ELSE "confirmed"

RefuseBytes ==
    /\ pc = "compare"
    /\ Comparison # "confirmed"
    /\ Return(Comparison, {})
    /\ UNCHANGED <<call, changed, calls, computed, asked, receipt, answers, spent, carries, approvals, callVars>>

------------------------------------------------------------------------------
(* The agreement. *)

SkipAgreement ==
    /\ pc = "compare"
    /\ Comparison = "confirmed"
    /\ agreementUrl = NoUrl
    /\ pc' = "sign"
    /\ UNCHANGED <<call, changed, calls, computed, asked, receipt, answers, spent, carries, approvals, result, callVars>>

BeginAgreement ==
    /\ pc = "compare"
    /\ Comparison = "confirmed"
    /\ agreementUrl # NoUrl
    /\ Agreement!Begin(Kind(call.approved, agreementUrl, computed))
    /\ pc' = "agreement"
    /\ asked' = TRUE
    /\ UNCHANGED <<call, changed, calls, computed, receipt, answers, spent, carries, approvals, result>>

AgreementLeaves ==
    /\ pc = "agreement"
    /\ Agreement!Leave
    /\ UNCHANGED <<pc, call, changed, calls, computed, asked, receipt, answers, spent, carries, approvals, result>>

(* Mutant of Carried: a decline of the exchange keeps no payment. *)
CarriedNever(o) == {}

(* What a decline of the exchange carries on. *)
Carried(o) == IF o.moved THEN {"agreement"} ELSE {}

AgreementReturns ==
    /\ pc = "agreement"
    /\ Agreement!Return
    /\ \/ /\ outcome' = Agreement!Agreed
          /\ receipt' = computed
          /\ pc' = "sign"
          /\ UNCHANGED <<approvals, result>>
       \/ /\ outcome' = Agreement!ToApprove
          /\ approvals' = approvals \cup {[url |-> agreementUrl, h |-> computed]}
          /\ Return("to-approve", {})
          /\ UNCHANGED receipt
       \/ /\ outcome'.code \in Agreement!DeclineCodes
          /\ Return(outcome'.code, Carried(outcome'))
          /\ UNCHANGED <<receipt, approvals>>
    /\ UNCHANGED <<call, changed, calls, computed, asked, answers, spent, carries>>

------------------------------------------------------------------------------
(* _sign_steps and finish. *)

(* The caller's document changes while the call awaits the URL or the       *)
(* signer: the choice holds the caller's own challenge or option.           *)
CallerChanges ==
    /\ pc = "agreement" \/ (pc = "sign" /\ ~pairing.nothing /\ pairing.steps > 0)
    /\ ~changed
    /\ changed' = TRUE
    /\ UNCHANGED <<pc, call, calls, computed, asked, receipt, answers, spent, carries, approvals, result, callVars>>

(* Mutant of Keep: only a payment whose every step was signed is kept. *)
KeepWhole(moves, n) == IF moves /\ n = pairing.steps THEN {"resource"} ELSE {}

(* What a decline keeps of the resource's payment, after n answers: the     *)
(* payment, when its request says that the signer moves it.                 *)
Keep(moves, n) == IF moves /\ n > 0 THEN {"resource"} ELSE {}

(* Mutant of Bound: the agreement payment stands for any hash the payment   *)
(* carries in its own place.                                                *)
BoundByAgreement(r) == r = computed \/ ~pairing.publicProof

(* finish on a payment whose hash is read as r: it is returned when that is *)
(* the compared hash, or when the pairing has no place for one and the      *)
(* proof is the agreement payment.                                          *)
Bound(r) == r = computed \/ (~pairing.publicProof /\ ~pairing.place)

Reads == IF pairing.place THEN Hashes \cup {NoHash} ELSE {NoHash}

(* finish builds again from the choice.  Unchanged, that is the build that  *)
(* was signed; changed, it may refuse, or say otherwise who moves it.       *)
RebuiltMoves == IF changed /\ pairing.turns THEN BOOLEAN ELSE {pairing.moves}

RebuildRefuses ==
    /\ changed
    /\ Return("offer-unreadable", {})
    /\ UNCHANGED carries

(* The piece does not complete the payment, after n answers. *)
NotCompleted(n) ==
    /\ \E moves \in RebuiltMoves : Return("signed-not-bound", Keep(moves, n))
    /\ UNCHANGED carries

Completed(n) ==
    \E r \in Reads, moves \in RebuiltMoves :
        /\ carries' = r
        /\ IF Bound(r) THEN Return("transacted", {}) ELSE Return("signed-not-bound", Keep(moves, n))

Finish(n) == RebuildRefuses \/ NotCompleted(n) \/ Completed(n)

(* Mutant of NothingToSign: it is looked for only once a request was built. *)
NothingAfterRequest ==
    /\ pc = "sign"
    /\ pairing.nothing
    /\ pairing.steps > 0
    /\ Return("transacted", {})
    /\ UNCHANGED <<call, changed, calls, computed, asked, receipt, answers, spent, carries, approvals, callVars>>

NothingToSign ==
    /\ pc = "sign"
    /\ pairing.nothing
    /\ \/ Return("transacted", {}) /\ UNCHANGED carries
       \/ RebuildRefuses
    /\ UNCHANGED <<call, changed, calls, computed, asked, receipt, answers, spent, approvals, callVars>>

(* The build is itself the payment: finish with no signature. *)
FinishUnsigned ==
    /\ pc = "sign"
    /\ ~pairing.nothing
    /\ pairing.steps = 0
    /\ Finish(0)
    /\ UNCHANGED <<call, changed, calls, computed, asked, receipt, answers, spent, approvals, callVars>>

SignerRaises ==
    /\ pc = "sign"
    /\ ~pairing.nothing
    /\ pairing.steps > 0
    /\ Return("signer-failed", Keep(pairing.moves, answers))
    /\ UNCHANGED <<call, changed, calls, computed, asked, receipt, answers, spent, carries, approvals, callVars>>

(* Mutant of SignerAnswers: no bound on the steps of one payment. *)
SignerAnswersOn ==
    /\ pc = "sign"
    /\ ~pairing.nothing
    /\ pairing.steps > 0
    /\ answers' = answers + 1
    /\ spent' = (spent \/ pairing.moves)
    /\ \/ Finish(answers + 1)
       \/ UNCHANGED <<pc, result, carries>>
    /\ UNCHANGED <<call, changed, calls, computed, asked, receipt, approvals, callVars>>

(* The signer answers, and moves the payment where it is the one to move it. *)
SignerAnswers ==
    /\ pc = "sign"
    /\ ~pairing.nothing
    /\ pairing.steps > 0
    /\ answers' = answers + 1
    /\ spent' = (spent \/ pairing.moves)
    /\ \/ answers + 1 = pairing.steps /\ Finish(answers + 1)
       \/ answers + 1 < pairing.steps /\ UNCHANGED <<pc, result, carries>>
       \/ answers + 1 < pairing.steps /\ (RebuildRefuses \/ NotCompleted(answers + 1))
    /\ UNCHANGED <<call, changed, calls, computed, asked, receipt, approvals, callVars>>

------------------------------------------------------------------------------
Confirm == RefuseOffer \/ Fetch \/ RefuseBytes \/ SkipAgreement \/ BeginAgreement
Link == FetchFails \/ Fetched
Exchanging == AgreementLeaves \/ AgreementReturns
Signing == NothingToSign \/ FinishUnsigned \/ SignerRaises \/ SignerAnswers

Next == Start \/ Confirm \/ Link \/ Exchanging \/ Signing \/ CallerChanges

Spec == Init /\ [][Next]_vars

(* The gate runs; the fetch has a deadline; the exchange returns, as        *)
(* Exchange's CallReturns shows; the signer answers or raises.              *)
Fairness ==
    /\ WF_vars(Confirm)
    /\ WF_vars(Link)
    /\ WF_vars(AgreementReturns)
    /\ WF_vars(Signing)

FairSpec == Spec /\ Fairness

------------------------------------------------------------------------------
(* Properties. *)

TypeOK ==
    /\ pc \in {"idle", "confirm", "fetch", "compare", "agreement", "sign"}
    /\ call \in Call
    /\ changed \in BOOLEAN
    /\ calls \in 0..MaxCalls
    /\ computed \in Hashes \cup {NoHash}
    /\ asked \in BOOLEAN
    /\ receipt \in Hashes \cup {NoHash}
    /\ answers \in 0..MAX_STEPS
    /\ spent \in BOOLEAN
    /\ carries \in Hashes \cup {NoHash}
    /\ approvals \subseteq Approval
    /\ result \in Outcome
    /\ mode \in Agreement!Modes
    /\ left \in BOOLEAN
    /\ outcome \in Agreement!Outcomes

declined == result.code \in Declines

(* The signer is handed the resource's payment only after the bytes the     *)
(* link served were compared with the hash the offer advertises, and, when  *)
(* the payment is no public proof of that hash, only with an agreement      *)
(* receipt for it in hand.                                                  *)
ProvenBeforeSigned ==
    pc = "sign" \/ answers > 0 =>
        /\ computed = call.offer.h
        /\ pairing.publicProof \/ receipt = computed

(* An agreement payment leaves only when an earlier call gave it to the     *)
(* agent to approve, for this agreement URL and for the bytes this call     *)
(* compared: a seller that changes its terms between the calls gets nothing.*)
ApprovedOnly ==
    asked /\ left =>
        /\ call.approved \in approvals
        /\ call.approved = [url |-> call.offer.url, h |-> computed]
        /\ computed = call.offer.h

(* Whatever the seller, the link and the signer do, a payment transact      *)
(* returns is provably over the advertised bytes: its own place carries     *)
(* their hash, or the agreement receipt names it.                           *)
Proven ==
    pc = "idle" /\ result.code = "transacted" =>
        /\ computed = call.offer.h
        /\ carries = computed \/ (~pairing.publicProof /\ receipt = computed)
        /\ pairing.place /\ ~pairing.nothing => carries = computed

(* Once the signer has moved the resource's payment, no decline loses it,   *)
(* and a decline that keeps one says the truth, unless the caller's own     *)
(* document changed under the call: finish then judges by another build,    *)
(* and what it declines may be lost (_gate.py: finish).  A signer that      *)
(* fails is judged by the request it was handed, whatever changed.          *)
ResourceKept ==
    pc = "idle" /\ declined /\ (~changed \/ result.code = "signer-failed") =>
        (spent <=> "resource" \in result.moved)

(* "Once the agreement payment is sent, a decline of transact carries it    *)
(* as moved", as the references say.                                        *)
AgreementKept ==
    pc = "idle" /\ declined /\ asked /\ left => "agreement" \in result.moved

(* While the agreement is not settled, its payment is not lost: a decline   *)
(* of the exchange keeps it, with no receipt in hand.                       *)
UnsettledKept ==
    pc = "idle" /\ declined /\ asked /\ left /\ receipt = NoHash => result.moved = {"agreement"}

(* Every call returns. *)
CallReturns == pc # "idle" ~> pc = "idle"
==============================================================================
