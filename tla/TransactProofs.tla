---------------------------- MODULE TransactProofs ----------------------------
(***************************************************************************)
(* What transact guarantees for every set of hashes, agreement URLs and    *)
(* pairings, and every number of calls.                                    *)
(***************************************************************************)
EXTENDS Transact, TLAPS

(* What each program point knows of the call. *)
Phases ==
    /\ pc \in {"confirm", "fetch"} => computed = NoHash
    /\ pc \in {"confirm", "fetch", "compare"} => ~asked
    /\ pc \in {"confirm", "fetch", "compare", "agreement"} => answers = 0 /\ receipt = NoHash
    /\ pc \in {"compare", "agreement", "sign"} => computed \in Hashes
    /\ pc = "agreement" => asked /\ computed = call.offer.h /\ agreementUrl # NoUrl
    /\ pc = "sign" => computed = call.offer.h /\ (pairing.publicProof \/ receipt = computed)
    /\ pc = "sign" /\ asked => receipt = computed
    /\ pc = "sign" /\ ~pairing.nothing => answers <= pairing.steps
    /\ pc = "sign" /\ pairing.steps > 0 => answers < pairing.steps
    /\ spent <=> pairing.moves /\ answers > 0
    /\ pc \in {"confirm", "fetch", "compare"} => ~changed

(* The agreement exchange of the call in progress is of the call's kind. *)
KindKept ==
    /\ pc = "agreement" <=> mode # "idle"
    /\ call.approved \in approvals \cup {NotApproved}
    /\ pc = "agreement" => mode = Kind(call.approved, agreementUrl, computed)

LEMMA Codes ==
    /\ \A c \in Declines, k \in SUBSET {"agreement", "resource"} : [code |-> c, moved |-> k] \in Outcome
    /\ \A c \in {"to-approve", "transacted"} : [code |-> c, moved |-> {}] \in Outcome
    /\ GateCodes \subseteq Declines /\ Agreement!DeclineCodes \subseteq Declines
    /\ \A c \in Refusals \cup FetchFaults : c \in Declines
  BY DEF Outcome, Declines

LEMMA AgreementOutcomes ==
    \A m, l : Agreement!OutcomesOf(m, l) \subseteq Agreement!Outcomes
  BY DEF Agreement!OutcomesOf, Agreement!Outcomes

LEMMA TypeInit == Init => TypeOK
<1> SUFFICES ASSUME Init PROVE TypeOK
  OBVIOUS
<1>1. call \in Call
  BY DEF Init, Call
<1>2. calls \in 0..MaxCalls /\ answers \in 0..MAX_STEPS
  BY PairingsAssumption DEF Init
<1>3. result \in Outcome
  BY DEF Init, Outcome
<1>4. mode \in Agreement!Modes /\ left \in BOOLEAN /\ outcome \in Agreement!Outcomes
  BY DEF Init, Agreement!CallInit, Agreement!Modes, Agreement!Outcomes
<1> QED
  BY <1>1, <1>2, <1>3, <1>4 DEF Init, TypeOK

LEMMA PairingTypes ==
    ASSUME TypeOK
    PROVE  /\ pairing \in PairingKinds
           /\ pairing.publicProof => pairing.place /\ ~pairing.nothing
           /\ pairing.moves => pairing.steps > 0
           /\ pairing.steps \in 0..MAX_STEPS
           /\ \A m, n : Keep(m, n) \in SUBSET {"agreement", "resource"}
<1>1. pairing \in Pairings
  BY DEF TypeOK, Call, pairing
<1>2. pairing \in PairingKinds
  BY <1>1, PairingsAssumption
<1> QED
  BY <1>1, <1>2, PairingsAssumption DEF PairingKinds, Keep

LEMMA FinishTypes ==
    ASSUME TypeOK, NEW n, Finish(n)
    PROVE  pc' = "idle" /\ result' \in Outcome /\ carries' \in Hashes \cup {NoHash}
<1>1. \A m : Keep(m, n) \in SUBSET {"agreement", "resource"}
  BY PairingTypes
<1>2. "signed-not-bound" \in Declines /\ "offer-unreadable" \in Declines
  BY DEF Declines, GateCodes
<1>3. CASE RebuildRefuses
  BY <1>2, <1>3, Codes DEF RebuildRefuses, Return, TypeOK
<1>4. CASE NotCompleted(n)
  BY <1>1, <1>2, <1>4, Codes DEF NotCompleted, Return, TypeOK
<1>5. CASE Completed(n)
  BY <1>1, <1>2, <1>5, Codes DEF Completed, Return, Reads
<1> QED
  BY <1>3, <1>4, <1>5 DEF Finish

LEMMA TypeNext == TypeOK /\ Phases /\ [Next]_vars => TypeOK'
<1> SUFFICES ASSUME TypeOK, Phases, [Next]_vars PROVE TypeOK'
  OBVIOUS
<1> USE DEF TypeOK
<1>1. CASE Start
  <2>1. call' \in Call
    <3>1. PICK c \in [pairing : Pairings, offer : Offer, approved : approvals \cup {NotApproved}] : call' = c
      BY <1>1 DEF Start
    <3>2. c.approved \in Approval \cup {NotApproved}
      BY <3>1
    <3> QED
      BY <3>1, <3>2 DEF Call
  <2>2. calls' \in 0..MaxCalls /\ answers' \in 0..MAX_STEPS
    BY <1>1, PairingsAssumption DEF Start
  <2> QED
    BY <1>1, <2>1, <2>2 DEF Start, callVars
<1>2. CASE RefuseOffer
  <2>1. call.offer.refusal \in Declines
    BY <1>2 DEF RefuseOffer, Call, Offer, Declines
  <2> QED
    BY <1>2, <2>1, Codes DEF RefuseOffer, Return, callVars
<1>3. CASE Fetch \/ Fetched \/ SkipAgreement
  BY <1>3 DEF Fetch, Fetched, SkipAgreement, callVars
<1>4. CASE FetchFails
  <2>1. result' \in Outcome
    BY <1>4, Codes DEF FetchFails, Return
  <2> QED
    BY <1>4, <2>1 DEF FetchFails, Return, callVars
<1>5. CASE RefuseBytes
  <2>1. Comparison \in Declines
    BY <1>5 DEF RefuseBytes, Comparison, Declines, GateCodes
  <2> QED
    BY <1>5, <2>1, Codes DEF RefuseBytes, Return, callVars
<1>6. CASE BeginAgreement
  <2>1. Kind(call.approved, agreementUrl, computed) \in Agreement!Modes
    BY DEF Kind, Agreement!Modes, Agreement!Kinds
  <2> QED
    BY <1>6, <2>1 DEF BeginAgreement, Agreement!Begin
<1>7. CASE AgreementLeaves
  BY <1>7 DEF AgreementLeaves, Agreement!Leave
<1>8. CASE AgreementReturns
  <2>1. outcome' \in Agreement!Outcomes /\ mode' \in Agreement!Modes /\ left' \in BOOLEAN
    BY <1>8, AgreementOutcomes DEF AgreementReturns, Agreement!Return, Agreement!Modes
  <2>2. computed \in Hashes
    BY <1>8 DEF AgreementReturns, Phases
  <2>3. call.offer.url \in Urls \cup {NoUrl}
    BY DEF Call, Offer
  <2>4. CASE outcome' = Agreement!Agreed
    <3>1. receipt' \in Hashes \cup {NoHash} /\ pc' \in {"idle", "sign"}
      BY <1>8, <2>2 DEF AgreementReturns, Return
    <3> QED
      BY <1>8, <2>1, <2>4, <3>1 DEF AgreementReturns, Agreement!Agreed, Agreement!ToApprove, Agreement!DeclineCodes
  <2>5. CASE outcome' = Agreement!ToApprove
    <3>1. agreementUrl \in Urls
      BY <1>8, <2>3 DEF AgreementReturns, Phases, agreementUrl
    <3>2. approvals' \subseteq Approval
      BY <1>8, <2>2, <3>1 DEF AgreementReturns, Approval
    <3>3. result' \in Outcome /\ pc' = "idle" /\ UNCHANGED receipt
      BY <1>8, <2>5, Codes DEF Carried, AgreementReturns, Return, Agreement!Agreed, Agreement!ToApprove, Agreement!DeclineCodes
    <3> QED
      BY <1>8, <2>1, <3>2, <3>3 DEF AgreementReturns
  <2>6. CASE outcome'.code \in Agreement!DeclineCodes
    <3>1. result' \in Outcome /\ pc' = "idle" /\ UNCHANGED <<receipt, approvals>>
      BY <1>8, <2>6, Codes DEF Carried, AgreementReturns, Return, Agreement!Agreed, Agreement!ToApprove, Agreement!DeclineCodes
    <3> QED
      BY <1>8, <2>1, <3>1 DEF AgreementReturns
  <2> QED
    BY <1>8, <2>4, <2>5, <2>6 DEF AgreementReturns
<1>9. CASE NothingToSign
  BY <1>9, Codes DEF NothingToSign, RebuildRefuses, Return, GateCodes, callVars
<1>10. CASE FinishUnsigned
  BY <1>10, FinishTypes DEF FinishUnsigned, callVars
<1>11. CASE SignerRaises
  <2>1. result' \in Outcome
    BY <1>11, PairingTypes, Codes DEF SignerRaises, Return, GateCodes
  <2> QED
    BY <1>11, <2>1 DEF SignerRaises, Return, callVars
<1>12. CASE SignerAnswers
  <2>1. answers' \in 0..MAX_STEPS /\ spent' \in BOOLEAN
    BY <1>12, PairingTypes, PairingsAssumption DEF SignerAnswers, Phases, PairingKinds
  <2>2. pc' \in {"idle", "sign"} /\ result' \in Outcome /\ carries' \in Hashes \cup {NoHash}
    BY <1>12, FinishTypes DEF SignerAnswers, Finish
  <2> QED
    BY <1>12, <2>1, <2>2 DEF SignerAnswers, callVars
<1>13. CASE CallerChanges
  BY <1>13 DEF CallerChanges, callVars
<1>14. CASE UNCHANGED vars
  BY <1>14 DEF vars
<1> QED
  BY <1>1, <1>2, <1>3, <1>4, <1>5, <1>6, <1>7, <1>8, <1>9, <1>10, <1>11, <1>12, <1>13, <1>14
     DEF Next, Confirm, Link, Exchanging, Signing


------------------------------------------------------------------------------
(* The inductive invariant. *)

Rest == Phases /\ KindKept /\ ProvenBeforeSigned /\ ApprovedOnly /\ Proven /\ ResourceKept /\ UnsettledKept

LEMMA RestInit == Init => Rest
  BY DEF Init, Rest, Phases, KindKept, ProvenBeforeSigned, ApprovedOnly, Proven, ResourceKept, UnsettledKept,
         Agreement!CallInit, declined, Declines


LEMMA DeclineCodes ==
    /\ "to-approve" \notin Declines /\ "transacted" \notin Declines
    /\ \A c \in Declines : c # "transacted"
  BY PairingsAssumption DEF Declines, GateCodes, Agreement!DeclineCodes

(* A decline before the signer answered and before the exchange was reached. *)
LEMMA EarlyDecline ==
    ASSUME TypeOK, Rest, NEW code \in Declines, Return(code, {}), ~spent, ~asked, answers = 0, mode = "idle",
           UNCHANGED <<call, changed, calls, computed, asked, receipt, answers, spent, carries, approvals, callVars>>
    PROVE  Rest'
<1>1. pc' = "idle" /\ result' = [code |-> code, moved |-> {}]
  BY DEF Return
<1>2. Phases' /\ KindKept' /\ ProvenBeforeSigned' /\ ApprovedOnly'
  BY <1>1 DEF Rest, Phases, KindKept, ProvenBeforeSigned, ApprovedOnly, pairing, callVars
<1>3. Proven' /\ ResourceKept' /\ UnsettledKept'
  BY <1>1, DeclineCodes DEF Proven, ResourceKept, UnsettledKept, declined, callVars
<1> QED
  BY <1>2, <1>3 DEF Rest

(* What a call returns from the signer's answers: a payment that is bound,  *)
(* a decline that keeps what was moved, or, once the caller changed its     *)
(* document, a decline by another build.                                    *)
SignResult(n) ==
    \/ /\ result' = [code |-> "transacted", moved |-> {}]
       /\ Bound(carries') \/ pairing.nothing
    \/ /\ result'.code \in {"signed-not-bound", "signer-failed"}
       /\ result'.moved = Keep(pairing.moves, n)
    \/ changed /\ result'.code \in {"offer-unreadable", "signed-not-bound"}

LEMMA FinishCases ==
    ASSUME TypeOK, NEW n, Finish(n)
    PROVE  pc' = "idle" /\ SignResult(n)
<1>1. CASE RebuildRefuses
  BY <1>1 DEF RebuildRefuses, Return, SignResult
<1>2. CASE \E moves \in RebuiltMoves : Return("signed-not-bound", Keep(moves, n))
  <2>1. PICK moves \in RebuiltMoves : Return("signed-not-bound", Keep(moves, n))
    BY <1>2
  <2>2. changed \/ moves = pairing.moves
    BY <2>1 DEF RebuiltMoves
  <2> QED
    BY <2>1, <2>2 DEF Return, SignResult
<1>3. CASE \E r \in Reads : carries' = r /\ Bound(r) /\ Return("transacted", {})
  BY <1>3 DEF Return, SignResult
<1> QED
  BY <1>1, <1>2, <1>3 DEF Finish, NotCompleted, Completed

(* The call ends once the exchange, if any, has agreed. *)
LEMMA SignReturn ==
    ASSUME TypeOK, Rest, pc = "sign", pc' = "idle", NEW n \in {answers, answers + 1},
           answers' = n, spent' <=> pairing.moves /\ n > 0, SignResult(n),
           UNCHANGED <<call, changed, calls, computed, asked, receipt, approvals, callVars>>
    PROVE  Rest'
<1> USE DEF Rest
<1>1. computed = call.offer.h /\ (pairing.publicProof \/ receipt = computed) /\ computed \in Hashes /\ mode = "idle"
  BY DEF Phases, KindKept
<1>2. Phases' /\ KindKept' /\ ProvenBeforeSigned' /\ ApprovedOnly'
  BY <1>1 DEF Phases, KindKept, ProvenBeforeSigned, ApprovedOnly, pairing, callVars
<1>3. Proven'
  BY <1>1, PairingTypes DEF Proven, Bound, pairing, SignResult
<1>4. ResourceKept'
  <2>1. CASE result' = [code |-> "transacted", moved |-> {}]
    BY <2>1, DeclineCodes DEF ResourceKept, declined
  <2>2. CASE result'.moved = Keep(pairing.moves, n)
    <3>3. "resource" \in Keep(pairing.moves, n) <=> pairing.moves /\ n > 0
      BY DEF Keep
    <3> QED
      BY <2>2, <3>3 DEF ResourceKept
  <2>3. CASE changed /\ result'.code \in {"offer-unreadable", "signed-not-bound"}
    BY <2>3 DEF ResourceKept
  <2> QED
    BY <2>1, <2>2, <2>3 DEF SignResult
<1>5. UnsettledKept'
  BY <1>1, PairingsAssumption DEF Phases, UnsettledKept, NoHash, callVars
<1> QED
  BY <1>2, <1>3, <1>4, <1>5

LEMMA RestNext == TypeOK /\ Rest /\ [Next]_vars => Rest'
<1> SUFFICES ASSUME TypeOK, Rest, [Next]_vars PROVE Rest'
  OBVIOUS
<1>0. /\ pc \in {"confirm", "fetch", "compare"} => ~asked /\ answers = 0 /\ receipt = NoHash /\ mode = "idle" /\ ~spent
      /\ answers \in Nat
  BY PairingsAssumption DEF Rest, Phases, KindKept, TypeOK
<1>1. CASE Start
  BY <1>1, PairingsAssumption DEF Start, Rest, Phases, KindKept, ProvenBeforeSigned, ApprovedOnly, Proven,
     ResourceKept, UnsettledKept, callVars
<1>2. CASE RefuseOffer
  <2>1. call.offer.refusal \in Declines
    BY <1>2 DEF RefuseOffer, TypeOK, Call, Offer, Declines
  <2> QED
    BY <1>0, <1>2, <2>1, EarlyDecline DEF RefuseOffer
<1>3. CASE Fetch \/ Fetched
  BY <1>0, <1>3 DEF Fetch, Fetched, Rest, Phases, KindKept, ProvenBeforeSigned, ApprovedOnly, Proven,
     ResourceKept, UnsettledKept, callVars, pairing, agreementUrl
<1>4. CASE FetchFails
  BY <1>0, <1>4, EarlyDecline, Codes DEF FetchFails
<1>5. CASE RefuseBytes
  <2>1. Comparison \in Declines
    BY <1>5 DEF RefuseBytes, Comparison, Declines, GateCodes
  <2> QED
    BY <1>0, <1>5, <2>1, EarlyDecline DEF RefuseBytes
<1>6. CASE SkipAgreement \/ BeginAgreement
  <2>1. computed = call.offer.h /\ computed \in Hashes /\ (pairing.publicProof \/ agreementUrl # NoUrl) /\ pc = "compare"
    BY <1>6 DEF SkipAgreement, BeginAgreement, Comparison, Rest, Phases
  <2>2. CASE SkipAgreement
    BY <1>0, <2>1, <2>2, PairingTypes DEF SkipAgreement, Rest, Phases, KindKept, ProvenBeforeSigned, ApprovedOnly,
       Proven, ResourceKept, UnsettledKept, callVars, pairing, PairingKinds
  <2>3. CASE BeginAgreement
    <3>1. Kind(call.approved, agreementUrl, computed) # "idle"
      BY DEF Kind
    <3>2. /\ pc' = "agreement" /\ mode' = Kind(call.approved, agreementUrl, computed)
          /\ UNCHANGED <<call, computed, receipt, answers, spent, carries, approvals, result>>
          /\ left' = FALSE /\ asked' = TRUE
      BY <2>3 DEF BeginAgreement, Agreement!Begin
    <3> QED
      BY <1>0, <2>1, <3>1, <3>2, <2>3 DEF BeginAgreement, Rest, Phases, KindKept, ProvenBeforeSigned,
         ApprovedOnly, Proven, ResourceKept, UnsettledKept, pairing, agreementUrl
  <2> QED
    BY <1>6, <2>2, <2>3
<1>7. CASE AgreementLeaves
  <2>1. /\ pc = "agreement" /\ mode = "pay" /\ left' = TRUE
        /\ UNCHANGED <<pc, call, changed, calls, computed, asked, receipt, answers, spent, carries, approvals, result, mode>>
    BY <1>7 DEF AgreementLeaves, Agreement!Leave
  <2>2. call.approved.url = agreementUrl /\ call.approved.h = computed /\ call.approved # NotApproved
    BY <2>1 DEF Rest, KindKept, Kind
  <2>3. agreementUrl = call.offer.url
    BY <2>1 DEF Rest, Phases, agreementUrl
  <2>4. call.approved = [url |-> call.offer.url, h |-> computed]
    BY <2>2, <2>3 DEF TypeOK, Call, Approval, NotApproved
  <2>5. computed = call.offer.h /\ call.approved \in approvals
    BY <2>1, <2>2 DEF Rest, Phases, KindKept
  <2>6. Phases' /\ KindKept' /\ ProvenBeforeSigned'
    BY <2>1 DEF Rest, Phases, KindKept, ProvenBeforeSigned, pairing, agreementUrl
  <2>7. ApprovedOnly'
    BY <2>1, <2>4, <2>5 DEF ApprovedOnly
  <2>8. Proven' /\ ResourceKept' /\ UnsettledKept'
    BY <2>1 DEF Proven, ResourceKept, UnsettledKept
  <2> QED
    BY <2>6, <2>7, <2>8 DEF Rest
<1>8. CASE AgreementReturns
  <2>1. /\ pc = "agreement" /\ asked /\ computed = call.offer.h /\ computed \in Hashes /\ agreementUrl # NoUrl
        /\ answers = 0 /\ receipt = NoHash /\ ~spent
    BY <1>8, <1>0 DEF AgreementReturns, Rest, Phases
  <2>2. /\ mode' = "idle" /\ left' = left
        /\ UNCHANGED <<call, changed, calls, computed, asked, answers, spent, carries>>
        /\ outcome' \in Agreement!OutcomesOf(mode, left)
    BY <1>8 DEF AgreementReturns, Agreement!Return
  <2>3. left => outcome' = Agreement!Agreed \/ outcome'.moved
    BY <2>2 DEF Agreement!OutcomesOf, Agreement!Declined
  <2>4. CASE outcome' = Agreement!Agreed
    <3>1. receipt' = computed /\ pc' = "sign" /\ UNCHANGED <<approvals, result>>
      BY <1>8, <2>4 DEF Carried, AgreementReturns, Agreement!Agreed, Agreement!ToApprove, Agreement!DeclineCodes
    <3> QED
      BY <1>0, <2>1, <2>2, <3>1, PairingTypes DEF Rest, Phases, KindKept, ProvenBeforeSigned, ApprovedOnly, Proven,
         ResourceKept, UnsettledKept, pairing, PairingKinds
  <2>5. CASE outcome' # Agreement!Agreed
    <3>1. /\ pc' = "idle" /\ receipt' = receipt /\ approvals \subseteq approvals'
          /\ \/ result' = [code |-> "to-approve", moved |-> {}]
             \/ /\ outcome'.code \in Declines
                /\ result' = [code |-> outcome'.code, moved |-> IF outcome'.moved THEN {"agreement"} ELSE {}]
      BY <1>8, <2>5, Codes DEF Carried, AgreementReturns, Return
    <3>2. Phases' /\ KindKept' /\ ProvenBeforeSigned' /\ ApprovedOnly'
      BY <2>1, <2>2, <3>1 DEF Rest, Phases, KindKept, ProvenBeforeSigned, ApprovedOnly, pairing
    <3>3. Proven' /\ ResourceKept' /\ UnsettledKept'
      BY <2>1, <2>2, <2>3, <2>5, <3>1, DeclineCodes DEF Proven, ResourceKept, UnsettledKept, declined
    <3> QED
      BY <3>2, <3>3 DEF Rest
  <2> QED
    BY <2>4, <2>5
<1>9. CASE NothingToSign
  <2>1. pc = "sign" /\ (spent <=> pairing.moves /\ answers > 0)
    BY <1>9 DEF NothingToSign, Rest, Phases
  <2>2. SignResult(answers) /\ pc' = "idle"
    BY <1>9 DEF NothingToSign, RebuildRefuses, Return, SignResult
  <2> QED
    BY <1>9, <2>1, <2>2, SignReturn DEF NothingToSign
<1>10. CASE FinishUnsigned
  <2>1. pc = "sign" /\ answers = 0 /\ (spent <=> pairing.moves /\ answers > 0)
    BY <1>0, <1>10 DEF FinishUnsigned, Rest, Phases
  <2> QED
    BY <1>10, <2>1, SignReturn, FinishCases DEF FinishUnsigned
<1>11. CASE SignerRaises
  <2>1. pc = "sign" /\ (spent <=> pairing.moves /\ answers > 0)
    BY <1>11 DEF SignerRaises, Rest, Phases
  <2>2. SignResult(answers) /\ pc' = "idle"
    BY <1>11 DEF SignerRaises, Return, SignResult
  <2> QED
    BY <1>11, <2>1, <2>2, SignReturn DEF SignerRaises
<1>12. CASE SignerAnswers
  <2>0. pc = "sign" /\ answers' = answers + 1 /\ answers + 1 > 0
    BY <1>0, <1>12 DEF SignerAnswers
  <2>5. spent' <=> pairing.moves
    BY <1>12, Zenon DEF SignerAnswers, Rest, Phases
  <2>1. pc = "sign" /\ answers' = answers + 1 /\ (spent' <=> pairing.moves /\ answers + 1 > 0)
    BY <2>0, <2>5
  <2>2. CASE answers + 1 = pairing.steps /\ Finish(answers + 1)
    BY <1>0, <1>12, <2>1, <2>2, SignReturn, FinishCases DEF SignerAnswers
  <2>3. CASE answers + 1 < pairing.steps /\ UNCHANGED <<pc, result, carries>>
    <3>1. UNCHANGED <<call, changed, calls, computed, asked, receipt, approvals, callVars>>
      BY <1>12 DEF SignerAnswers
    <3> QED
      BY <1>0, <2>1, <2>3, <3>1, PairingTypes DEF Rest, Phases, KindKept, ProvenBeforeSigned, ApprovedOnly, Proven,
         ResourceKept, UnsettledKept, pairing, callVars, PairingKinds
  <2>4. CASE RebuildRefuses \/ NotCompleted(answers + 1)
    <3>1. Finish(answers + 1)
      BY <2>4 DEF Finish
    <3> QED
      BY <1>0, <1>12, <2>1, <3>1, SignReturn, FinishCases DEF SignerAnswers
  <2> QED
    BY <1>12, <2>2, <2>3, <2>4 DEF SignerAnswers
<1>13. CASE CallerChanges
  BY <1>13 DEF CallerChanges, Rest, Phases, KindKept, ProvenBeforeSigned, ApprovedOnly, Proven, ResourceKept,
     UnsettledKept, pairing, agreementUrl, callVars, declined
<1>14. CASE UNCHANGED vars
  BY <1>14 DEF vars, Rest, Phases, KindKept, ProvenBeforeSigned, ApprovedOnly, Proven, ResourceKept,
     UnsettledKept, pairing, agreementUrl, callVars, declined
<1> QED
  BY <1>1, <1>2, <1>3, <1>4, <1>5, <1>6, <1>7, <1>8, <1>9, <1>10, <1>11, <1>12, <1>13, <1>14
     DEF Next, Confirm, Link, Exchanging, Signing

LEMMA Invariance == Spec => [](TypeOK /\ Rest)
<1>1. Init => TypeOK /\ Rest
  BY TypeInit, RestInit
<1>2. TypeOK /\ Rest /\ [Next]_vars => TypeOK' /\ Rest'
  BY TypeNext, RestNext DEF Rest
<1> QED
  BY <1>1, <1>2, PTL DEF Spec

------------------------------------------------------------------------------
(* The theorems. *)

(* Every reachable state has its type. *)
THEOREM TypeCorrect == Spec => []TypeOK
  BY Invariance, PTL

(* The signer is handed the resource's payment only after the comparison,   *)
(* and, without a public proof, only with the receipt in hand.              *)
THEOREM SignsAfterProof == Spec => []ProvenBeforeSigned
<1>1. Rest => ProvenBeforeSigned
  BY DEF Rest
<1> QED
  BY <1>1, Invariance, PTL

(* An agreement payment leaves only for what an earlier call gave the agent *)
(* to approve: this URL and the bytes compared.                             *)
THEOREM PaysWhatWasApproved == Spec => []ApprovedOnly
<1>1. Rest => ApprovedOnly
  BY DEF Rest
<1> QED
  BY <1>1, Invariance, PTL

(* A payment transact returns is provably over the advertised bytes.        *)
THEOREM ReturnsProven == Spec => []Proven
<1>1. Rest => Proven
  BY DEF Rest
<1> QED
  BY <1>1, Invariance, PTL

(* A decline keeps the resource's payment exactly when its signer moved it, *)
(* where the caller's document did not change under the call or the signer  *)
(* failed.                                                                  *)
THEOREM KeepsResource == Spec => []ResourceKept
<1>1. Rest => ResourceKept
  BY DEF Rest
<1> QED
  BY <1>1, Invariance, PTL

(* A decline with no receipt in hand keeps the agreement payment it sent.   *)
THEOREM KeepsUnsettled == Spec => []UnsettledKept
<1>1. Rest => UnsettledKept
  BY DEF Rest
<1> QED
  BY <1>1, Invariance, PTL
==============================================================================
