---------------------------- MODULE ExchangeProofs ----------------------------
(***************************************************************************)
(* What the agreement exchange guarantees for every value of its constants *)
(* and every behaviour of the agreement URL, the network, the signer and   *)
(* the caller's signal.                                                    *)
(***************************************************************************)
EXTENDS Exchange, TLAPS

(* Before the signer is asked, while it is asked, and once the payment is   *)
(* out: what each program point knows of the call.                          *)
Phases ==
    /\ pc \in {"begun", "unpaid"} => signings = 0 /\ copies = 0
    /\ pc = "unpaid" => ~approved
    /\ pc = "sign" => signings = 1 /\ copies = 0
    /\ pc \in {"sign", "paid", "wait"} => approved /\ call.sameUrl /\ Paying(call.challenge) = "payable"
    /\ pc \in {"paid", "wait"} => signings = 1 /\ copies >= 1 /\ carries = H

(* A wait ends with the window, or no earlier than the payment may go again *)
(* and with a second for every copy already sent.                           *)
Paced ==
    TimerCovers =>
        /\ copies <= now + 1
        /\ pc = "wait" => until = Window(call.challenge) \/ (until >= due /\ copies <= until)

------------------------------------------------------------------------------
(* The arithmetic of the deadlines. *)

LEMMA WindowPositive ==
    ASSUME NEW c \in Challenge
    PROVE  Window(c) \in Nat /\ Window(c) >= 1 /\ RequestLimit(c) \in Nat /\ RequestLimit(c) >= 1
<1>1. c.timeout \in Timeouts
  BY DEF Challenge
<1> \A t \in Timeouts : t \in Nat /\ t >= 1
  BY ConstantsAssumption
<1>2. c.timeout \in Nat /\ c.timeout >= 1
  BY <1>1
<1>3. Lesser(c.timeout, EXCHANGE_CAP) \in Nat /\ Lesser(c.timeout, EXCHANGE_CAP) >= 1
  BY <1>2, ConstantsAssumption DEF Lesser
<1>4. Window(c) \in Nat /\ Window(c) >= 1
  BY <1>2, ConstantsAssumption DEF Window
<1>5. RequestLimit(c) \in Nat /\ RequestLimit(c) >= 1
  BY <1>3, ConstantsAssumption DEF RequestLimit
<1> QED
  BY <1>4, <1>5

LEMMA WaitPositive ==
    ASSUME NEW a \in Answer \cup {Unanswered}
    PROVE  Wait(a) \in Nat /\ Wait(a) >= 1
<1>1. \A r \in RetryAfters \cup {NoRetry} : RetrySeconds(r) \in Nat /\ RetrySeconds(r) >= 1
  BY ConstantsAssumption DEF RetrySeconds, Greater, NoRetry
<1>2. RETRY_DEFAULT \in Nat /\ RETRY_DEFAULT >= 1
  BY ConstantsAssumption
<1>3. a.kind = "202" => a.retry \in RetryAfters \cup {NoRetry}
  BY DEF Answer, Unanswered
<1> QED
  BY <1>1, <1>2, <1>3 DEF Wait

LEMMA ApprovedIsChallenge ==
    ASSUME TypeOK, approved
    PROVE  call.challenge \in Challenge
  BY DEF TypeOK, Call, approved, NoChallenge

LEMMA SleepEnds ==
    ASSUME NEW c \in Challenge, NEW w \in Nat, NEW t \in Nat, t <= Window(c)
    PROVE  /\ t + Timer(Greater(0, Lesser(w, Window(c) - t))) \in Nat
           /\ t + Timer(Greater(0, Lesser(w, Window(c) - t))) >= t
           /\ t + Timer(Greater(0, Lesser(w, Window(c) - t))) <= Window(c)
           /\ TimerCovers => t + Timer(Greater(0, Lesser(w, Window(c) - t)))
                             \in {Window(c), t + w}
<1>1. Window(c) \in Nat
  BY WindowPositive
<1>2. TimerCovers => Window(c) <= TimerLimit
  BY DEF TimerCovers, Challenge, Window
<1> QED
  BY <1>1, <1>2, ConstantsAssumption DEF Timer, Greater, Lesser


------------------------------------------------------------------------------
(* Type correctness. *)

LEMMA PayingCodes ==
    ASSUME NEW c \in Challenge
    PROVE  Paying(c) \in {"payable", "hash-mismatch", "no-payable-option", "offer-unreadable"}
  BY DEF Challenge, Selects, Paying

LEMMA AskCodes ==
    ASSUME NEW a \in Answer \cup {Unanswered}
    PROVE  AskOutcome(a) \in AgreementOutcome!DeclineCodes \cup {"agreed", "to-approve"}
<1>1. a.kind = "402" => a.challenge \in Challenge
  BY DEF Answer, Unanswered
<1>2. a.kind = "402" => Paying(a.challenge) \in {"payable", "hash-mismatch", "no-payable-option", "offer-unreadable"}
  BY <1>1, PayingCodes
<1> QED
  BY <1>2 DEF AskOutcome, AgreementOutcome!DeclineCodes

LEMMA OutcomeTypes ==
    /\ AgreementOutcome!NoOutcome \in AgreementOutcome!Outcomes
    /\ \A code \in AgreementOutcome!DeclineCodes, keeps \in BOOLEAN :
          [code |-> code, moved |-> keeps] \in AgreementOutcome!Outcomes
    /\ \A code \in {"agreed", "to-approve"} :
          [code |-> code, moved |-> FALSE] \in AgreementOutcome!Outcomes
  BY DEF AgreementOutcome!Outcomes, AgreementOutcome!Declined, AgreementOutcome!Agreed,
         AgreementOutcome!ToApprove, AgreementOutcome!NoOutcome

LEMMA TypeInit == Init => TypeOK
<1> SUFFICES ASSUME Init PROVE TypeOK
  OBVIOUS
<1>1. call \in Call
  BY DEF Init, NoCall, Call, Faults
<1>2. calls \in 0..MaxCalls
  BY ConstantsAssumption DEF Init
<1>3. result \in AgreementOutcome!Outcomes
  BY OutcomeTypes DEF Init
<1>4. ans \in Answer \cup {NoAnswer, Unanswered} /\ carries \in Hashes \cup {NoHash}
  BY DEF Init
<1>5. now \in Nat /\ until \in Nat /\ copies \in Nat /\ due \in Nat /\ signings \in 0..1
  BY DEF Init
<1> QED
  BY <1>1, <1>2, <1>3, <1>4, <1>5 DEF Init, TypeOK

LEMMA SendTypes ==
    ASSUME TypeOK, approved, NEW t \in Nat, t < Window(call.challenge), Send(t)
    PROVE  pc' = "paid" /\ now' \in Nat /\ until' \in Nat /\ copies' \in Nat
           /\ now' <= until' /\ until' <= Window(call.challenge)
<1>1. call.challenge \in Challenge
  BY ApprovedIsChallenge
<1>2. /\ Window(call.challenge) \in Nat
      /\ RequestLimit(call.challenge) \in Nat
  BY <1>1, WindowPositive
<1> QED
  BY <1>2 DEF Send, Lesser, TypeOK

LEMMA TypeNext == TypeOK /\ Phases /\ WithinWindow /\ [Next]_vars => TypeOK'
<1> SUFFICES ASSUME TypeOK, Phases, WithinWindow, [Next]_vars
             PROVE  TypeOK'
  OBVIOUS
<1> USE DEF TypeOK
<1>1. CASE Start
  BY <1>1, ConstantsAssumption DEF Start
<1>2. CASE Arguments
  <2>1. CASE RefuseArguments
    <3>1. call.fault \in AgreementOutcome!DeclineCodes
      BY <2>1 DEF RefuseArguments, Call, Faults, AgreementOutcome!DeclineCodes
    <3> QED
      BY <2>1, <3>1, OutcomeTypes DEF RefuseArguments, Return
  <2>2. CASE EndedAtStart \/ RefuseUrl
    BY <2>2, OutcomeTypes DEF EndedAtStart, RefuseUrl, Return, AgreementOutcome!DeclineCodes
  <2>3. CASE AskChallenge
    BY <2>3, ConstantsAssumption DEF AskChallenge
  <2>4. CASE RefuseChallenge
    <3>1. Paying(call.challenge) \in AgreementOutcome!DeclineCodes
      BY <2>4, ApprovedIsChallenge, PayingCodes DEF RefuseChallenge, AgreementOutcome!DeclineCodes
    <3> QED
      BY <2>4, <3>1, OutcomeTypes DEF RefuseChallenge, Return
  <2>5. CASE HandToSigner
    BY <2>5 DEF HandToSigner, Phases
  <2> QED
    BY <1>2, <2>1, <2>2, <2>3, <2>4, <2>5 DEF Arguments
<1>3. CASE Signer
  <2>1. CASE SignerRaises
    BY <2>1, OutcomeTypes DEF SignerRaises, Return, AgreementOutcome!DeclineCodes
  <2>2. CASE SignedNotBound
    BY <2>2, OutcomeTypes DEF SignedNotBound, AgreementOutcome!DeclineCodes
  <2>3. CASE SignedAndDropped
    <3>1. PICK code \in {"agreement-failed", "signed-not-bound"} : result' = [code |-> code, moved |-> FALSE]
      BY <2>3 DEF SignedAndDropped
    <3>2. result' \in AgreementOutcome!Outcomes
      BY <3>1, OutcomeTypes DEF AgreementOutcome!DeclineCodes
    <3> QED
      BY <2>3, <3>2, ConstantsAssumption DEF SignedAndDropped
  <2>4. CASE SendFirst
    <3>1. approved /\ 0 < Window(call.challenge)
      BY <2>4, ApprovedIsChallenge, WindowPositive DEF SendFirst, Phases
    <3> QED
      BY <2>4, <3>1, SendTypes, ConstantsAssumption DEF SendFirst, Send
  <2> QED
    BY <1>3, <2>1, <2>2, <2>3, <2>4 DEF Signer
<1>4. CASE Gate
  <2>1. CASE AskEnded \/ Stopped \/ Recorded \/ RefusedByUrl \/ WindowEnds
    BY <2>1, OutcomeTypes DEF AskEnded, Stopped, Recorded, RefusedByUrl, WindowEnds, Return,
       AgreementOutcome!DeclineCodes
  <2>2. CASE AskAnswered
    <3>1. AskOutcome(ans) \in AgreementOutcome!DeclineCodes \cup {"agreed", "to-approve"}
      BY <2>2, AskCodes DEF AskAnswered
    <3> QED
      BY <2>2, <3>1, OutcomeTypes DEF AskAnswered, Return
  <2>3. CASE Sleep
    <3>1. ans \in Answer \cup {Unanswered}
      BY <2>3 DEF Sleep, NoAnswer
    <3>2. approved /\ copies > 0 /\ now <= Window(call.challenge)
      BY <2>3 DEF Sleep, Phases, WithinWindow
    <3>3. Wait(ans) \in Nat /\ Wait(ans) >= 1
      BY <3>1, WaitPositive
    <3>4. call.challenge \in Challenge
      BY <3>2, ApprovedIsChallenge
    <3>5. until' \in Nat
      BY <2>3, <3>2, <3>3, <3>4, SleepEnds DEF Sleep, Delay
    <3>6. due' \in Nat
      BY <2>3, <3>3 DEF Sleep, Delay
    <3> QED
      BY <2>3, <3>5, <3>6 DEF Sleep, Delay
  <2>4. CASE Resend
    <3>1. approved
      BY <2>4 DEF Resend, Phases
    <3> QED
      BY <2>4, <3>1, SendTypes DEF Resend, Send
  <2> QED
    BY <1>4, <2>1, <2>2, <2>3, <2>4 DEF Gate
<1>5. CASE Environment
  <2>1. ASSUME NEW a \in Answer \cup {Unanswered}, Answered(a)
        PROVE  TypeOK'
    <3>1. ans' \in Answer \cup {NoAnswer, Unanswered}
      BY <2>1 DEF Answered
    <3> QED
      BY <2>1, <3>1 DEF Answered
  <2>2. CASE SetSignal
    <3>1. signal' \in BOOLEAN
      BY <2>2 DEF SetSignal
    <3> QED
      BY <2>2, <3>1 DEF SetSignal
  <2>3. CASE Tick
    BY <2>3 DEF Tick
  <2> QED
    BY <1>5, <2>1, <2>2, <2>3 DEF Environment, AnswerArrives, ConnectionFails, DeadlinePasses
<1>6. CASE UNCHANGED vars
  BY <1>6 DEF vars
<1> QED
  BY <1>1, <1>2, <1>3, <1>4, <1>5, <1>6 DEF Next


------------------------------------------------------------------------------
(* The inductive invariant. *)

Rest == Phases /\ SignedOnceForH /\ KeptOnceSent /\ WithinWindow /\ Paced

LEMMA RestInit == Init => Rest
  BY DEF Init, Rest, Phases, SignedOnceForH, KeptOnceSent, WithinWindow, Paced,
         AgreementOutcome!NoOutcome

(* A decline before the payment is sent keeps nothing. *)
LEMMA UnsentReturn ==
    ASSUME TypeOK, Rest, NEW code, copies = 0, Return(code, FALSE)
    PROVE  Rest'
  BY DEF Return, Rest, Phases, SignedOnceForH, KeptOnceSent, WithinWindow, Paced, approved, TypeOK

(* Once the payment is sent, the receipt, or a decline that keeps it. *)
LEMMA SentReturn ==
    ASSUME TypeOK, Rest, pc \in {"paid", "wait"},
           Return("agreed", FALSE) \/ \E code : Return(code, TRUE)
    PROVE  Rest'
<1>1. copies > 0 /\ copies' = copies /\ pc' = "idle"
  BY DEF Return, Rest, Phases, TypeOK
<1>2. KeptOnceSent'
  BY <1>1 DEF Return, KeptOnceSent
<1>3. Phases' /\ SignedOnceForH' /\ WithinWindow' /\ Paced'
  BY <1>1 DEF Return, Rest, Phases, SignedOnceForH, WithinWindow, Paced, approved
<1> QED
  BY <1>2, <1>3 DEF Rest

LEMMA ArgumentsRest == TypeOK /\ Rest /\ Arguments => Rest'
<1> SUFFICES ASSUME TypeOK, Rest, Arguments PROVE Rest'
  OBVIOUS
<1>1. pc = "begun" /\ copies = 0 /\ signings = 0
  BY DEF Arguments, RefuseArguments, EndedAtStart, AskChallenge, RefuseUrl, RefuseChallenge,
         HandToSigner, Rest, Phases
<1>2. CASE RefuseArguments \/ EndedAtStart \/ RefuseUrl \/ RefuseChallenge
  BY <1>1, <1>2, UnsentReturn DEF RefuseArguments, EndedAtStart, RefuseUrl, RefuseChallenge
<1>3. CASE AskChallenge
  BY <1>1, <1>3 DEF AskChallenge, Rest, Phases, SignedOnceForH, KeptOnceSent, WithinWindow, Paced, approved
<1>4. CASE HandToSigner
  <2>1. approved /\ approved' /\ call.challenge.advertises = H
    BY <1>4 DEF HandToSigner, approved, Paying
  <2>2. Paying(call.challenge)' = "payable"
    BY <1>4 DEF HandToSigner, Paying
  <2> QED
    BY <1>1, <1>4, <2>1, <2>2 DEF HandToSigner, Rest, Phases, SignedOnceForH, KeptOnceSent, WithinWindow, Paced, TypeOK
<1> QED
  BY <1>2, <1>3, <1>4 DEF Arguments

LEMMA SignerRest == TypeOK /\ Rest /\ Signer => Rest'
<1> SUFFICES ASSUME TypeOK, Rest, Signer PROVE Rest'
  OBVIOUS
<1>1. pc = "sign" /\ copies = 0 /\ signings = 1 /\ approved /\ call.sameUrl /\ Paying(call.challenge) = "payable"
  BY DEF Signer, SignerRaises, SignedNotBound, SignedAndDropped, SendFirst, Rest, Phases
<1>2. call.challenge.advertises = H
  BY <1>1 DEF Rest, SignedOnceForH
<1>3. CASE SignerRaises
  BY <1>1, <1>3, UnsentReturn DEF SignerRaises
<1>4. CASE SignedNotBound \/ SignedAndDropped
  BY <1>1, <1>2, <1>4 DEF SignedNotBound, SignedAndDropped, Rest, Phases, SignedOnceForH, KeptOnceSent,
     WithinWindow, Paced, approved, TypeOK
<1>5. CASE SendFirst
  <2>1. Window(call.challenge) \in Nat /\ 0 < Window(call.challenge)
    BY <1>1, ApprovedIsChallenge, WindowPositive
  <2>2. pc' = "paid" /\ now' <= until' /\ until' <= Window(call.challenge)
    BY <1>1, <1>5, <2>1, SendTypes DEF SendFirst
  <2>3. now' = 0 /\ copies' = 1 /\ carries' = H /\ call' = call /\ signings' = 1
    BY <1>1, <1>5 DEF SendFirst, Send
  <2>4. approved' /\ call'.sameUrl /\ Paying(call.challenge)' = "payable" /\ Window(call.challenge)' = Window(call.challenge)
    BY <1>1, <2>3 DEF approved
  <2>5. now' <= Window(call.challenge)
    BY <2>1, <2>3
  <2> QED
    BY <1>2, <2>2, <2>3, <2>4, <2>5 DEF Rest, Phases, SignedOnceForH, KeptOnceSent, WithinWindow, Paced
<1> QED
  BY <1>3, <1>4, <1>5 DEF Signer

LEMMA GateRest == TypeOK /\ Rest /\ Gate => Rest'
<1> SUFFICES ASSUME TypeOK, Rest, Gate PROVE Rest'
  OBVIOUS
<1>1. CASE AskEnded \/ AskAnswered
  BY <1>1, UnsentReturn DEF AskEnded, AskAnswered, Rest, Phases
<1>2. CASE Stopped \/ Recorded \/ RefusedByUrl \/ WindowEnds
  BY <1>2, SentReturn DEF Stopped, Recorded, RefusedByUrl, WindowEnds
<1>3. CASE Sleep
  <2>1. /\ pc = "paid" /\ approved /\ copies >= 1 /\ signings = 1 /\ carries = H
        /\ call.sameUrl /\ Paying(call.challenge) = "payable" /\ now <= Window(call.challenge)
        /\ call.challenge.advertises = H
    BY <1>3 DEF Sleep, Rest, Phases, WithinWindow, SignedOnceForH, TypeOK
  <2>2. ans \in Answer \cup {Unanswered}
    BY <1>3 DEF Sleep, NoAnswer, TypeOK
  <2>3. Wait(ans) \in Nat /\ Wait(ans) >= 1
    BY <2>2, WaitPositive
  <2>4. call.challenge \in Challenge
    BY <2>1, ApprovedIsChallenge
  <2>5. /\ until' \in Nat /\ until' >= now /\ until' <= Window(call.challenge)
        /\ TimerCovers => until' \in {Window(call.challenge), now + Wait(ans)}
    BY <1>3, <2>1, <2>3, <2>4, SleepEnds DEF Sleep, Delay, TypeOK
  <2>6. /\ pc' = "wait" /\ due' = now + Wait(ans)
        /\ UNCHANGED <<call, now, signings, carries, copies, result>>
    BY <1>3 DEF Sleep
  <2>7. Phases' /\ SignedOnceForH' /\ KeptOnceSent'
    BY <2>1, <2>6 DEF Phases, SignedOnceForH, KeptOnceSent, approved
  <2>8. WithinWindow'
    BY <2>1, <2>5, <2>6 DEF WithinWindow
  <2>9. Paced'
    BY <2>3, <2>5, <2>6 DEF Rest, Paced, TypeOK
  <2> QED
    BY <2>7, <2>8, <2>9 DEF Rest
<1>4. CASE Resend
  <2>1. /\ pc = "wait" /\ approved /\ copies >= 1 /\ signings = 1 /\ carries = H
        /\ call.sameUrl /\ Paying(call.challenge) = "payable" /\ call.challenge.advertises = H
        /\ until <= now /\ now < Window(call.challenge)
    BY <1>4 DEF Resend, Rest, Phases, SignedOnceForH, TypeOK
  <2>2. pc' = "paid" /\ now' <= until' /\ until' <= Window(call.challenge)
    BY <1>4, <2>1, SendTypes DEF Resend, TypeOK
  <2>3. /\ now' = now /\ copies' = copies + 1
        /\ UNCHANGED <<call, signings, carries, result, due>>
    BY <1>4 DEF Resend, Send
  <2>4. Phases' /\ SignedOnceForH' /\ KeptOnceSent'
    BY <2>1, <2>2, <2>3 DEF Phases, SignedOnceForH, KeptOnceSent, approved, TypeOK
  <2>5. Window(call.challenge) \in Nat
    BY <2>1, ApprovedIsChallenge, WindowPositive
  <2>6. WithinWindow'
    BY <2>1, <2>2, <2>3, <2>5 DEF WithinWindow, TypeOK
  <2>7. TimerCovers => copies <= now
    BY <2>1, <2>5 DEF Rest, Paced, WithinWindow, TypeOK
  <2>8. Paced'
    BY <2>2, <2>3, <2>7 DEF Paced, TypeOK
  <2> QED
    BY <2>4, <2>6, <2>8 DEF Rest
<1> QED
  BY <1>1, <1>2, <1>3, <1>4 DEF Gate

LEMMA RestNext == TypeOK /\ Rest /\ [Next]_vars => Rest'
<1> SUFFICES ASSUME TypeOK, Rest, [Next]_vars PROVE Rest'
  OBVIOUS
<1> USE DEF Rest, Phases, SignedOnceForH, KeptOnceSent, WithinWindow, Paced
<1>1. CASE Start
  BY <1>1 DEF Start
<1>2. ASSUME NEW a, Answered(a)
      PROVE  Rest'
  BY <1>2 DEF Answered, approved
<1>3. CASE SetSignal
  BY <1>3 DEF SetSignal, approved
<1>4. CASE Tick
  <2>1. pc = "unpaid" => copies = 0
    OBVIOUS
  <2>2. pc \in {"unpaid", "paid", "wait"} /\ now' = now + 1 /\ now < until
        /\ UNCHANGED <<pc, call, signings, carries, copies, until, due, result>>
    BY <1>4 DEF Tick, InFlight
  <2>3. pc \in {"paid", "wait"} => now' <= until /\ until <= Window(call.challenge)
    BY <2>2 DEF TypeOK
  <2>4. pc \in {"paid", "wait"} => Window(call.challenge) \in Nat
    BY ApprovedIsChallenge, WindowPositive
  <2> QED
    BY <2>1, <2>2, <2>3, <2>4 DEF approved, TypeOK
<1>5. CASE UNCHANGED vars
  BY <1>5 DEF vars, approved
<1> QED
  BY <1>1, <1>2, <1>3, <1>4, <1>5, ArgumentsRest, SignerRest, GateRest
     DEF Next, Environment, AnswerArrives, ConnectionFails, DeadlinePasses

LEMMA Invariance == Spec => [](TypeOK /\ Rest)
<1>1. Init => TypeOK /\ Rest
  BY TypeInit, RestInit
<1>2. TypeOK /\ Rest /\ [Next]_vars => TypeOK' /\ Rest'
  BY TypeNext, RestNext DEF Rest
<1> QED
  BY <1>1, <1>2, PTL DEF Spec

------------------------------------------------------------------------------
(* The theorems. *)

(* Every reachable state has its type. *)
THEOREM TypeCorrect == Spec => []TypeOK
  BY Invariance, PTL

(* The signer is asked at most once in a call, only for an approved         *)
(* challenge that advertises the compared hash, and only a payment the      *)
(* pairing reads that hash from is ever sent.                               *)
THEOREM SignedOnce == Spec => []SignedOnceForH
<1>1. Rest => SignedOnceForH
  BY DEF Rest
<1> QED
  BY <1>1, Invariance, PTL

(* A decline keeps the payment exactly when a copy of it was sent.          *)
THEOREM Kept == Spec => []KeptOnceSent
<1>1. Rest => KeptOnceSent
  BY DEF Rest
<1> QED
  BY <1>1, Invariance, PTL

(* The paid exchange, its requests and waits included, ends in its window.  *)
THEOREM InWindow == Spec => []WithinWindow
<1>1. Rest => WithinWindow
  BY DEF Rest
<1> QED
  BY <1>1, Invariance, PTL

(* Where the runtime's timer keeps every delay up to the longest window,    *)
(* the payment is sent at most once a second.                               *)
THEOREM Paces == Spec => [](TimerCovers => NoStorm)
<1>1. Rest => (TimerCovers => NoStorm)
  BY DEF Rest, Paced, NoStorm
<1> QED
  BY <1>1, Invariance, PTL

------------------------------------------------------------------------------
(* What a step may do. *)

(* Copies leave in two steps only: the first out of the signer, and every   *)
(* later one out of a wait that has ended inside the window.                *)
LEMMA SentBy ==
    ASSUME TypeOK, Rest, [Next]_vars, copies' > copies
    PROVE  SendFirst \/ Resend
  BY DEF TypeOK, Next, vars, Start, Arguments, Signer, Gate, Environment,
         RefuseArguments, EndedAtStart, AskChallenge, RefuseUrl, RefuseChallenge, HandToSigner,
         SignerRaises, SignedNotBound, SignedAndDropped, AskEnded, AskAnswered, Stopped, Recorded,
         RefusedByUrl, Sleep, WindowEnds, AnswerArrives, ConnectionFails, DeadlinePasses, Answered,
         SetSignal, Tick, Return

(* Where the runtime's timer keeps every delay up to the longest window, a  *)
(* payment is not sent again before the retry-after of the last answer.     *)
THEOREM Honours ==
    ASSUME TimerCovers
    PROVE  Spec => RetryHonoured
<1>1. TypeOK /\ Rest /\ [Next]_vars => [copies > 0 /\ copies' > copies => now' >= due]_vars
  <2> SUFFICES ASSUME TypeOK, Rest, [Next]_vars, copies > 0, copies' > copies
               PROVE  now' >= due
    OBVIOUS
  <2>1. Resend
    BY SentBy DEF SendFirst, Rest, Phases, TypeOK
  <2>2. now' = now /\ until <= now /\ now < Window(call.challenge) /\ pc = "wait"
    BY <2>1 DEF Resend, Send, TypeOK
  <2>3. Window(call.challenge) \in Nat
    BY <2>2, ApprovedIsChallenge, WindowPositive DEF Rest, Phases
  <2> QED
    BY <2>2, <2>3, TimerCovers DEF Rest, Paced, TypeOK
<1> QED
  BY <1>1, Invariance, PTL DEF Spec, RetryHonoured

(* Once the caller's signal is set, no further copy of the payment leaves   *)
(* in that call.                                                            *)
THEOREM Stops == Spec => SignalStops
<1>1. TypeOK /\ Rest /\ [Next]_vars => [signal /\ pc # "idle" => copies' = copies]_vars
  BY DEF TypeOK, Next, vars, Start, Arguments, Signer, Gate, Environment,
         RefuseArguments, EndedAtStart, AskChallenge, RefuseUrl, RefuseChallenge, HandToSigner,
         SignerRaises, SignedNotBound, SignedAndDropped, SendFirst, AskEnded, AskAnswered, Stopped,
         Recorded, RefusedByUrl, Sleep, Resend, WindowEnds, AnswerArrives, ConnectionFails,
         DeadlinePasses, Answered, SetSignal, Tick, Return
<1> QED
  BY <1>1, Invariance, PTL DEF Spec, SignalStops

------------------------------------------------------------------------------
(* The exchange implements the safety of AgreementCall. *)

LEMMA UnsentImplements ==
    ASSUME TypeOK, NEW code, pc # "idle", copies = 0, copies' = copies, pc' = "idle",
           result' = [code |-> code, moved |-> FALSE],
           \/ code \in AgreementOutcome!DeclineCodes
           \/ ~approved /\ code \in {"agreed", "to-approve"}
    PROVE  AgreementOutcome!Return
<1>1. copies > 0 <=> FALSE
  BY DEF TypeOK
<1>2. kind \in {"ask", "pay", "refuse"} /\ (~approved => kind = "ask")
  BY DEF kind
<1>3. result' \in AgreementOutcome!OutcomesOf(kind, copies > 0)
  BY <1>1, <1>2 DEF AgreementOutcome!OutcomesOf, AgreementOutcome!Declined, AgreementOutcome!Agreed,
         AgreementOutcome!ToApprove
<1>4. UNCHANGED (copies > 0)
  OBVIOUS
<1> QED
  BY <1>2, <1>3, <1>4 DEF AgreementOutcome!Return, TypeOK

LEMMA SentImplements ==
    ASSUME TypeOK, pc # "idle", copies > 0, copies' = copies, pc' = "idle",
           \/ \E code \in AgreementOutcome!DeclineCodes : result' = [code |-> code, moved |-> TRUE]
           \/ result' = [code |-> "agreed", moved |-> FALSE]
    PROVE  AgreementOutcome!Return
<1>1. kind \in {"ask", "pay", "refuse"}
  BY DEF kind
<1>2. AgreementOutcome!OutcomesOf(kind, TRUE)
      = {AgreementOutcome!Agreed} \cup [code : AgreementOutcome!DeclineCodes, moved : {TRUE}]
  BY DEF AgreementOutcome!OutcomesOf, AgreementOutcome!Declined
<1>3. \A code \in AgreementOutcome!DeclineCodes :
          [code |-> code, moved |-> TRUE] \in [code : AgreementOutcome!DeclineCodes, moved : {TRUE}]
  OBVIOUS
<1>4. result' \in AgreementOutcome!OutcomesOf(kind, TRUE)
  BY <1>2, <1>3 DEF AgreementOutcome!Agreed
<1>5. UNCHANGED (copies > 0) /\ (copies > 0 <=> TRUE)
  OBVIOUS
<1> QED
  BY <1>1, <1>4, <1>5 DEF AgreementOutcome!Return, TypeOK

LEMMA StepImplements ==
    TypeOK /\ Rest /\ [Next]_vars => [AgreementOutcome!CallNext]_(AgreementOutcome!callVars)
<1> SUFFICES ASSUME TypeOK, Rest, [Next]_vars
             PROVE  AgreementOutcome!CallNext \/ UNCHANGED AgreementOutcome!callVars
  BY DEF AgreementOutcome!callVars
<1> USE DEF AgreementOutcome!CallNext, AgreementOutcome!callVars
<1>1. CASE Start
  BY <1>1 DEF Start, AgreementOutcome!Begin, AgreementOutcome!Kinds, kind
<1>2. CASE Arguments
  <2>1. pc = "begun" /\ copies = 0 /\ copies' = copies /\ call' = call /\ kind' = kind
    BY <1>2 DEF Arguments, RefuseArguments, EndedAtStart, AskChallenge, RefuseUrl, RefuseChallenge,
       HandToSigner, Return, Rest, Phases, kind, approved
  <2>2. ASSUME NEW code \in AgreementOutcome!DeclineCodes, Return(code, FALSE)
        PROVE  AgreementOutcome!Return
    BY <2>1, <2>2, UnsentImplements DEF Return
  <2>3. CASE RefuseArguments
    <3>1. call.fault \in AgreementOutcome!DeclineCodes
      BY <2>3 DEF RefuseArguments, TypeOK, Call, Faults, AgreementOutcome!DeclineCodes
    <3> QED
      BY <2>2, <2>3, <3>1 DEF RefuseArguments
  <2>4. CASE EndedAtStart \/ RefuseUrl
    BY <2>2, <2>4 DEF EndedAtStart, RefuseUrl, AgreementOutcome!DeclineCodes
  <2>5. CASE RefuseChallenge
    <3>1. Paying(call.challenge) \in AgreementOutcome!DeclineCodes
      BY <2>5, ApprovedIsChallenge, PayingCodes DEF RefuseChallenge, AgreementOutcome!DeclineCodes
    <3> QED
      BY <2>2, <2>5, <3>1 DEF RefuseChallenge
  <2>6. CASE AskChallenge \/ HandToSigner
    BY <2>1, <2>6 DEF AskChallenge, HandToSigner
  <2> QED
    BY <1>2, <2>3, <2>4, <2>5, <2>6 DEF Arguments
<1>3. CASE Signer
  <2>1. pc = "sign" /\ copies = 0 /\ kind = "pay" /\ call' = call /\ kind' = kind
    BY <1>3 DEF Signer, SignerRaises, SignedNotBound, SignedAndDropped, SendFirst, Send, Return,
       Rest, Phases, SignedOnceForH, kind, approved
  <2>2. ASSUME NEW code \in AgreementOutcome!DeclineCodes, copies' = copies, pc' = "idle",
               result' = [code |-> code, moved |-> FALSE]
        PROVE  AgreementOutcome!Return
    BY <2>1, <2>2, UnsentImplements
  <2>3. CASE SignerRaises
    BY <2>2, <2>3 DEF SignerRaises, Return, AgreementOutcome!DeclineCodes
  <2>4. CASE SignedNotBound
    BY <2>2, <2>4 DEF SignedNotBound, AgreementOutcome!DeclineCodes
  <2>5. CASE SignedAndDropped
    BY <2>2, <2>5 DEF SignedAndDropped, AgreementOutcome!DeclineCodes
  <2>6. CASE SendFirst
    BY <2>1, <2>6 DEF SendFirst, Send, AgreementOutcome!Leave
  <2> QED
    BY <1>3, <2>3, <2>4, <2>5, <2>6 DEF Signer
<1>4. CASE Gate
  <2>1. CASE AskEnded
    BY <2>1, UnsentImplements DEF AskEnded, Return, Rest, Phases,
       AgreementOutcome!DeclineCodes
  <2>2. CASE AskAnswered
    <3>1. ~approved /\ copies = 0
      BY <2>2 DEF AskAnswered, Rest, Phases
    <3>2. AskOutcome(ans) \in AgreementOutcome!DeclineCodes \cup {"agreed", "to-approve"}
      BY <2>2, AskCodes DEF AskAnswered, TypeOK
    <3> QED
      BY <2>2, <3>1, <3>2, UnsentImplements DEF AskAnswered, Return
  <2>3. CASE Stopped \/ Recorded \/ RefusedByUrl \/ WindowEnds
    <3>0. pc \in {"paid", "wait"}
      BY <2>3 DEF Stopped, Recorded, RefusedByUrl, WindowEnds
    <3>1. approved /\ copies > 0
      BY <3>0 DEF Rest, Phases, TypeOK
    <3>2. pc' = "idle" /\ UNCHANGED copies
      BY <2>3 DEF Stopped, Recorded, RefusedByUrl, WindowEnds, Return
    <3>3. \/ \E code \in AgreementOutcome!DeclineCodes : result' = [code |-> code, moved |-> TRUE]
          \/ result' = [code |-> "agreed", moved |-> FALSE]
      BY <2>3 DEF Stopped, Recorded, RefusedByUrl, WindowEnds, Return, AgreementOutcome!DeclineCodes
    <3> QED
      BY <3>0, <3>1, <3>2, <3>3, SentImplements
  <2>4. CASE Sleep
    BY <2>4 DEF Sleep, kind, approved
  <2>5. CASE Resend
    <3>1. copies > 0 /\ copies' > 0 /\ pc' = "paid" /\ UNCHANGED <<call, result>>
      BY <2>5 DEF Resend, Send, Rest, Phases, TypeOK
    <3> QED
      BY <2>5, <3>1 DEF Resend, kind, approved
  <2> QED
    BY <1>4, <2>1, <2>2, <2>3, <2>4, <2>5 DEF Gate
<1>5. CASE Environment
  BY <1>5 DEF Environment, AnswerArrives, ConnectionFails, DeadlinePasses, Answered, SetSignal, Tick,
     InFlight, kind, approved
<1>6. CASE UNCHANGED vars
  BY <1>6 DEF vars, kind, approved
<1> QED
  BY <1>1, <1>2, <1>3, <1>4, <1>5, <1>6 DEF Next

(* The exchange keeps the safety of the promise its callers rely on: an     *)
(* unpaid call lets no payment leave, an approved one at most one payment,  *)
(* and a call whose payment left ends with the receipt or keeps the payment.*)
THEOREM Implements == Spec => AgreementOutcome!CallSafety
<1>1. Init => AgreementOutcome!CallInit
  BY DEF Init, AgreementOutcome!CallInit
<1> QED
  BY <1>1, StepImplements, Invariance, PTL DEF Spec, AgreementOutcome!CallSafety
==============================================================================
