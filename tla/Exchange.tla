------------------------------- MODULE Exchange -------------------------------
(***************************************************************************)
(* The agreement exchange of the buyer gate: exchange and _offer in        *)
(* _agreement.py (exchange and offer in agreement.ts).  An agent calls it  *)
(* again and again; one call at a time.  The agreement URL, the network,   *)
(* the signer and the caller's signal are the environment and do anything  *)
(* they can do.  Code between two awaits is one step.  Time is in seconds  *)
(* and counted from the start of the current wait's clock: the unpaid      *)
(* request, or the paid exchange.                                          *)
(***************************************************************************)
EXTENDS Integers

CONSTANTS
    Hashes,             \* the ATR hashes a challenge or a payment can carry
    H,                  \* the hash of the bytes the gate compared
    Timeouts,           \* the values of an option's maxTimeoutSeconds
    RetryAfters,        \* the values of a 202's retry-after
    UNPAID_DEADLINE,    \* 10
    EXCHANGE_CAP,       \* 120
    SETTLE,             \* 60
    VERIFY,             \* 10
    WINDOW_EXTRA,       \* 180
    RETRY_DEFAULT,      \* 2
    RETRY_MIN,          \* 1
    TimerLimit,         \* the longest delay the runtime's timer keeps
    MaxCalls            \* bound: the number of calls the agent makes

ASSUME ConstantsAssumption ==
    /\ H \in Hashes
    /\ Timeouts \subseteq Nat \ {0}
    /\ RetryAfters \subseteq Nat
    /\ UNPAID_DEADLINE \in Nat \ {0}
    /\ EXCHANGE_CAP \in Nat \ {0}
    /\ SETTLE \in Nat
    /\ VERIFY \in Nat
    /\ WINDOW_EXTRA \in Nat
    /\ RETRY_MIN \in Nat \ {0}
    /\ RETRY_DEFAULT \in Nat
    /\ RETRY_DEFAULT >= RETRY_MIN
    /\ TimerLimit \in Nat
    /\ MaxCalls \in Nat

VARIABLES
    pc,         \* where the call is: "idle", "begun", or the await it is in
    call,       \* the call's arguments
    calls,      \* how many calls the agent has made
    signal,     \* whether the caller's signal is set
    now,        \* seconds since the current clock started
    until,      \* when the current request's deadline or the current sleep ends
    ans,        \* what came back for the request in flight
    signings,   \* how often this call asked the signer
    carries,    \* the hash the signed payment carries
    copies,     \* how often this call sent the signed payment
    due,        \* the earliest time the payment may be sent again
    result      \* the outcome of the latest call that returned

vars == <<pc, call, calls, signal, now, until, ans, signings, carries, copies, due, result>>

------------------------------------------------------------------------------
(* Challenges, calls and answers. *)

Lesser(a, b) == IF a <= b THEN a ELSE b
Greater(a, b) == IF a >= b THEN a ELSE b

(* A payment request: the hash it advertises, whether an option of it can   *)
(* be paid with a public proof and is built, and that option's timeout.     *)
Selects == {"payable", "no-payable-option", "offer-unreadable"}
Challenge == [advertises : Hashes, select : Selects, timeout : Timeouts]
NoChallenge == [select |-> "none"]

Faults == {"none", "link-not-https", "no-payable-option"}
Call == [fault : Faults, challenge : Challenge \cup {NoChallenge}, sameUrl : BOOLEAN]
NoCall == [fault |-> "none", challenge |-> NoChallenge, sameUrl |-> TRUE]

approved == call.challenge.select # "none"

(* The kind of the call in progress. *)
kind ==
    IF ~approved THEN "ask"
    ELSE IF call.sameUrl /\ call.challenge.advertises = H THEN "pay"
    ELSE "refuse"

AgreementOutcome == INSTANCE AgreementCall
    WITH mode <- IF pc = "idle" THEN "idle" ELSE kind,
         left <- copies > 0,
         outcome <- result

NoHash == "unreadable"      \* a completed payment the pairing reads no hash from
NoRetry == -1               \* a retry-after that is absent or of another form
NoAnswer == [kind |-> "none"]
Unanswered == [kind |-> "unanswered"]
Answer ==
    [kind : {"receipt", "other-200", "5xx", "other", "unreadable-402"}]
      \cup [kind : {"202"}, retry : RetryAfters \cup {NoRetry}]
      \cup [kind : {"402"}, challenge : Challenge]

(* Mutant of Paying: the advertised hash is not compared. *)
PayingAnyHash(c) == c.select

(* The code paying declines a challenge with, "payable" when it pays it. *)
Paying(c) ==
    IF c.select # "payable" THEN c.select
    ELSE IF c.advertises # H THEN "hash-mismatch"
    ELSE "payable"

RequestLimit(c) == Lesser(c.timeout, EXCHANGE_CAP) + SETTLE + VERIFY
Window(c) == c.timeout + WINDOW_EXTRA

(* Mutants of RetrySeconds: no default, and no least wait. *)
RetrySecondsAsRead(r) == r
RetrySecondsFromZero(r) == IF r = NoRetry THEN RETRY_DEFAULT ELSE r

RetrySeconds(r) == IF r = NoRetry THEN RETRY_DEFAULT ELSE Greater(RETRY_MIN, r)

(* The wait after an answer that leaves the payment pending. *)
Wait(a) == IF a.kind = "202" THEN RetrySeconds(a.retry) ELSE RETRY_DEFAULT

(* What the runtime's timer makes of a delay: one past its limit fires at once. *)
Timer(seconds) == IF seconds > TimerLimit THEN 0 ELSE seconds

(* The outcome the unpaid request's answer gives. *)
AskOutcome(a) ==
    CASE a.kind = "receipt" -> "agreed"
      [] a.kind = "202" -> "agreement-pending"
      [] a.kind = "402" -> IF Paying(a.challenge) = "payable" THEN "to-approve" ELSE Paying(a.challenge)
      [] OTHER -> "agreement-failed"

------------------------------------------------------------------------------
Init ==
    /\ pc = "idle"
    /\ call = NoCall
    /\ calls = 0
    /\ signal = FALSE
    /\ now = 0
    /\ until = 0
    /\ ans = NoAnswer
    /\ signings = 0
    /\ carries = NoHash
    /\ copies = 0
    /\ due = 0
    /\ result = AgreementOutcome!NoOutcome

(* The call ends: code, and whether it keeps the payment it sent. *)
Return(code, keeps) ==
    /\ pc' = "idle"
    /\ result' = [code |-> code, moved |-> keeps]
    /\ ans' = NoAnswer
    /\ UNCHANGED <<call, calls, signal, now, until, signings, carries, copies, due>>

(* The agent calls, with any arguments and with its signal set or not. *)
Start ==
    /\ pc = "idle"
    /\ calls < MaxCalls
    /\ pc' = "begun"
    /\ calls' = calls + 1
    /\ call' \in Call
    /\ signal' \in BOOLEAN
    /\ now' = 0
    /\ until' = 0
    /\ signings' = 0
    /\ carries' = NoHash
    /\ copies' = 0
    /\ due' = 0
    /\ UNCHANGED <<ans, result>>

RefuseArguments ==
    /\ pc = "begun"
    /\ call.fault # "none"
    /\ Return(call.fault, FALSE)

EndedAtStart ==
    /\ pc = "begun"
    /\ call.fault = "none"
    /\ signal
    /\ Return("agreement-failed", FALSE)

(* _offer: the unpaid request leaves. *)
AskChallenge ==
    /\ pc = "begun"
    /\ call.fault = "none"
    /\ ~signal
    /\ ~approved
    /\ pc' = "unpaid"
    /\ now' = 0
    /\ until' = UNPAID_DEADLINE
    /\ UNCHANGED <<call, calls, signal, ans, signings, carries, copies, due, result>>

RefuseUrl ==
    /\ pc = "begun"
    /\ call.fault = "none"
    /\ ~signal
    /\ approved
    /\ ~call.sameUrl
    /\ Return("agreement-failed", FALSE)

RefuseChallenge ==
    /\ pc = "begun"
    /\ call.fault = "none"
    /\ ~signal
    /\ approved
    /\ call.sameUrl
    /\ Paying(call.challenge) # "payable"
    /\ Return(Paying(call.challenge), FALSE)

(* pay: the approved payment is built and handed to the signer. *)
HandToSigner ==
    /\ pc = "begun"
    /\ call.fault = "none"
    /\ ~signal
    /\ approved
    /\ call.sameUrl
    /\ Paying(call.challenge) = "payable"
    /\ pc' = "sign"
    /\ signings' = signings + 1
    /\ UNCHANGED <<call, calls, signal, now, until, ans, carries, copies, due, result>>

SignerRaises ==
    /\ pc = "sign"
    /\ Return("signer-failed", FALSE)

(* The signer answers, and finish does not read H from the completed payment. *)
SignedNotBound ==
    /\ pc = "sign"
    /\ \E b \in (Hashes \cup {NoHash}) \ {H} : carries' = b
    /\ pc' = "idle"
    /\ result' = [code |-> "signed-not-bound", moved |-> FALSE]
    /\ UNCHANGED <<call, calls, signal, now, until, ans, signings, copies, due>>

(* The payment is bound, and is dropped: the signal is set, or JSON cannot  *)
(* write the payment.                                                       *)
SignedAndDropped ==
    /\ pc = "sign"
    /\ carries' = H
    /\ pc' = "idle"
    /\ \E code \in IF signal THEN {"agreement-failed"} ELSE {"signed-not-bound"} :
          result' = [code |-> code, moved |-> FALSE]
    /\ UNCHANGED <<call, calls, signal, now, until, ans, signings, copies, due>>

(* Mutant of Send: the last request is not cut off by the window. *)
SendUncapped(t) ==
    /\ pc' = "paid"
    /\ now' = t
    /\ until' = t + RequestLimit(call.challenge)
    /\ copies' = copies + 1
    /\ UNCHANGED <<call, calls, signal, ans, signings, due, result>>

(* A copy of the signed payment leaves, at time t of the paid clock. *)
Send(t) ==
    /\ pc' = "paid"
    /\ now' = t
    /\ until' = t + Lesser(RequestLimit(call.challenge), Window(call.challenge) - t)
    /\ copies' = copies + 1
    /\ UNCHANGED <<call, calls, signal, ans, signings, due, result>>

SendFirst ==
    /\ pc = "sign"
    /\ ~signal
    /\ carries' = H
    /\ Send(0)

------------------------------------------------------------------------------
(* The environment of a wait: answers, failed connections, the deadline,    *)
(* the clock and the caller's signal.                                       *)

InFlight == pc \in {"unpaid", "paid"} /\ ans = NoAnswer

Answered(a) ==
    /\ InFlight
    /\ ans' = a
    /\ UNCHANGED <<pc, call, calls, signal, now, until, signings, carries, copies, due, result>>

AnswerArrives == \E a \in Answer : Answered(a)

ConnectionFails == now < until /\ Answered(Unanswered)

(* Mutant of DeadlinePasses: only the paid request has a deadline. *)
DeadlineOfPaid == pc = "paid" /\ now >= until /\ Answered(Unanswered)

DeadlinePasses == now >= until /\ Answered(Unanswered)

SetSignal ==
    /\ pc # "idle"
    /\ ~signal
    /\ signal' = TRUE
    /\ UNCHANGED <<pc, call, calls, now, until, ans, signings, carries, copies, due, result>>

(* The event loop runs the gate before the clock passes what it waits for. *)
Tick ==
    /\ InFlight \/ pc = "wait"
    /\ ~signal
    /\ now < until
    /\ now' = now + 1
    /\ UNCHANGED <<pc, call, calls, signal, until, ans, signings, carries, copies, due, result>>

------------------------------------------------------------------------------
(* The gate after its awaits. *)

AskEnded ==
    /\ pc = "unpaid"
    /\ signal
    /\ Return("agreement-failed", FALSE)

AskAnswered ==
    /\ pc = "unpaid"
    /\ ~signal
    /\ ans # NoAnswer
    /\ Return(AskOutcome(ans), FALSE)

(* Mutant of Stopped: the signal ends a wait as it ends an unsent exchange. *)
StoppedUnsent ==
    /\ pc \in {"paid", "wait"}
    /\ signal
    /\ Return("agreement-failed", FALSE)

(* The signal ends the exchange in a request or in a wait. *)
Stopped ==
    /\ pc \in {"paid", "wait"}
    /\ signal
    /\ Return("agreement-pending", TRUE)

Recorded ==
    /\ pc = "paid"
    /\ ~signal
    /\ ans.kind = "receipt"
    /\ Return("agreed", FALSE)

(* Mutant of RefusedByUrl: the refused payment is not kept. *)
RefusedAndLost ==
    /\ pc = "paid"
    /\ ~signal
    /\ ans.kind \in {"other-200", "402", "unreadable-402", "other"}
    /\ Return("agreement-failed", FALSE)

RefusedByUrl ==
    /\ pc = "paid"
    /\ ~signal
    /\ ans.kind \in {"other-200", "402", "unreadable-402", "other"}
    /\ Return("agreement-failed", TRUE)

(* Mutant of Delay: every wait is the default one. *)
DelayDefault(a) == Greater(0, Lesser(RETRY_DEFAULT, Window(call.challenge) - now))

(* The wait, cut off by the window. *)
Delay(a) == Greater(0, Lesser(Wait(a), Window(call.challenge) - now))

Sleep ==
    /\ pc = "paid"
    /\ ~signal
    /\ ans.kind \in {"202", "5xx", "unanswered"}
    /\ pc' = "wait"
    /\ until' = now + Timer(Delay(ans))
    /\ due' = now + Wait(ans)
    /\ ans' = NoAnswer
    /\ UNCHANGED <<call, calls, signal, now, signings, carries, copies, result>>

(* Mutant of Resend: the signal is not read after a wait. *)
ResendUnheard ==
    /\ pc = "wait"
    /\ now >= until
    /\ now < Window(call.challenge)
    /\ Send(now)
    /\ UNCHANGED carries

Resend ==
    /\ pc = "wait"
    /\ ~signal
    /\ now >= until
    /\ now < Window(call.challenge)
    /\ Send(now)
    /\ UNCHANGED carries

WindowEnds ==
    /\ pc = "wait"
    /\ ~signal
    /\ now >= until
    /\ now >= Window(call.challenge)
    /\ Return("agreement-pending", TRUE)

------------------------------------------------------------------------------
Arguments ==
    \/ RefuseArguments \/ EndedAtStart \/ AskChallenge \/ RefuseUrl \/ RefuseChallenge \/ HandToSigner

Signer == SignerRaises \/ SignedNotBound \/ SignedAndDropped \/ SendFirst

Gate ==
    \/ AskEnded \/ AskAnswered
    \/ Stopped \/ Recorded \/ RefusedByUrl \/ Sleep \/ Resend \/ WindowEnds

Environment == AnswerArrives \/ ConnectionFails \/ DeadlinePasses \/ SetSignal \/ Tick

Next == Start \/ Arguments \/ Signer \/ Gate \/ Environment

Spec == Init /\ [][Next]_vars

(* The event loop runs what is ready, timers fire and time passes; the      *)
(* signer answers or raises.  The agreement URL and the network owe nothing.*)
Fairness ==
    /\ WF_vars(Arguments)
    /\ WF_vars(Signer)
    /\ WF_vars(Gate)
    /\ WF_vars(Tick)
    /\ WF_vars(DeadlinePasses)

FairSpec == Spec /\ Fairness

------------------------------------------------------------------------------
(* Properties. *)

TypeOK ==
    /\ pc \in {"idle", "begun", "unpaid", "sign", "paid", "wait"}
    /\ call \in Call
    /\ calls \in 0..MaxCalls
    /\ signal \in BOOLEAN
    /\ now \in Nat
    /\ until \in Nat
    /\ ans \in Answer \cup {NoAnswer, Unanswered}
    /\ signings \in 0..1
    /\ carries \in Hashes \cup {NoHash}
    /\ copies \in Nat
    /\ due \in Nat
    /\ result \in AgreementOutcome!Outcomes

(* The signer is asked only in a call the agent approved, for a challenge   *)
(* that advertises the compared hash, and once: a payment sent again after  *)
(* a 202, a 5xx or a timeout is never signed again.  What is sent carries   *)
(* the compared hash.                                                       *)
SignedOnceForH ==
    /\ signings > 0 => approved /\ call.challenge.advertises = H /\ signings = 1
    /\ copies > 0 => signings > 0 /\ carries = H

(* Once a copy of the payment has left, the call ends with the receipt or   *)
(* with a decline that keeps the payment, however it ends: by an answer,    *)
(* the window or the signal.  A decline that keeps a payment has sent it.   *)
KeptOnceSent ==
    pc = "idle" /\ result.code \notin {"agreed", "none"} => (result.moved <=> copies > 0)

(* The paid exchange ends by the option's maxTimeoutSeconds + 180 seconds,  *)
(* its last request and its last wait included.                             *)
WithinWindow ==
    copies > 0 =>
        /\ now <= Window(call.challenge)
        /\ pc \in {"paid", "wait"} => now <= until /\ until <= Window(call.challenge)

(* The runtime's timer keeps every delay up to the longest window: asyncio's*)
(* always, setTimeout's when the window is under 2^31 milliseconds.         *)
TimerCovers == \A t \in Timeouts : t + WINDOW_EXTRA <= TimerLimit

(* However fast the agreement URL answers, the payment is sent at most once *)
(* a second.                                                                *)
NoStorm == copies <= now + 1

(* After a 202 the payment is not sent again before retry-after, and after  *)
(* a 5xx or a timeout not before two seconds.                               *)
RetryHonoured == [][copies > 0 /\ copies' > copies => now' >= due]_vars

(* Once the caller's signal is set, no further copy of the payment leaves.  *)
SignalStops == [][signal /\ pc # "idle" => copies' = copies]_vars

(* Every call returns, whatever the agreement URL does or leaves undone.    *)
CallReturns == pc # "idle" ~> pc = "idle"

(* The exchange keeps the promise AgreementCall states to its callers.      *)
KeepsPromise == AgreementOutcome!CallSpec
==============================================================================
