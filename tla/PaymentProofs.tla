----------------------------- MODULE PaymentProofs -----------------------------
(***************************************************************************)
(* Payment implements Pairing for every rail, however large its options,   *)
(* choices and payments, of which three facts hold that are about its      *)
(* functions alone: the stages of a payment add no other case.             *)
(***************************************************************************)
EXTENDS Payment, TLAPS

Spec == Init /\ [][Next]_vars

(* The hash build was asked for, and the hash bound read.                   *)
asked == IF choice = None \/ built # "ok" THEN None ELSE choice.h
verdict == IF stage = "read" /\ answer \in Hashes THEN answer ELSE None

Promise == INSTANCE Pairing

(* What build is given for an option.                                       *)
Given(p, o) == IF o \in HonestOptions(p) THEN Choices(p) ELSE HonestChoices(p)

(* Of a payment whose signer signed as asked, which complete gave.          *)
Gives(p, o, c) == Built(p, o, c) = "ok" /\ Completed(p, o, c, HonestAnswer(p)) = "ok"
Honest(p, o, c) == Paid(p, o, c, HonestAnswer(p))

(* A payment changed by its carrier was honestly offered and asked for.     *)
Carried(p, o, c) == o \in HonestOptions(p) /\ c \in HonestChoices(p)

(* build asks for a hash's payment only; bound reads that hash from what    *)
(* complete gives; and of a payment that is a public proof and is changed   *)
(* so that it settles, bound reads that hash or none.                       *)
Faithful ==
    \A p \in Pairings : \A o \in Options(p) : \A c \in Given(p, o) :
        /\ c # None
        /\ Built(p, o, c) = "ok" => c.h \in Hashes
        /\ Gives(p, o, c) => Bound(p, Honest(p, o, c)) = c.h
        /\ Gives(p, o, c) /\ PublicProof(p) /\ Carried(p, o, c) =>
            \A changed \in Altered(p, Honest(p, o, c)) :
                changed[2] /\ Bound(p, changed[1]) \in Hashes => Bound(p, changed[1]) = c.h

(* What is known of the payment in each stage.                              *)
Stages ==
    /\ pairing \in Pairings
    /\ option \in Options(pairing)
    /\ stage \in {"offer", "request", "payment", "read", "refused"}
    /\ stage = "offer" => choice = None /\ built = "ok"
    /\ stage # "offer" => choice \in Given(pairing, option)
    /\ stage \in {"request", "payment"} => built = "ok" /\ Built(pairing, option, choice) = "ok"
    /\ stage = "payment" /\ form \in {"whole", "settles"} => Gives(pairing, option, choice)
    /\ stage = "payment" /\ form = "whole" => payment = Honest(pairing, option, choice)
    /\ stage = "payment" /\ form = "settles" =>
        /\ PublicProof(pairing) /\ Carried(pairing, option, choice)
        /\ \E changed \in Altered(pairing, Honest(pairing, option, choice)) : payment = changed[1] /\ changed[2]

LEMMA StagesStart == Init => Stages
  BY DEF Init, Stages

LEMMA StagesStep == Stages /\ [Next]_vars => Stages'
<1> SUFFICES ASSUME Stages, [Next]_vars
             PROVE  Stages'
  OBVIOUS
<1>1. CASE Build
  <2>1. choice' \in Given(pairing, option)
    BY <1>1 DEF Build, Given
  <2>2. pairing' = pairing /\ option' = option /\ built' = Built(pairing, option, choice')
    BY <1>1 DEF Build
  <2>3. (stage' = "request" /\ built' = "ok") \/ stage' = "refused"
    BY <1>1 DEF Build
  <2> QED
    BY <2>1, <2>2, <2>3 DEF Stages
<1>2. CASE Complete
  <2>1. PICK given \in Answers(pairing, option) :
            /\ answer' = Completed(pairing, option, choice, given)
            /\ stage' = IF answer' = "ok" THEN "payment" ELSE "refused"
            /\ IF answer' # "ok" THEN UNCHANGED <<payment, form>>
               ELSE /\ payment' = Paid(pairing, option, choice, given)
                    /\ form' = IF given = HonestAnswer(pairing) THEN "whole" ELSE "void"
    BY <1>2 DEF Complete
  <2>2. stage = "request" /\ UNCHANGED <<pairing, option, choice, built>>
    BY <1>2 DEF Complete
  <2>3. CASE answer' = "ok" /\ given = HonestAnswer(pairing)
    BY <2>1, <2>2, <2>3 DEF Stages, Gives, Honest
  <2>4. CASE answer' = "ok" /\ given # HonestAnswer(pairing)
    BY <2>1, <2>2, <2>4 DEF Stages
  <2>5. CASE answer' # "ok"
    BY <2>1, <2>2, <2>5 DEF Stages
  <2> QED
    BY <2>3, <2>4, <2>5
<1>3. CASE Alter
  <2>1. PICK changed \in Altered(pairing, payment) :
            /\ payment' = changed[1]
            /\ form' = IF changed[2] /\ PublicProof(pairing) THEN "settles" ELSE "void"
    BY <1>3 DEF Alter
  <2>2. /\ stage = "payment" /\ form = "whole" /\ UNCHANGED <<stage, pairing, option, choice, built>>
        /\ Carried(pairing, option, choice)
    BY <1>3 DEF Alter, Carried
  <2>3. payment = Honest(pairing, option, choice) /\ Gives(pairing, option, choice)
    BY <2>2 DEF Stages
  <2>4. CASE changed[2] /\ PublicProof(pairing)
    BY <2>1, <2>2, <2>3, <2>4 DEF Stages
  <2>5. CASE ~(changed[2] /\ PublicProof(pairing))
    BY <2>1, <2>2, <2>5 DEF Stages
  <2> QED
    BY <2>4, <2>5
<1>4. CASE Read
  BY <1>4 DEF Read, Stages
<1>5. CASE UNCHANGED vars
  BY <1>5 DEF vars, Stages
<1> QED
  BY <1>1, <1>2, <1>3, <1>4, <1>5 DEF Next

(***************************************************************************)
(* The refinement.                                                         *)
(***************************************************************************)
LEMMA PromiseStarts == Init => Promise!Init
  BY DEF Init, Promise!Init, asked, verdict

LEMMA PromiseSteps == Faithful /\ Stages /\ [Next]_vars => [Promise!Next]_Promise!vars
<1> SUFFICES ASSUME Faithful, Stages, [Next]_vars
             PROVE  [Promise!Next]_Promise!vars
  OBVIOUS
<1>1. stage = "offer" => asked = None
  BY DEF Stages, asked
<1>2. stage # "read" => verdict = None
  BY DEF verdict
<1>3. CASE Build
  <2>1. /\ stage = "offer" /\ choice' \in Given(pairing, option)
        /\ built' = Built(pairing, option, choice')
        /\ stage' = IF built' = "ok" THEN "request" ELSE "refused"
        /\ UNCHANGED <<pairing, option, form, answer>>
    BY <1>3 DEF Build, Given
  <2>2. choice' # None /\ (built' = "ok" => choice'.h \in Hashes)
    BY <2>1 DEF Stages, Faithful
  <2>3. verdict' = None /\ verdict = None
    BY <1>2, <2>1 DEF verdict
  <2>4. CASE built' = "ok"
    <3>1. asked' \in Hashes
      BY <2>2, <2>4 DEF asked
    <3>2. Promise!Build
      BY <2>1, <2>3, <2>4, <3>1 DEF Promise!Build, asked, verdict
    <3> QED
      BY <3>2 DEF Promise!Next
  <2>5. CASE built' # "ok"
    <3>1. asked' = asked
      BY <1>1, <2>1, <2>5 DEF asked
    <3>2. Promise!Refuse
      BY <2>1, <2>3, <2>5, <3>1 DEF Promise!Refuse, asked, verdict
    <3> QED
      BY <3>2 DEF Promise!Next
  <2> QED
    BY <2>4, <2>5
<1>4. CASE Complete
  <2>1. stage = "request" /\ UNCHANGED <<choice, built>>
    BY <1>4 DEF Complete
  <2>2. (stage' = "payment" /\ form' \in {"whole", "void"}) \/ (stage' = "refused" /\ form' = form)
    BY <1>4 DEF Complete
  <2>3. asked' = asked /\ verdict' = None /\ verdict = None
    BY <1>2, <2>1, <2>2 DEF asked, verdict
  <2>4. Promise!Complete \/ Promise!Refuse
    BY <2>1, <2>2, <2>3 DEF Promise!Complete, Promise!Refuse, asked, verdict
  <2> QED
    BY <2>4 DEF Promise!Next
<1>5. CASE Alter
  <2>1. stage = "payment" /\ form' \in {"settles", "void"} /\ UNCHANGED <<stage, choice, built, answer>>
    BY <1>5 DEF Alter
  <2>2. asked' = asked /\ verdict' = verdict
    BY <2>1 DEF asked, verdict
  <2>3. Promise!Alter
    BY <2>1, <2>2 DEF Promise!Alter, asked, verdict
  <2> QED
    BY <2>3 DEF Promise!Next
<1>6. CASE Read
  <2>1. /\ stage = "payment" /\ stage' = "read"
        /\ answer' = Bound(pairing, payment)
        /\ UNCHANGED <<choice, built, form>>
    BY <1>6 DEF Read
  <2>2. asked' = asked /\ asked = choice.h /\ choice \in Given(pairing, option)
    BY <2>1 DEF asked, Stages, Faithful
  <2>3. verdict' = IF answer' \in Hashes THEN answer' ELSE None
    BY <2>1 DEF verdict
  <2>4. choice.h \in Hashes
    BY <2>1, <2>2 DEF Stages, Faithful
  <2>5. form = "whole" => verdict' = asked
    <3> SUFFICES ASSUME form = "whole" PROVE verdict' = asked
      OBVIOUS
    <3>1. Gives(pairing, option, choice) /\ payment = Honest(pairing, option, choice)
      BY <2>1 DEF Stages
    <3>2. Bound(pairing, payment) = choice.h
      BY <2>2, <3>1 DEF Stages, Faithful
    <3> QED
      BY <2>1, <2>2, <2>3, <2>4, <3>2
  <2>6. form = "settles" => verdict' \in {asked, None}
    <3> SUFFICES ASSUME form = "settles" PROVE verdict' \in {asked, None}
      OBVIOUS
    <3>1. /\ Gives(pairing, option, choice) /\ PublicProof(pairing) /\ Carried(pairing, option, choice)
          /\ \E changed \in Altered(pairing, Honest(pairing, option, choice)) : payment = changed[1] /\ changed[2]
      BY <2>1 DEF Stages
    <3>2. Bound(pairing, payment) \in Hashes => Bound(pairing, payment) = choice.h
      BY <2>2, <3>1 DEF Stages, Faithful
    <3> QED
      BY <2>1, <2>2, <2>3, <3>2
  <2>7. verdict' \in Hashes \cup {None}
    BY <2>3
  <2>8. Promise!Bound
    BY <2>1, <2>2, <2>5, <2>6, <2>7 DEF Promise!Bound, asked, verdict
  <2> QED
    BY <2>8 DEF Promise!Next
<1>7. CASE UNCHANGED vars
  BY <1>7 DEF vars, Promise!vars, asked, verdict
<1> QED
  BY <1>3, <1>4, <1>5, <1>6, <1>7 DEF Next

(* A rail whose functions are faithful keeps the promise of every pairing,  *)
(* in whatever order its payment is built, completed, changed and read      *)
(* (Binding of _types.py).                                                  *)
THEOREM FaithfulKeepsPromise == Faithful => (Spec => Promise!Spec)
<1> SUFFICES ASSUME Faithful PROVE Spec => Promise!Spec
  OBVIOUS
<1>1. Stages /\ [Next]_vars => [Promise!Next]_Promise!vars
  BY PromiseSteps
<1> QED
  BY <1>1, StagesStart, StagesStep, PromiseStarts, PTL DEF Spec, Promise!Spec

(***************************************************************************)
(* The filter and build, and bound and broadcaster.                        *)
(***************************************************************************)
(* The filter serves what build takes, and refuses as it does, over what    *)
(* the gate gives.                                                          *)
Filters ==
    \A p \in Pairings : \A o \in Options(p) : \A c \in HonestChoices(p) :
        /\ Built(p, o, c) = "ok" <=> Served(p, o) = "ok" /\ ~BuildOnly(p, o, c.h)
        /\ Served(p, o) \notin {"ok", "none"} => Built(p, o, c) = Served(p, o)

(* What the filter and build answered is what they answer for the payment.  *)
Filtered ==
    stage # "offer" => served = Served(pairing, option) /\ built = Built(pairing, option, choice)

(* broadcaster names who sends a payment, or refuses it as bound does.      *)
Agrees(p, paid) == Told(p, paid) \in {"payer", "payee"} \/ Told(p, paid) = Bound(p, paid)

(* broadcaster agrees over every payment complete gives, and over an        *)
(* honest one whatever its carrier changed.                                 *)
Tells ==
    \A p \in Pairings : \A o \in Options(p) : \A c \in Given(p, o) : Built(p, o, c) = "ok" =>
        /\ \A given \in Answers(p, o) : Completed(p, o, c, given) = "ok" => Agrees(p, Paid(p, o, c, given))
        /\ Gives(p, o, c) /\ Carried(p, o, c) =>
            \A changed \in Altered(p, Honest(p, o, c)) : Agrees(p, changed[1])

Telling ==
    /\ stage = "payment" => Agrees(pairing, payment)
    /\ stage = "read" => told \in {"payer", "payee"} \/ told = answer

(* The payment is of one pairing throughout.                                *)
LEMMA SamePairing == [Next]_vars => pairing' = pairing
  BY DEF Next, Build, Complete, Alter, Read, vars

LEMMA FilteredStart == Init => Filtered
  BY DEF Init, Filtered

LEMMA FilteredStep == Filtered /\ [Next]_vars => Filtered'
<1> SUFFICES ASSUME Filtered, [Next]_vars PROVE Filtered'
  OBVIOUS
<1>1. CASE Build
  BY <1>1 DEF Build, Filtered
<1>2. CASE Complete
  BY <1>2 DEF Complete, Filtered
<1>3. CASE Alter
  BY <1>3 DEF Alter, Filtered
<1>4. CASE Read
  BY <1>4 DEF Read, Filtered
<1>5. CASE UNCHANGED vars
  BY <1>5 DEF vars, Filtered
<1> QED
  BY <1>1, <1>2, <1>3, <1>4, <1>5 DEF Next

LEMMA FilteredServes == Filters /\ Stages /\ Filtered => ServedBuilds
  BY DEF Filters, Stages, Filtered, ServedBuilds

LEMMA TellingStart == Init => Telling
  BY DEF Init, Telling

LEMMA TellingStep == Tells /\ Stages /\ Telling /\ [Next]_vars => Telling'
<1> SUFFICES ASSUME Tells, Stages, Telling, [Next]_vars PROVE Telling'
  OBVIOUS
<1>1. CASE Build
  BY <1>1 DEF Build, Telling
<1>2. CASE Complete
  <2>1. PICK given \in Answers(pairing, option) :
            /\ answer' = Completed(pairing, option, choice, given)
            /\ stage' = IF answer' = "ok" THEN "payment" ELSE "refused"
            /\ IF answer' # "ok" THEN UNCHANGED <<payment, form>>
               ELSE /\ payment' = Paid(pairing, option, choice, given)
                    /\ form' = IF given = HonestAnswer(pairing) THEN "whole" ELSE "void"
    BY <1>2 DEF Complete
  <2>2. stage = "request" /\ pairing' = pairing
    BY <1>2 DEF Complete
  <2>3. CASE answer' = "ok"
    <3>1. Agrees(pairing, Paid(pairing, option, choice, given))
      BY <2>1, <2>2, <2>3 DEF Stages, Tells
    <3>2. payment' = Paid(pairing, option, choice, given) /\ stage' = "payment"
      BY <2>1, <2>3
    <3>3. Agrees(pairing, payment)'
      BY <2>2, <3>1, <3>2 DEF Agrees
    <3> QED
      BY <3>2, <3>3 DEF Telling
  <2>4. CASE answer' # "ok"
    BY <2>1, <2>4 DEF Telling
  <2> QED
    BY <2>3, <2>4
<1>3. CASE Alter
  <2>1. PICK changed \in Altered(pairing, payment) : payment' = changed[1]
    BY <1>3 DEF Alter
  <2>2. /\ stage = "payment" /\ form = "whole" /\ UNCHANGED <<stage, pairing>>
        /\ Carried(pairing, option, choice)
    BY <1>3 DEF Alter, Carried
  <2>3. /\ payment = Honest(pairing, option, choice) /\ Gives(pairing, option, choice)
        /\ pairing \in Pairings /\ option \in Options(pairing) /\ choice \in Given(pairing, option)
    BY <2>2 DEF Stages
  <2>4. Agrees(pairing, changed[1])
    BY <2>1, <2>2, <2>3 DEF Tells, Gives
  <2>5. Agrees(pairing, payment)'
    BY <2>1, <2>2, <2>4 DEF Agrees
  <2> QED
    BY <2>2, <2>5 DEF Telling
<1>4. CASE Read
  <2>1. stage = "payment" /\ stage' = "read" /\ answer' = Bound(pairing, payment) /\ told' = Told(pairing, payment)
    BY <1>4 DEF Read
  <2>2. Agrees(pairing, payment)
    BY <2>1 DEF Telling
  <2> QED
    BY <2>1, <2>2 DEF Telling, Agrees
<1>5. CASE UNCHANGED vars
  <2>1. Agrees(pairing, payment)' <=> Agrees(pairing, payment)
    BY <1>5 DEF vars, Agrees
  <2> QED
    BY <1>5, <2>1 DEF vars, Telling
<1> QED
  BY <1>1, <1>2, <1>3, <1>4, <1>5 DEF Next

(* What is known of a payment of a pairing.                                 *)
Known == Stages /\ Filtered /\ Telling

LEMMA KnownStart == Init => Known
  BY StagesStart, FilteredStart, TellingStart DEF Known

LEMMA KnownStep == Tells /\ Known /\ [Next]_vars => Known'
  BY StagesStep, FilteredStep, TellingStep DEF Known

LEMMA KnownServes == Filters /\ Known => ServedBuilds
  BY FilteredServes DEF Known
================================================================================
