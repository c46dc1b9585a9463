---------------------------------- MODULE X402 ----------------------------------
(***************************************************************************)
(* What the buyer halves of the x402 pairings share (_x402.py and          *)
(* pieces/_common.py): the choice build is given, the option the document  *)
(* must offer and the pairing's filter serve, the envelope of a payment,   *)
(* and the gate bound and broadcaster put before anything else.            *)
(*                                                                         *)
(* A member of a document is its form: "absent", "malformed", or the name  *)
(* of what it holds.  An answer is a refusal's code or a hash; "ok" is no  *)
(* refusal, and an option's filter answers "none" for an option that is    *)
(* not the pairing's.                                                      *)
(***************************************************************************)
EXTENDS Naturals, Sequences

(* The first answer that is not "ok", in the order the code looks.         *)
First(answers) ==
    LET given == {i \in DOMAIN answers : answers[i] # "ok"}
    IN  IF given = {} THEN "ok"
        ELSE answers[CHOOSE i \in given : \A j \in given : i <= j]

When(fault, code) == IF fault THEN code ELSE "ok"

(* The records that are base but for at most one member, which has one of   *)
(* the forms given for it.                                                  *)
OneOff(base, forms) ==
    {base} \cup {[base EXCEPT ![m[1]] = m[2]] :
                    m \in UNION {{k} \X forms[k] : k \in DOMAIN base \cap DOMAIN forms}}

(* The option filter's answer, where an option that is not the pairing's    *)
(* is refused too.                                                          *)
Refused(served) == IF served = "none" THEN "x402/option-not-this-pairing" ELSE served

(***************************************************************************)
(* The choice: the hash, the document and the option, the account, and     *)
(* given, what the buyer supplies beside them, as the rail reads it.       *)
(***************************************************************************)
Choice(h, given) ==
    [h |-> h, choice |-> "object", version |-> "2", accepts |-> "list", offered |-> "offered",
     account |-> "here", identifier |-> "absent", given |-> given]

ChoiceForms(given) ==
    [h |-> {"H2", "malformed"}, choice |-> {"malformed"}, version |-> {"1"},
     accepts |-> {"malformed", "33"}, offered |-> {"elsewhere"}, account |-> {"elsewhere"},
     identifier |-> {"open", "taken"}, given |-> given]

(* The piece's choose: the first option on the account's network.           *)
FirstOption(choice) == When(choice.account # "here", "x402/no-payable-option")

(* Mutant of Chosen: an option the filter refuses is built from.          *)
ChosenUnserved(choice, served) ==
    First(<<When(choice.version # "2", "x402/not-v2"),
            When(choice.accepts # "list", "x402/option-malformed"),
            When(choice.offered # "offered", "x402/option-not-in-document"),
            When(served = "none", "x402/option-not-this-pairing")>>)

(* chosen: the document and the option in it.                               *)
Chosen(choice, served) ==
    First(<<When(choice.version # "2", "x402/not-v2"),
            When(choice.accepts # "list", "x402/option-malformed"),
            When(choice.offered # "offered", "x402/option-not-in-document"),
            Refused(served)>>)

(* with_payment_identifier: an info that holds an id already is refused.    *)
WithIdentifier(choice) ==
    When(choice.identifier = "taken", "x402/payment-identifier-unwritable")

(***************************************************************************)
(* The payment: its envelope, the option it accepts and its payload.       *)
(***************************************************************************)
PaymentWith(choice, accepted, payload) ==
    [envelope |-> [version |-> "2", refused |-> "absent", accepted |-> "object",
                   payload |-> "object", context |-> choice.h],
     accepted |-> accepted,
     payload |-> payload]

EnvelopeForms ==
    [version |-> {"1"}, refused |-> {"present"}, accepted |-> {"malformed"},
     payload |-> {"malformed"}, context |-> {"absent", "http", "malformed", "H2"}]

(* The payment with one member changed, and whether what was signed is      *)
(* whole: whatever is outside the payload is the sender's to write.         *)
Variants(payment, options, payloads, signed) ==
    {<<[payment EXCEPT !.envelope = e], TRUE>> : e \in OneOff(payment.envelope, EnvelopeForms)}
    \cup {<<[payment EXCEPT !.accepted = o], TRUE>> : o \in OneOff(payment.accepted, options)}
    \cup {<<[payment EXCEPT !.payload = p],
            \A m \in signed \cap DOMAIN p : p[m] = payment.payload[m]>> :
              p \in OneOff(payment.payload, payloads)}

(* legal_context_of: what a payment echoes, unsigned.                       *)
LegalContextOf(payment) ==
    First(<<When(payment.envelope.context = "absent", "x402/no-legal-context"),
            When(payment.envelope.context = "http", "x402/link-not-https"),
            When(payment.envelope.context = "malformed", "x402/legal-context-malformed")>>)

AcceptedBy(payment, served) ==
    First(<<When(payment.envelope.accepted # "object", "x402/payload-malformed"), Refused(served)>>)

PresentedWith(payment, served) ==
    First(<<When(payment.envelope.version # "2", "x402/not-v2"),
            AcceptedBy(payment, served),
            When(payment.envelope.payload # "object", "x402/payload-malformed")>>)

(* The codes x402_shape refuses with, but for a pairing that gives its own; *)
(* a refused member is not read where its code is "ok".                    *)
ShapeCodes == [envelope |-> "x402/not-v2", refused |-> "ok", payload |-> "x402/payload-malformed"]

(* Mutant of Shape: a refused member is read for every pairing.           *)
ShapeRefused(payment, codes) ==
    First(<<When(payment.envelope.version # "2", codes.envelope),
            When(payment.envelope.refused # "absent", "x402/payload-malformed"),
            When(payment.envelope.accepted # "object", "x402/payload-malformed"),
            When(payment.envelope.payload # "object", codes.payload)>>)

(* x402_shape; and the broadcaster of a pairing whose payments take one     *)
(* path.                                                                    *)
Shape(payment, codes) ==
    First(<<When(payment.envelope.version # "2", codes.envelope),
            When(payment.envelope.refused # "absent", codes.refused),
            When(payment.envelope.accepted # "object", "x402/payload-malformed"),
            When(payment.envelope.payload # "object", codes.payload)>>)

Broadcaster(payment, answer, codes) == First(<<Shape(payment, codes), answer>>)
================================================================================
