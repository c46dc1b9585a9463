------------------------------ MODULE StellarRails ------------------------------
(***************************************************************************)
(* The x402 pairing on Stellar (x402_exact_stellar.py and the wire of      *)
(* _stellar.py and _stellar_xdr.py).  The payee's muxed address carries    *)
(* the hash's first 8 bytes, in the invocation the payer's authorization   *)
(* entry signs; the whole hash is the unsigned one the payment echoes, so  *)
(* bound reads it only when the signed id agrees.  A muxed address is the  *)
(* hash whose bytes it carries, two hashes differing in them.              *)
(***************************************************************************)
EXTENDS X402

CONSTANTS None, Hashes

VARIABLES stage, pairing, option, choice, payment, form, served, built, answer, told

ID == "x402/exact/stellar"
Pairings == {ID}
PublicProof(p) == TRUE

(***************************************************************************)
(* Options.                                                                *)
(***************************************************************************)
HonestOptions(p) ==
    {[scheme |-> "exact", network |-> "stellar", asset |-> "contract", payTo |-> h, extra |-> "object",
      sponsored |-> "true", amount |-> "paid", timeout |-> "seconds"] : h \in Hashes}

(* "top" is 5 * (2^32 - 1) seconds, "wide" one more.                        *)
OptionForms ==
    [scheme |-> {"upto"}, network |-> {"other"}, asset |-> {"malformed"},
     payTo |-> {"H1", "H2", "account", "malformed"}, extra |-> {"malformed"}, sponsored |-> {"false"},
     amount |-> {"zero", "2^127"}, timeout |-> {"malformed", "top", "wide"}]

Options(p) == UNION {OneOff(o, OptionForms) : o \in HonestOptions(p)}

PairingOf(o) ==
    /\ o.scheme = "exact" /\ o.network = "stellar"
    /\ o.asset = "contract" /\ o.payTo # "malformed"
    /\ o.extra = "object" /\ o.sponsored = "true"

Payable(o) == o.amount = "paid" /\ o.timeout \in {"seconds", "top"}

Served(p, o) == First(<<When(~PairingOf(o), "none"), When(~Payable(o), "x402/option-malformed")>>)

(***************************************************************************)
(* The simulated transaction: its envelope, the call its one operation     *)
(* makes, the payer's authorization entries, and what the invocation       *)
(* under the entry signs.                                                  *)
(***************************************************************************)
Transfer(h) ==
    [xdr |-> "wire", call |-> "transfer", entries |-> "one", entry |-> "shallow", root |-> "transfer",
     source |-> "payer", to |-> h, agrees |-> "yes", asset |-> "option", amount |-> "option"]

TransferForms ==
    [xdr |-> {"absent", "malformed", "too-large", "nearly-too-large", "fee-bump", "short", "padding", "trailing",
             "address-unknown", "value-unknown", "invocation-unknown", "credentials-unknown",
             "preconditions-unknown", "ledger-key-unknown", "other-operation-unknown"},
     call |-> {"two-operations", "deep", "other"}, entries |-> {"none", "two"}, entry |-> {"deep"},
     root |-> {"subs", "other"}, source |-> {"contract", "other"}, to |-> {"H2", "account"},
     agrees |-> {"no"}, asset |-> {"other"}, amount |-> {"other"}]

Bytes(t) ==
    First(<<When(t.xdr \in {"absent", "malformed"}, "stellar/tx-malformed"),
            When(t.xdr = "too-large", "stellar/tx-too-large")>>)

(* The XDR definitions, each read whole whatever of it is kept, and each an *)
(* enumeration or a union whose unnamed values are refused.                 *)
Reader(t) == t.xdr \notin {"short", "padding"}
ScAddress(t) == t.xdr # "address-unknown"
ScVal(t) == ScAddress(t) /\ t.xdr # "value-unknown"
Invocation(t) == ScVal(t) /\ t.xdr # "invocation-unknown"
AuthEntry(t) == Invocation(t) /\ t.xdr # "credentials-unknown"
Preconditions(t) == t.xdr \notin {"preconditions-unknown", "ledger-key-unknown"}
OtherOperation(t) == t.xdr # "other-operation-unknown"

(* A fault anywhere is told before the number and the kind of operations.   *)
Envelope(t) ==
    First(<<When(~(Reader(t) /\ AuthEntry(t) /\ Preconditions(t) /\ OtherOperation(t)), "stellar/tx-malformed"),
            When(t.xdr = "trailing", "stellar/tx-malformed"),
            When(t.call = "two-operations", "stellar/not-one-transfer")>>)

Operation(t) ==
    First(<<Envelope(t),
            When(t.call = "deep", "stellar/tx-malformed"),
            When(t.call = "other", "stellar/not-one-transfer")>>)

(* _parse, of a transaction that has not landed.                            *)
Parsed(t) ==
    First(<<Operation(t),
            When(t.entries # "one", "stellar/no-address-auth"),
            When(t.entry = "deep", "stellar/tx-malformed"),
            When(t.root # "transfer", "stellar/not-one-transfer")>>)

(***************************************************************************)
(* build.                                                                  *)
(***************************************************************************)
Given(h) == [ledger |-> "now", payer |-> "payer", simulated |-> Transfer(h)]

GivenForms ==
    OneOff(Given("H1"), [ledger |-> {"missing", "malformed", "2^32-1"}, payer |-> {"malformed"}])
    \cup {[Given("H1") EXCEPT !.simulated = t] : t \in OneOff(Transfer("H1"), TransferForms)}

Choices(p) == OneOff(Choice("H1", Given("H1")), ChoiceForms(GivenForms))
HonestChoices(p) == {Choice(h, Given(h)) : h \in Hashes}

(* The carrier is the payee's address, the hash the gate's; and the entry   *)
(* expires at the current ledger and the timeout's ledgers, a u32.          *)
BuildOnly(p, o, h) == o.payTo # h \/ o.timeout = "top"

Expiration(o, c) == When(o.timeout = "top" \/ c.given.ledger = "2^32-1", "stellar/tx-malformed")

SigningInput(o, c) ==
    First(<<Bytes(c.given.simulated),
            When(c.given.simulated.xdr = "fee-bump", "stellar/tx-malformed"),
            Expiration(o, c)>>)

SigningFor(o, c) ==
    First(<<SigningInput(o, c), Parsed(c.given.simulated),
            When(c.given.simulated.source = "contract", "stellar/no-address-auth")>>)

(* What the entry signs is what the option asks, in the order of build.     *)
SignsOption(t, o) ==
    First(<<When(t.to # o.payTo, "stellar/carrier-mismatch"),
            When(t.agrees = "no", "stellar/not-one-transfer"),
            When(t.asset # "option", "stellar/asset-mismatch"),
            When(t.amount # "option", "stellar/amount-mismatch"),
            When(t.source # "payer", "stellar/payer-mismatch")>>)

BuiltStellar(o, c) ==
    First(<<When(c.h = "malformed", "x402/payload-malformed"),
            When(c.choice # "object", "x402/not-v2"),
            When(c.given.ledger = "malformed", "stellar/tx-malformed"),
            When(c.given.payer = "malformed", "stellar/payer-mismatch"),
            Chosen(c, Served(ID, o)),
            When(o.payTo # c.h, "stellar/carrier-mismatch"),
            SigningFor(o, c),
            SignsOption(c.given.simulated, o)>>)

Built(p, o, c) ==
    First(<<FirstOption(c),
            When(c.given.ledger = "missing" \/ c.given.simulated.xdr = "absent", "x402/input-missing"),
            BuiltStellar(o, c)>>)

(***************************************************************************)
(* Payments: the envelope with the entry's signature written in it.        *)
(***************************************************************************)
HonestAnswer(p) == "64-bytes"
Answers(p, o) == {"64-bytes", "malformed"}

CompletedStellar(c) == When(c.given.simulated.xdr = "nearly-too-large", "stellar/tx-too-large")

Completed(p, o, c, given) ==
    First(<<When(given = "malformed", "x402/signature-malformed"), CompletedStellar(c), WithIdentifier(c)>>)

Paid(p, o, c, given) == PaymentWith(c, o, c.given.simulated)

(* The entry's root invocation, its address and its nonce are signed.       *)
Signed(p) == {"entry", "root", "source", "to", "asset", "amount"}

Altered(p, paid) == Variants(paid, OptionForms, TransferForms, Signed(p))

ReadSignedTransfer(t) == First(<<Bytes(t), Parsed(t)>>)

BoundStellar(paid) ==
    First(<<When(paid.envelope.version # "2", "x402/not-v2"),
            AcceptedBy(paid, Served(ID, paid.accepted)),
            LegalContextOf(paid),
            When(paid.envelope.payload # "object", "x402/payload-malformed"),
            When(paid.accepted.payTo # paid.envelope.context, "stellar/carrier-mismatch"),
            ReadSignedTransfer(paid.payload),
            When(paid.payload.to \notin Hashes, "stellar/no-carrier"),
            When(paid.payload.to # paid.accepted.payTo, "stellar/carrier-mismatch"),
            When(paid.payload.agrees = "no", "stellar/not-one-transfer"),
            paid.envelope.context>>)

Bound(p, paid) == BoundStellar(paid)

Told(p, paid) == Broadcaster(paid, "payee", ShapeCodes)

INSTANCE Payment
================================================================================
