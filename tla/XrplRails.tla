-------------------------------- MODULE XrplRails --------------------------------
(***************************************************************************)
(* The x402 pairing on the XRP Ledger (x402_exact_xrpl.py and the wire of  *)
(* _xrpl.py and _xrpl_codec.py): the signed Payment's InvoiceID is the     *)
(* SHA-256 of the hash's LCP string, which the option's extra.invoiceId    *)
(* names.                                                                  *)
(***************************************************************************)
EXTENDS X402

CONSTANTS None, Hashes

VARIABLES stage, pairing, option, choice, payment, form, served, built, answer, told

ID == "x402/exact/xrpl"
Pairings == {ID}
PublicProof(p) == TRUE

(***************************************************************************)
(* Options: a network whose id is at most 1024, "low", or above it.        *)
(***************************************************************************)
HonestOptions(p) ==
    {[scheme |-> "exact", network |-> network, extra |-> "object", sponsored |-> "false", method |-> method,
      invoice |-> h, asset |-> asset, payTo |-> "account", issuer |-> "account", amount |-> "paid",
      timeout |-> "seconds"] :
          network \in {"low", "high"}, method \in {"absent", "ticketSequence"},
          asset \in {"XRP", "issued"}, h \in Hashes}

(* "zero" and "one" are the AccountIDs 0 and 1; the amounts are in the      *)
(* asset's own form, a fraction in an issued currency's only.               *)
OptionForms ==
    [scheme |-> {"upto"}, network |-> {"other"}, extra |-> {"malformed"}, sponsored |-> {"absent", "true"},
     method |-> {"sequence", "other"}, invoice |-> {"H1", "H2", "H1-upper", "other", "absent", "malformed"},
     asset |-> {"malformed"}, payTo |-> {"zero", "one", "malformed"},
     issuer |-> {"zero", "one", "malformed"}, amount |-> {"fraction", "zero", "wide", "malformed"},
     timeout |-> {"malformed"}]

Options(p) == UNION {OneOff(o, OptionForms) : o \in HonestOptions(p)}

PairingOf(o) ==
    /\ o.scheme = "exact" /\ o.network \in {"low", "high"}
    /\ o.extra = "object" /\ o.sponsored = "false"
    /\ o.method # "other"
    /\ o.invoice # "malformed"

IsIssuedValue(amount) == amount \in {"paid", "fraction"}

(* rippled refuses AccountID 0 as any payee, and 1 in an issued currency.   *)
Payable(o) ==
    /\ o.asset # "malformed" /\ o.timeout = "seconds"
    /\ \/ o.asset = "XRP" /\ o.payTo \in {"account", "one"} /\ o.amount = "paid"
       \/ o.asset = "issued" /\ o.payTo = "account" /\ o.issuer = "account" /\ IsIssuedValue(o.amount)

Served(p, o) == First(<<When(~PairingOf(o), "none"), When(~Payable(o), "x402/option-malformed")>>)

(***************************************************************************)
(* build.                                                                  *)
(***************************************************************************)
Choices(p) ==
    OneOff(Choice("H1", "inputs"), ChoiceForms({"missing", "malformed", "wide-sequence"}))
HonestChoices(p) == {Choice(h, "inputs") : h \in Hashes}

(* The invoice is the option's, the hash the gate's.                        *)
BuildOnly(p, o, h) == o.invoice # h

BuiltXrpl(o, c) ==
    First(<<When(c.h = "malformed", "x402/payload-malformed"),
            When(c.choice # "object", "x402/not-v2"),
            When(c.given = "malformed", "x402/option-malformed"),
            Chosen(c, Served(ID, o)),
            When(o.invoice # c.h, "xrpl/carrier-mismatch"),
            When(c.given = "wide-sequence", "x402/option-malformed")>>)

Built(p, o, c) ==
    First(<<FirstOption(c), When(c.given = "missing", "x402/input-missing"), BuiltXrpl(o, c)>>)

(***************************************************************************)
(* Payments: the wallet's signed blob, which may not be of the Payment     *)
(* that was asked for.                                                     *)
(***************************************************************************)
HonestAnswer(p) ==
    [blob |-> "hex", signers |-> "absent", fields |-> "canonical", chain |-> "asked", type |-> "Payment", invoice |-> "asked"]

BlobForms ==
    [blob |-> {"absent", "not-hex", "too-large", "undecodable"}, signers |-> {"present"},
     fields |-> {"field-unnamed", "value-malformed", "number-not-its-text", "amount-not-canonical", "path-set-unended", "out-of-order",
                 "object-unclosed", "end-marker-astray", "level-11"},
     chain |-> {"absent", "own", "other"}, type |-> {"OfferCreate"}, invoice |-> {"absent", "H2", "other"}]

Answers(p, o) == OneOff(HonestAnswer(p), BlobForms)

Asked(o, c, given) ==
    [given EXCEPT !.chain = IF @ # "asked" THEN @ ELSE IF o.network = "low" THEN "absent" ELSE "own",
                  !.invoice = IF @ = "asked" THEN c.h ELSE @]

IsBlobHex(t) == t.blob \notin {"absent", "not-hex"}

(* The codec reads one serialization of each transaction, its canonical     *)
(* one: a field's header, an amount, a path set, a number, a value of any   *)
(* other type, and the fields of an object or the members of an array.      *)
ReadsField(t) == t.blob # "undecodable" /\ t.fields # "field-unnamed"
Amount(t) == t.fields # "amount-not-canonical"
PathSet(t) == t.fields # "path-set-unended"
Number(t) == t.fields # "number-not-its-text"
Value(t) == Amount(t) /\ PathSet(t) /\ Number(t) /\ t.fields # "value-malformed"
NormalObject(t) ==
    ReadsField(t) /\ Value(t) /\ t.fields \notin {"out-of-order", "object-unclosed", "level-11"}
NormalArray(t) == NormalObject(t) /\ t.fields # "end-marker-astray"

DecodedBlob(t) ==
    First(<<When(~IsBlobHex(t), "xrpl/blob-malformed"),
            When(t.blob = "too-large", "xrpl/blob-too-large"),
            When(~NormalArray(t), "xrpl/blob-malformed")>>)

DecodedPresented(t) == First(<<DecodedBlob(t), When(t.signers = "present", "xrpl/multisigned")>>)

NetworkIdHeld(t, o) == t.chain = IF o.network = "low" THEN "absent" ELSE "own"

CompletedXrpl(t, o) ==
    First(<<When(~IsBlobHex(t), "xrpl/blob-malformed"),
            DecodedPresented(t),
            When(~NetworkIdHeld(t, o), "xrpl/network-mismatch")>>)

Completed(p, o, c, given) ==
    First(<<When(given.blob = "absent", "x402/signature-malformed"),
            CompletedXrpl(Asked(o, c, given), o),
            WithIdentifier(c)>>)

Paid(p, o, c, given) == PaymentWith(c, o, Asked(o, c, given))

(* The single signature is of the whole blob.                               *)
Signed(p) == {"blob", "fields", "signers", "chain", "type", "invoice"}

Altered(p, paid) == Variants(paid, OptionForms, BlobForms, Signed(p))

(* from_lcp_string reads the hash's digits in either case.                  *)
FromLcpString(o) ==
    CASE o.invoice \in Hashes -> o.invoice
      [] o.invoice = "H1-upper" -> "H1"
      [] OTHER -> "xrpl/carrier-not-lcp"

Presented(paid, h) ==
    First(<<When(paid.envelope.version # "2", "x402/not-v2"),
            AcceptedBy(paid, Served(ID, paid.accepted)),
            When(paid.envelope.payload # "object", "x402/payload-malformed"),
            When(h \notin Hashes, h),
            DecodedPresented(paid.payload),
            When(~NetworkIdHeld(paid.payload, paid.accepted), "xrpl/network-mismatch"),
            When(paid.payload.type # "Payment", "xrpl/not-payment"),
            When(paid.payload.invoice = "absent", "xrpl/no-invoice-id"),
            When(paid.payload.invoice # h, "xrpl/carrier-mismatch"),
            h>>)

Bound(p, paid) == Presented(paid, FromLcpString(paid.accepted))

Told(p, paid) == Broadcaster(paid, "payee", ShapeCodes)

INSTANCE Payment
================================================================================
