------------------------------- MODULE CasperRails -------------------------------
(***************************************************************************)
(* The x402 pairing on Casper (x402_exact_casper.py): the hash is the      *)
(* nonce of the authorization the payer's key signs.                       *)
(***************************************************************************)
EXTENDS X402

CONSTANTS None, Hashes

VARIABLES stage, pairing, option, choice, payment, form, served, built, answer, told

ID == "x402/exact/casper"
Pairings == {ID}
PublicProof(p) == TRUE

(***************************************************************************)
(* Options.                                                                *)
(***************************************************************************)
HonestOptions(p) ==
    {[scheme |-> "exact", network |-> "casper", asset |-> "package", payTo |-> "address", amount |-> "paid",
      extra |-> "object", name |-> "name", version |-> "name", timeout |-> "seconds"]}

OptionForms ==
    [scheme |-> {"upto"}, network |-> {"other"}, asset |-> {"malformed"}, payTo |-> {"malformed", "key"},
     amount |-> {"zero", "2^256"}, extra |-> {"absent"}, name |-> {"empty", "65"}, version |-> {"absent", "65"},
     timeout |-> {"malformed"}]

Options(p) == UNION {OneOff(o, OptionForms) : o \in HonestOptions(p)}

CasperOption(o) ==
    /\ o.scheme = "exact" /\ o.network = "casper" /\ o.asset = "package" /\ o.payTo = "address"
    /\ o.amount = "paid" /\ o.timeout = "seconds"
    /\ o.extra = "object" /\ o.name = "name" /\ o.version = "name"

Served(p, o) == When(~CasperOption(o), "none")

(***************************************************************************)
(* build.  The gate gives the time.                                        *)
(***************************************************************************)
Choices(p) == OneOff(Choice("H1", "payer"), ChoiceForms({"account-malformed", "time-malformed"}))
HonestChoices(p) == {Choice(h, "payer") : h \in Hashes}

BuildOnly(p, o, h) == FALSE

(* The typed data take nothing the filter and the choice do not hold.       *)
Cep3009TypedData(o, c) ==
    First(<<When(o.network # "casper", "casper/network-malformed"),
            When(o.asset # "package" \/ o.name # "name" \/ o.version # "name", "casper/option-malformed"),
            When(c.given = "account-malformed" \/ o.payTo # "address", "casper/address-malformed"),
            When(o.amount # "paid", "casper/amount-malformed")>>)

BuiltCasper(o, c) ==
    First(<<When(c.h = "malformed", "casper/payload-malformed"),
            When(c.choice # "object", "x402/not-v2"),
            When(c.given = "account-malformed", "casper/address-malformed"),
            When(c.given = "time-malformed", "casper/option-malformed"),
            Chosen(c, Served(ID, o)),
            Cep3009TypedData(o, c)>>)

Built(p, o, c) == First(<<FirstOption(c), BuiltCasper(o, c)>>)

(***************************************************************************)
(* Payments: the authorization, and the payer's key and signature, each    *)
(* with its algorithm's tag.                                               *)
(***************************************************************************)
HonestAnswer(p) == [publicKey |-> "tagged", signature |-> "tagged"]

AnswerForms ==
    [publicKey |-> {"absent", "untagged", "long", "other-tag"}, signature |-> {"absent", "untagged", "long"}]

Answers(p, o) == OneOff(HonestAnswer(p), AnswerForms)

IsTagged(t) == t \in {"tagged", "other-tag"}

CompletedCasper(given) ==
    First(<<When(~IsTagged(given.publicKey) \/ ~IsTagged(given.signature), "casper/signature-malformed"),
            When(given.publicKey # given.signature, "casper/key-tag-mismatch")>>)

Completed(p, o, c, given) ==
    First(<<When("absent" \in {given.publicKey, given.signature}, "x402/signature-malformed"),
            CompletedCasper(given),
            WithIdentifier(c)>>)

Authorization(h, given) ==
    [authorization |-> "members", nonce |-> h, spelling |-> "plain",
     publicKey |-> given.publicKey, signature |-> given.signature]

AuthorizationForms ==
    [authorization |-> {"absent", "member-absent"}, nonce |-> {"H2", "malformed"},
     spelling |-> {"0x", "upper-case"}, publicKey |-> {"absent", "other-tag"}, signature |-> {"absent", "long"}]

Paid(p, o, c, given) == PaymentWith(c, o, Authorization(c.h, given))

(* The key signs the nonce's bytes, however they are spelt.                 *)
Signed(p) == {"authorization", "nonce", "publicKey"}

Altered(p, paid) == Variants(paid, OptionForms, AuthorizationForms, Signed(p))

PaymentOf(paid) ==
    First(<<When(paid.envelope.version # "2" \/ paid.envelope.refused # "absent", "casper/payload-malformed"),
            AcceptedBy(paid, Served(ID, paid.accepted)),
            When(paid.envelope.payload # "object", "casper/payload-malformed"),
            When(\/ paid.payload.authorization # "members" \/ paid.payload.nonce = "malformed"
                 \/ ~IsTagged(paid.payload.publicKey) \/ ~IsTagged(paid.payload.signature),
                 "casper/payload-malformed")>>)

Bound(p, paid) == First(<<PaymentOf(paid), paid.payload.nonce>>)

CasperCodes ==
    [envelope |-> "casper/payload-malformed", refused |-> "casper/payload-malformed",
     payload |-> "casper/payload-malformed"]

Told(p, paid) == Broadcaster(paid, "payee", CasperCodes)

INSTANCE Payment
================================================================================
