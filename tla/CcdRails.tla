-------------------------------- MODULE CcdRails --------------------------------
(***************************************************************************)
(* The x402 pairing on Concordium (x402_exact_ccd.py, with the CBOR of     *)
(* _cbor.py).  The payer's wallet assembles and signs the transaction;     *)
(* the hash is the CBOR text of its LCP string, in the memo of a transfer  *)
(* of CCD or of the one transfer of a token update.                        *)
(***************************************************************************)
EXTENDS X402

CONSTANTS None, Hashes

VARIABLES stage, pairing, option, choice, payment, form, served, built, answer, told

ID == "x402/exact/ccd"
Pairings == {ID}
PublicProof(p) == TRUE

(***************************************************************************)
(* Options.                                                                *)
(***************************************************************************)
HonestOptions(p) ==
    {[scheme |-> "exact", network |-> "ccd", asset |-> asset, payTo |-> "account", extra |-> "object",
      feePayer |-> "account", amount |-> "paid", timeout |-> "seconds"] : asset \in {"CCD", "token"}}

OptionForms ==
    [scheme |-> {"upto"}, network |-> {"other"}, asset |-> {"malformed"},
     payTo |-> {"malformed", "checksum-wrong"}, extra |-> {"absent"}, feePayer |-> {"absent", "checksum-wrong"},
     amount |-> {"zero", "2^64"}, timeout |-> {"malformed"}]

Options(p) == UNION {OneOff(o, OptionForms) : o \in HonestOptions(p)}

CcdOption(o) ==
    /\ o.scheme = "exact" /\ o.network = "ccd" /\ o.asset # "malformed" /\ o.payTo = "account"
    /\ o.extra = "object" /\ o.feePayer = "account"
    /\ o.amount = "paid" /\ o.timeout = "seconds"

Served(p, o) == When(~CcdOption(o), "none")

(***************************************************************************)
(* build.  The gate gives the time.                                        *)
(***************************************************************************)
Choices(p) == OneOff(Choice("H1", "time"), ChoiceForms({"time-malformed"}))
HonestChoices(p) == {Choice(h, "time") : h \in Hashes}

BuildOnly(p, o, h) == FALSE

BuiltCcd(o, c) ==
    First(<<When(c.h = "malformed", "ccd/memo-not-lcp"),
            When(c.choice # "object", "x402/not-v2"),
            When(c.given # "time", "ccd/option-malformed"),
            Chosen(c, Served(ID, o))>>)

Built(p, o, c) == First(<<FirstOption(c), BuiltCcd(o, c)>>)

(***************************************************************************)
(* Payments: the wallet's signed transaction.  Its memo is the hash whose  *)
(* bytes it holds, or what is wrong with it; a token's transfer is an      *)
(* operation of its own in CBOR.                                           *)
(***************************************************************************)
HonestAnswer(p) ==
    [transaction |-> "object", size |-> "16-KiB", version |-> "1", header |-> "object", sender |-> "account",
     kind |-> "asset", blob |-> "whole", operations |-> "one-transfer", memo |-> "asked"]

AnswerForms ==
    [transaction |-> {"absent", "not-JSON"}, size |-> {"over-16-KiB"}, version |-> {"0"},
     header |-> {"absent", "expiry-malformed"}, sender |-> {"absent", "checksum-wrong"},
     kind |-> {"transferWithMemo", "tokenUpdate", "transfer", "registerData"},
     blob |-> {"malformed", "length-wrong", "too-large"},
     operations |-> {"not-hex", "too-large", "level-9", "257-items", "key-twice", "simple-written-long", "null",
                    "two", "mint", "body-no-map", "no-memo", "memo-no-bytes", "untagged"},
     memo |-> {"H2", "H2-upper", "H2-long-head", "cut-short", "two-items", "indefinite", "not-UTF-8", "number",
               "other-text"}]

Answers(p, o) == OneOff(HonestAnswer(p), AnswerForms)

(* What the wallet is asked for: ccd_memo, or plt_memo for a token.         *)
Asked(o, given, h) ==
    [given EXCEPT !.kind = IF @ # "asset" THEN @ ELSE IF o.asset = "CCD" THEN "transferWithMemo" ELSE "tokenUpdate",
                  !.memo = IF @ = "asked" THEN h ELSE @]

Paid(p, o, c, given) == PaymentWith(c, o, Asked(o, given, c.h))

(* Any JSON object is a payment; the memo is not read.                      *)
CompletedCcd(given) == When(given.transaction = "not-JSON", "ccd/transaction-malformed")

Completed(p, o, c, given) ==
    First(<<When(given.transaction = "absent", "x402/signature-malformed"), CompletedCcd(given), WithIdentifier(c)>>)

(* The sender signs the version 1 header and payload whole.                 *)
Signed(p) == DOMAIN HonestAnswer(p) \ {"transaction", "size"}

Altered(p, paid) == Variants(paid, OptionForms, AnswerForms, Signed(p))

(* decode_cbor: one definite item, to its last byte, no deeper than 8       *)
(* levels, of at most 256 items, and no two keys of a map the same value.   *)
DecodedCbor(item) ==
    item \notin {"cut-short", "two-items", "indefinite", "not-UTF-8", "simple-written-long", "level-9", "257-items",
                 "key-twice"}

(* A text item, and its bytes the ones written for the hash it names.       *)
MemoCarrier(t) ==
    First(<<When(~DecodedCbor(t.memo) \/ t.memo = "number", "ccd/memo-not-cbor-text"),
            When(t.memo \notin Hashes, "ccd/memo-not-lcp"),
            t.memo>>)

MemoBlob(t) ==
    First(<<When(t.blob \in {"malformed", "length-wrong"}, "ccd/transaction-malformed"),
            When(t.blob = "too-large", "ccd/too-large")>>)

(* A memo's bytes may be tagged as CBOR or bare.                            *)
TokenTransfer(t) ==
    First(<<When(t.operations = "not-hex", "ccd/transaction-malformed"),
            When(t.operations = "too-large", "ccd/too-large"),
            When(~DecodedCbor(t.operations) \/ t.operations = "null", "ccd/operations-malformed"),
            When(t.operations \in {"two", "mint"}, "ccd/operation-count"),
            When(t.operations = "body-no-map", "ccd/operations-malformed"),
            When(t.operations = "no-memo", "ccd/no-memo"),
            When(t.operations = "memo-no-bytes", "ccd/operations-malformed"),
            MemoCarrier(t)>>)

AccountBytes(sender) == sender = "account"

SignedBy(t) ==
    First(<<When(t.transaction # "object", "ccd/transaction-malformed"),
            When(t.size # "16-KiB", "ccd/too-large"),
            When(t.version # "1", "ccd/not-v1"),
            When(t.header # "object", "ccd/transaction-malformed"),
            When(~AccountBytes(t.sender), "ccd/address-malformed"),
            CASE t.kind = "transferWithMemo" -> First(<<MemoBlob(t), MemoCarrier(t)>>)
              [] t.kind = "tokenUpdate" -> TokenTransfer(t)
              [] t.kind = "transfer" -> "ccd/no-memo"
              [] OTHER -> "ccd/payload-kind">>)

BoundCcd(paid) ==
    First(<<When(paid.envelope.version # "2", "x402/not-v2"),
            AcceptedBy(paid, Served(ID, paid.accepted)),
            When(paid.envelope.payload # "object", "ccd/transaction-malformed"),
            SignedBy(paid.payload)>>)

Bound(p, paid) == BoundCcd(paid)

Told(p, paid) == Broadcaster(paid, "payee", [ShapeCodes EXCEPT !.payload = "ccd/transaction-malformed"])

INSTANCE Payment
================================================================================
