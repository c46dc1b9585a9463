-------------------------------- MODULE MoveRails --------------------------------
(***************************************************************************)
(* The x402 pairings on Aptos and Sui (x402_exact_aptos.py; x402_exact_    *)
(* sui.py, with _sui_tx.py over _bcs.py).  The payer's wallet builds the   *)
(* transaction itself.  On Sui the hash is the one Pure input no command   *)
(* uses, and complete holds the signed transaction to it; an Aptos         *)
(* transaction carries no hash, and the one read is the unsigned echo.     *)
(***************************************************************************)
EXTENDS X402

CONSTANTS None, Hashes

VARIABLES stage, pairing, option, choice, payment, form, served, built, answer, told

Aptos == "x402/exact/aptos"
Sui == "x402/exact/sui"
Pairings == {Aptos, Sui}
PublicProof(p) == p = Sui

(***************************************************************************)
(* Options.                                                                *)
(***************************************************************************)
HonestOptions(p) ==
    {[scheme |-> "exact", network |-> p, extra |-> extra, method |-> "absent", flow |-> "absent",
      asset |-> "named", payTo |-> "address", amount |-> "paid", timeout |-> "seconds"] :
          extra \in {"absent", "object"}}

OptionForms ==
    [scheme |-> {"upto"}, network |-> {"unknown", "other"}, extra |-> {"malformed"},
     method |-> {"present"}, flow |-> {"authorization", "other"}, asset |-> {"malformed"},
     payTo |-> {"malformed", "other"}, amount |-> {"zero", "2^64"}, timeout |-> {"malformed"}]

Options(p) == UNION {OneOff(o, OptionForms) : o \in HonestOptions(p)}

(* A network of the rail's namespace that it does not know is "unknown".    *)
AptosOptionCheck(o) ==
    First(<<When(o.scheme # "exact" \/ o.network \notin {Aptos, "unknown"}, "x402/option-not-this-pairing"),
            When(o.network = "unknown", "aptos/network-malformed"),
            When(\/ o.extra = "malformed"
                 \/ o.extra = "object" /\ (o.method # "absent" \/ o.flow = "other")
                 \/ "malformed" \in {o.asset, o.payTo}
                 \/ o.amount # "paid" \/ o.timeout # "seconds", "x402/option-not-this-pairing")>>)

SuiOptionCheck(o) ==
    First(<<When(o.scheme # "exact" \/ o.network \notin {Sui, "unknown"}, "x402/option-not-this-pairing"),
            When(o.network = "unknown", "sui/network-malformed"),
            When(\/ o.extra = "malformed"
                 \/ o.extra = "object" /\ (o.method # "absent" \/ o.flow = "other")
                 \/ "malformed" \in {o.asset, o.payTo}
                 \/ o.amount # "paid" \/ o.timeout # "seconds", "x402/option-not-this-pairing")>>)

Served(p, o) == IF p = Aptos THEN AptosOptionCheck(o) ELSE SuiOptionCheck(o)

(***************************************************************************)
(* build takes nothing of the buyer.                                       *)
(***************************************************************************)
Choices(p) == OneOff(Choice("H1", "nothing"), ChoiceForms({}))
HonestChoices(p) == {Choice(h, "nothing") : h \in Hashes}

BuildOnly(p, o, h) == FALSE

AptosBuilt(o, c) ==
    First(<<When(c.h = "malformed", "x402/payload-malformed"),
            When(c.choice # "object", "x402/not-v2"),
            Chosen(c, AptosOptionCheck(o))>>)

SuiBuilt(o, c) ==
    First(<<When(c.h = "malformed", "x402/payload-malformed"),
            When(c.choice # "object", "x402/not-v2"),
            Chosen(c, SuiOptionCheck(o))>>)

Built(p, o, c) ==
    First(<<FirstOption(c), IF p = Aptos THEN AptosBuilt(o, c) ELSE SuiBuilt(o, c)>>)

(***************************************************************************)
(* Payments: what the wallet answers, whose members are those of a payload *)
(* but for the hash it was "asked" to carry.                               *)
(***************************************************************************)
HonestAnswer(p) ==
    IF p = Aptos
    THEN [transaction |-> "wire", kind |-> "entry-function", function |-> "transfer", arguments |-> "three",
          chain |-> "option"]
    ELSE [transaction |-> "wire", kind |-> "programmable", signature |-> "text", bytes |-> "canonical",
          type |-> "address::coin::T", proposers |-> "absent", unused |-> "one", size |-> "32", pure |-> "asked", expiration |-> "epoch"]

AnswerForms ==
    [transaction |-> {"absent", "malformed", "too-large", "undecodable"}, kind |-> {"script"},
     function |-> {"other"}, arguments |-> {"two", "short"}, chain |-> {"other"},
     signature |-> {"absent", "empty"},
     bytes |-> {"trailing", "not-UTF-8", "unknown-variant", "length-padded", "bool-2", "map-key-twice"},
     type |-> {"node-at-depth-16", "name-with-16-levels"},
     proposers |-> {"increasing", "none", "not-increasing"}, unused |-> {"none", "two"}, size |-> {"31"},
     pure |-> {"H1", "H2"}, expiration |-> {"none"}]

Answers(p, o) == OneOff(HonestAnswer(p), AnswerForms)

Paid(p, o, c, given) ==
    PaymentWith(c, o, IF p = Sui /\ given.pure = "asked" THEN [given EXCEPT !.pure = c.h] ELSE given)

(* A length in more bytes than it needs is not BCS to Aptos.                *)
ReadsAptos(t) == t.transaction # "undecodable"

DecodedAptos(t) ==
    First(<<When(t.transaction = "too-large", "aptos/tx-too-large"),
            When(t.transaction = "malformed", "aptos/tx-malformed"),
            When(t.kind # "entry-function", "aptos/not-entry-function"),
            When(t.function # "transfer" \/ t.arguments # "three", "aptos/not-an-x402-transfer"),
            When(~ReadsAptos(t), "aptos/tx-malformed")>>)

InstrumentOf(paid) ==
    First(<<PresentedWith(paid, AptosOptionCheck(paid.accepted)),
            When(paid.payload.transaction = "absent", "x402/payload-malformed"),
            DecodedAptos(paid.payload),
            When(paid.payload.chain # "option", "aptos/chain-mismatch")>>)

(* What BCS reads: a length in any number of bytes, any byte for a bool.    *)
Reads(t) == t.transaction # "undecodable" /\ t.bytes \notin {"not-UTF-8", "unknown-variant"}

(* What it writes back byte for byte: its one canonical form, and no more   *)
(* bytes than it read.                                                      *)
WritesBack(t) == t.bytes = "canonical"

(* A type's nodes are counted in its bytes as they are read, and again in   *)
(* its text, where a name may hold more of them.                            *)
ReadsTypeTag(t) == t.type # "node-at-depth-16"
TypeWithinDepth(t) == t.type # "name-with-16-levels"

(* An empty list of proposers is not read, one out of order not written.    *)
ReadsProposers(t) == t.proposers # "none"
WritesProposers(t) == t.proposers # "not-increasing"

(* parse_transaction_data.                                                  *)
Parsed(t) ==
    First(<<When(~(Reads(t) /\ ReadsTypeTag(t) /\ ReadsProposers(t)), "sui/tx-malformed"),
            When(~TypeWithinDepth(t), "sui/tx-malformed"),
            When(~(WritesProposers(t) /\ WritesBack(t)), "sui/tx-malformed")>>)

DecodedSui(t) ==
    First(<<When(t.transaction = "too-large", "sui/tx-too-large"),
            When(t.transaction = "malformed", "sui/tx-malformed"),
            When(t.kind # "programmable", "sui/not-programmable"),
            Parsed(t)>>)

(* The Pure inputs that are no argument of a command.                       *)
UnusedPure(t) == t.unused

SuiCarrier(t) ==
    First(<<When(UnusedPure(t) = "none", "sui/hash-not-carried"),
            When(UnusedPure(t) = "two", "sui/ambiguous"),
            When(t.size # "32", "sui/hash-not-carried"),
            t.pure>>)

PresentedTx(paid) ==
    First(<<PresentedWith(paid, SuiOptionCheck(paid.accepted)),
            When(paid.payload.signature \in {"absent", "empty"}, "x402/signature-malformed"),
            When(paid.payload.transaction = "absent", "x402/payload-malformed"),
            DecodedSui(paid.payload)>>)

SuiBound(paid) == First(<<PresentedTx(paid), SuiCarrier(paid.payload)>>)

(* The echo is read whatever the transaction is.                            *)
AptosBound(paid) ==
    First(<<PresentedWith(paid, AptosOptionCheck(paid.accepted)),
            When(paid.payload.transaction = "absent", "x402/payload-malformed"),
            When(LegalContextOf(paid) # "ok", "x402/no-legal-context"),
            paid.envelope.context>>)

AptosCompleted(paid) == InstrumentOf(paid)

(* The signed transaction must carry the hash built for.                    *)
SuiCompleted(paid, h) == When(SuiBound(paid) # h, "x402/signed-not-bound")

Completed(p, o, c, given) ==
    First(<<When(\E m \in {"transaction", "signature"} \cap DOMAIN given : given[m] = "absent",
                 "x402/signature-malformed"),
            IF p = Aptos THEN AptosCompleted(Paid(p, o, c, given)) ELSE SuiCompleted(Paid(p, o, c, given), c.h),
            WithIdentifier(c)>>)

(* The wallet signs the transaction whole.                                  *)
Signed(p) == DOMAIN HonestAnswer(p) \ {"signature"}

Altered(p, paid) == Variants(paid, OptionForms, AnswerForms, Signed(p))

Bound(p, paid) == IF p = Aptos THEN AptosBound(paid) ELSE SuiBound(paid)

Told(p, paid) == Broadcaster(paid, "payee", ShapeCodes)

INSTANCE Payment
================================================================================
