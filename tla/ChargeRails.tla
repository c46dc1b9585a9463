------------------------------- MODULE ChargeRails -------------------------------
(***************************************************************************)
(* The MPP charges whose payment carries the hash (mpp_charge_*.py and the *)
(* pieces beside them).  The hash rides in the challenge's id; what the    *)
(* payer signs is tied to that challenge: by a nonce, a witness, a salt or *)
(* a memo derived from its id and realm (EVM, Tempo, Hedera, usdc), or by  *)
(* the hash itself in a member of the request (Solana, XRPL, Stellar) or   *)
(* of the call (Stacks).  The credential echoes the challenge, unsigned.   *)
(*                                                                         *)
(* A derivation is what it is over: the ids and realms of two challenges   *)
(* differ in the bytes an attribution memo keeps of their hashes, and two  *)
(* ATR hashes in the 8 bytes a muxed address keeps.                        *)
(***************************************************************************)
EXTENDS X402, TLC

CONSTANTS None, Hashes

VARIABLES stage, pairing, option, choice, payment, form, served, built, answer, told

Ch == INSTANCE MppChallenge WITH Absent <- None, EVM_MAX_SPLITS <- 10, HEDERA_MAX_SPLITS <- 8,
                                  MAX_CHALLENGES <- 32

Svm == INSTANCE SvmRails

HederaX == INSTANCE HederaRails

StellarX == INSTANCE StellarRails

XrplX == INSTANCE XrplRails

Authorization == "mpp/charge/evm/authorization"
Permit2 == "mpp/charge/evm/permit2"
Memo == "mpp/charge/tempo/memo"
Push == "mpp/charge/tempo/push"
Hedera == "mpp/charge/hedera"
Solana == "mpp/charge/solana"
UsdcSolana == "mpp/charge/usdc/solana"
UsdcEvm == "mpp/charge/usdc/evm"
Gateway == "mpp/charge/usdc/gateway"
Stacks == "mpp/charge/usdc/stacks"
Stellar == "mpp/charge/stellar"
Xrpl == "mpp/charge/xrpl"

Typed == {Authorization, Permit2, UsdcEvm}
Tempos == {Memo, Push}
Solanas == {Solana, UsdcSolana}
Usdcs == {UsdcSolana, UsdcEvm, Gateway, Stacks}
Pairings == Typed \cup Tempos \cup Solanas \cup Usdcs \cup {Hedera, Stellar, Xrpl}
PublicProof(p) == TRUE

(* A fault of MppChallenge as an answer.                                    *)
Fault(code) == When(code # "none", code)

(***************************************************************************)
(* Options: challenges, each for one pairing (or one method's pairings).   *)
(***************************************************************************)
Members ==
    {"methodDetails", "r.amount", "r.currency", "r.recipient", "r.externalId", "d.network", "d.chainId",
     "d.credentialTypes", "d.splits", "d.permit2Address", "d.memo", "d.supportedModes", "d.feePayer",
     "splits.accounts", "d.feePayerKey", "d.confidential", "d.recentBlockhash", "d.decimals", "d.tokenProgram",
     "d.invoiceId", "d.destinationTag", "d.sourceTag", "d.memos", "d.metadata", "u.type", "u.profile", "u.other", "jcs",
     "d.contractAddress", "d.contractName"}

(* The members an honest request of the pairing has.                        *)
Asks(p) ==
    {"methodDetails", "r.amount", "r.currency", "r.recipient"} \cup
    (IF p \in Usdcs THEN {"u.profile"} ELSE {}) \cup
    CASE p \in {Authorization, Permit2} -> {"d.chainId", "d.credentialTypes"}
      [] p \in Tempos -> {}
      [] p = Hedera -> {"d.chainId", "splits.accounts"}
      [] p \in Solanas -> {"d.network", "r.externalId", "d.feePayerKey"}
      [] p = UsdcEvm -> {"d.chainId", "jcs"}
      [] p = Gateway -> {"jcs"}
      [] p = Stacks -> {"d.chainId", "d.contractAddress", "d.contractName"}
      [] p = Stellar -> {"d.network"}
      [] p = Xrpl -> {"d.network", "d.invoiceId"}

Profile(p) ==
    CASE p = UsdcSolana -> "solana" [] p = UsdcEvm -> "evm" [] p = Gateway -> "gateway" [] p = Stacks -> "stacks"
      [] OTHER -> "absent"

(* The request: carrier is the hash its externalId, muxed recipient or      *)
(* invoiceId names; sponsor, a Solana fee payer.                            *)
Request(p, h, feePayer) ==
    [m |-> [k \in Members |->
              CASE k = "u.type" -> Profile(p)
                [] k = "d.feePayer" -> feePayer
                [] k = "r.recipient" /\ p = Stellar -> "muxed"
                [] OTHER -> IF k \in Asks(p) THEN "good" ELSE "absent"],
     amount |-> 4, splits |-> <<>>,
     types |-> IF p \in {Authorization, Permit2} THEN <<"authorization", "permit2">> ELSE <<>>,
     carrier |-> h, sponsor |-> "key"]

Id(h, at) == Ch!challenge_id(h, TRUE) @@ [at |-> at]

HonestOption(p, h, feePayer) ==
    [key |-> Ch!KeyOf(p), q |-> Request(p, h, feePayer), expires |-> "good", shape |-> TRUE, realm |-> "good",
     request |-> "good", opaque |-> [form |-> "map", h |-> h, link |-> "https", agreement |-> "absent"],
     id |-> Id(h, 0), size |-> "small"]

HonestOptions(p) ==
    {HonestOption(p, h, feePayer) : h \in Hashes,
        feePayer \in IF p \in Solanas THEN {"true"} ELSE IF p = Stellar THEN {"absent", "true"} ELSE {"absent"}}

Carriers(p) ==
    CASE p \in Solanas -> {"H1", "H2", "upper", "other"}
      [] p = Stellar -> {"H1", "H2", "other"}
      [] p = Xrpl -> {"H1", "H2", "H1-lower", "other"}
      [] OTHER -> {"H1", "H2"}

RequestForms(p, q) ==
    {[q EXCEPT !.m[k] = f] : k \in Asks(p), f \in {"absent", "bad"}}
    \cup {[q EXCEPT !.carrier = c] : c \in Carriers(p)}
    \cup (IF p \in Solanas THEN {[q EXCEPT !.sponsor = "invoked"], [q EXCEPT !.m["d.confidential"] = "true"]} ELSE {})
    \cup (IF p \in {Authorization, Permit2}
          THEN {[q EXCEPT !.types = <<"authorization">>], [q EXCEPT !.types = <<"permit2">>]} ELSE {})
    \cup (IF p \in Tempos THEN {[q EXCEPT !.amount = 0], [q EXCEPT !.m["d.feePayer"] = "true"],
                                [q EXCEPT !.m["d.memo"] = "good"]} ELSE {})
    \cup (IF p = Stellar THEN {[q EXCEPT !.m["r.recipient"] = "good"]} ELSE {})
    \cup (IF p = Xrpl THEN {[q EXCEPT !.m["d.memos"] = "good"], [q EXCEPT !.m["d.sourceTag"] = "bad"]} ELSE {})

(* The Hedera piece echoes the caller's own challenge, unmeasured: its      *)
(* sizes are MppChallenge's subject, and Mpp's.                             *)
ChallengeForms(p, ch) ==
    [key |-> {"mpp/charge/stripe"}, q |-> RequestForms(p, ch.q), expires |-> {"absent", "bad"}, shape |-> {FALSE},
     realm |-> {"other", "unencodable"}, request |-> {"bad"},
     opaque |-> {[ch.opaque EXCEPT !.form = f] : f \in {"absent", "bad"}}
                \cup {[ch.opaque EXCEPT !.h = h] : h \in Hashes \cup {None}}
                \cup {[ch.opaque EXCEPT !.link = l] : l \in {"absent", "https2", "other-scheme"}},
     id |-> {Id(h, at) : h \in Hashes \cup {None}, at \in {0, 1}}
            \cup {[ch.id EXCEPT !.dot = FALSE], [ch.id EXCEPT !.string = FALSE]},
     size |-> IF p = Hedera THEN {"large"} ELSE {"edge", "padded", "large"}]

Options(p) == UNION {OneOff(o, ChallengeForms(p, o)) : o \in HonestOptions(p)}

(* The challenges read from the document, of which the piece takes the      *)
(* first that offers the pairing.                                           *)
Offered(p, o) == Ch!read(<<o>>).code = "none" /\ Ch!checked_for(o, p) = "none"

Served(p, o) == When(~Offered(p, o), "none")

(***************************************************************************)
(* build.                                                                  *)
(***************************************************************************)
ChargeChoice(h, given) == [h |-> h, choice |-> "object", account |-> "here", given |-> given]

(* What the buyer supplies beside the challenge: on Hedera whether the      *)
(* signer broadcasts, on Stellar the simulated transaction.                 *)
HonestGiven(p, h) ==
    IF p = Stellar THEN {StellarX!Given(h)} ELSE IF p = Hedera THEN {"pull", "push"} ELSE {"inputs"}

GivenForms(p) ==
    CASE p = Stellar -> StellarX!GivenForms
      [] p \in Tempos -> {"malformed"}
      [] p \in {Gateway, Stacks} -> {}
      [] OTHER -> {"missing", "malformed"}

HonestChoices(p) == UNION {{ChargeChoice(h, g) : g \in HonestGiven(p, h)} : h \in Hashes}

Choices(p) ==
    HonestChoices(p) \cup
    UNION {OneOff(ChargeChoice("H1", g), [h |-> {"H2", "malformed"}, choice |-> {"malformed"},
                                          account |-> {"elsewhere"}, given |-> GivenForms(p)]) :
              g \in HonestGiven(p, "H1")}

(* The hash a request's own carrier names, where the pairing has one.       *)
CarrierOf(p, q) ==
    CASE p \in Solanas /\ q.m["r.externalId"] = "good" -> q.carrier
      [] p = Stellar /\ q.m["r.recipient"] = "muxed" -> q.carrier
      [] p = Xrpl /\ q.m["d.invoiceId"] = "good" -> IF q.carrier = "H1-lower" THEN "H1" ELSE q.carrier
      [] OTHER -> "absent"

(* Neither the reading of a document nor the filter reads the hash a        *)
(* request's own carrier names, the challenge's size or the programs a      *)
(* transaction invokes.                                                     *)
BuildOnly(p, o, h) ==
    \/ o.id.h # h \/ o.size = "large"
    \/ p \in Solanas \cup {Stellar, Xrpl} /\ CarrierOf(p, o.q) # h
    \/ p \in Solanas /\ o.q.sponsor = "invoked"

ChosenFor(p, o, c) == Fault(Ch!chosen_for(o, c.h, p))

(* Mutant of Carries: the request's carrier is not held to the hash.       *)
CarriesAny(p, o, c, code) == "ok"

Carries(p, o, c, code) == When(CarrierOf(p, o.q) # c.h, code)

OfferFor(p, o, c) ==
    First(<<When(c.choice # "object", "mpp/input-malformed"), ChosenFor(p, o, c),
            When(c.given = "malformed", "mpp/input-malformed")>>)

HederaBuilt(o, c) ==
    First(<<When(c.choice # "object", "hedera/option-malformed"), ChosenFor(Hedera, o, c),
            When(c.given = "malformed", "hedera/option-malformed")>>)

SolanaBuilt(p, o, c) ==
    First(<<When(c.choice # "object", "svm/input-malformed"), ChosenFor(p, o, c),
            Carries(p, o, c, "svm/carrier-mismatch"),
            When(c.given = "malformed" \/ o.q.sponsor = "invoked", "svm/input-malformed")>>)

XrplBuilt(o, c) ==
    First(<<When(c.choice # "object", "mpp/input-malformed"), ChosenFor(Xrpl, o, c),
            Carries(Xrpl, o, c, "xrpl/carrier-mismatch"),
            When(c.given = "malformed", "mpp/input-malformed")>>)

(* The entry expires some ledgers on, at the challenge's expires.           *)
StellarBuilt(o, c) ==
    LET at == [timeout |-> "seconds", payTo |-> CarrierOf(Stellar, o.q)] IN
    First(<<When(c.choice # "object", "stellar/tx-malformed"), ChosenFor(Stellar, o, c),
            When(c.given.ledger = "malformed", "stellar/tx-malformed"),
            When(c.given.payer = "malformed", "stellar/payer-mismatch"),
            StellarX!SigningInput(at, c),
            Carries(Stellar, o, c, "stellar/carrier-mismatch"),
            StellarX!SigningFor(at, c),
            StellarX!SignsOption(c.given.simulated, at)>>)

InputMissing(p, c) ==
    IF p = Stellar THEN c.given.ledger = "missing" \/ c.given.simulated.xdr = "absent" ELSE c.given = "missing"

Built(p, o, c) ==
    First(<<When(c.account # "here" \/ ~Offered(p, o), "mpp/no-payable-option"),
            When(InputMissing(p, c), "mpp/input-missing"),
            CASE p = Hedera -> HederaBuilt(o, c)
              [] p \in Solanas -> SolanaBuilt(p, o, c)
              [] p = Stellar -> StellarBuilt(o, c)
              [] p = Xrpl -> XrplBuilt(o, c)
              [] OTHER -> OfferFor(p, o, c)>>)

(***************************************************************************)
(* Payments: the echoed challenge and a payload, with what the receiver    *)
(* read of the chain for it (Held).  What the signer gives that is tied to *)
(* the challenge is "asked" in its answer.                                 *)
(***************************************************************************)
(* The derivations: over the id and realm, usdc's over the request's bytes  *)
(* too.                                                                    *)
ChallengeHash(ch) == ToString(<<ch.id, ch.realm>>)
UsdcNonce(ch) == ToString(<<ch.id, ch.realm, ch.q>>)

Proof(p, ch) == IF p \in {UsdcEvm, Gateway} THEN UsdcNonce(ch) ELSE ChallengeHash(ch)

(* The salt is over the intent's values and the credential's own.           *)
GatewaySalt(ch, t) == ToString(<<Proof(Gateway, ch), t.depositor, t.networks, t.spec>>)

HonestAnswer(p) ==
    CASE p \in Typed \cup Solanas \cup {Stellar} -> [signature |-> "whole"]
      [] p = Hedera -> [key |-> "key", signature |-> "64-bytes", id |-> "asked"]
      [] p = Memo -> [wire |-> "wire", chain |-> "asked", calls |-> "one", call |-> "transferWithMemo", memo |-> "asked"]
      [] p = Push -> [hash |-> "hash", landed |-> "read", calls |-> "one", call |-> "transferWithMemo", memo |-> "asked"]
      [] p = Gateway -> [intent |-> "signed", spec |-> "whole", depositor |-> "payer", networks |-> "chains", proof |-> "asked"]
      [] p = Stacks -> [wire |-> "wire", chain |-> "asked", call |-> "transfer", memo |-> "asked"]
      [] p = Xrpl -> XrplX!HonestAnswer(Xrpl)

TempoWires == {"not-hex", "not-canonical", "13-items", "field-malformed", "65-calls", "call-malformed"}

StacksWires ==
    {"not-base64", "empty", "long", "cut", "trailing", "value-unknown", "level-17", "no-common-type",
     "condition-unknown", "post-condition-unknown", "payload-unknown", "proof-malformed"}

AnswerForms(p) ==
    CASE p \in Typed \cup Solanas \cup {Stellar} -> [signature |-> {"malformed"}]
      [] p = Hedera -> [key |-> {"absent", "short"}, signature |-> {"absent", "short"}, id |-> {"malformed", "other"}]
      [] p = Memo -> [wire |-> TempoWires, chain |-> {"other"}, calls |-> {"none", "two"},
                      call |-> {"create", "other-token", "short", "other-function", "dirty-word"}, memo |-> {"other"}]
      [] p = Push -> [hash |-> {"malformed"}, landed |-> {"unread", "malformed"}, calls |-> {"none", "two"},
                      call |-> {"other-token", "other-event", "three-topics"}, memo |-> {"other"}]
      [] p = Gateway -> [intent |-> {"absent", "unsigned"}, spec |-> {"malformed", "other"},
                         depositor |-> {"malformed", "other"}, networks |-> {"malformed", "other", "no-chain"},
                         proof |-> {"malformed", "other"}]
      [] p = Stacks -> [wire |-> StacksWires, chain |-> {"other"}, call |-> {"none", "other", "three-arguments"},
                        memo |-> {"none", "H2"}]
      [] p = Xrpl -> XrplX!BlobForms

Answers(p, o) == OneOff(HonestAnswer(p), AnswerForms(p))

(* The credential's challenge is the snapshot build held; the Hedera piece  *)
(* puts the caller's own there.                                             *)
Echo(p, o) == IF p = Hedera THEN o ELSE Ch!challenge_snapshot(o)

PayloadType(p, c) ==
    CASE p \in {Authorization, UsdcEvm} -> "authorization"
      [] p = Permit2 -> "permit2"
      [] p = Gateway -> "transfer"
      [] p = Push \/ (p = Hedera /\ c.given = "push") -> "hash"
      [] OTHER -> "transaction"

Asked(given, memo) == [given EXCEPT !.memo = IF @ = "asked" THEN memo ELSE @]

GatewayTx(given, ch) ==
    [given EXCEPT !.proof = IF @ = "asked" THEN GatewaySalt(ch, given) ELSE @] @@ [format |-> "gateway"]

Low == [network |-> "low"]

(* What the payer signed, as the payload or the chain holds it.             *)
Tx(p, ch, c, given) ==
    CASE p \in Typed -> [proof |-> Proof(p, ch)]
      [] p \in Tempos -> Asked(given, Proof(p, ch))
      [] p = Hedera -> HederaX!WrittenBody(Proof(p, ch))
      [] p \in Solanas -> Svm!ExactPayload([memo |-> c.h]) @@ [bundle |-> "one"]
      [] p = Gateway -> GatewayTx(given, ch)
      [] p = Stacks -> Asked(given, c.h) @@ [format |-> "stacks"]
      [] p = Stellar -> c.given.simulated
      [] p = Xrpl -> XrplX!Asked(Low, c, given)

HeldOf(p, c, given) ==
    CASE p = Push -> given.landed
      [] p = Hedera -> IF c.given = "push" THEN "read" ELSE "unread"
      [] OTHER -> "unread"

Paid(p, o, c, given) ==
    [shape |-> "whole", challenge |-> Echo(p, o),
     payload |-> [type |-> PayloadType(p, c), held |-> HeldOf(p, c, given), tx |-> Tx(p, Echo(p, o), c, given)]]

(***************************************************************************)
(* bound.  h is the hash the challenge's id derives from, and t what the   *)
(* payer signed.                                                           *)
(***************************************************************************)
SellerPays(ch) == ch.request # "bad" /\ ch.q.m["methodDetails"] = "good" /\ ch.q.m["d.feePayer"] = "true"

(* The payload types a pairing takes; a Stellar hash, from a payer who pays *)
(* the fee.                                                                 *)
Takes(p, ch) ==
    CASE p \in {Authorization, UsdcEvm} -> {"authorization"}
      [] p = Permit2 -> {"permit2"}
      [] p = Gateway -> {"transfer"}
      [] p = Push -> {"hash"}
      [] p \in {Memo, Stacks, UsdcSolana} -> {"transaction"}
      [] p = Solana -> {"transaction", "bundle", "signature"}
      [] p = Stellar -> IF SellerPays(ch) THEN {"transaction"} ELSE {"transaction", "hash"}
      [] OTHER -> {"transaction", "hash"}

ProofCode(p) ==
    CASE p = Authorization -> "mpp/nonce-not-challenge-hash"
      [] p = Permit2 -> "mpp/witness-not-challenge-hash"
      [] OTHER -> "mpp/nonce-not-usdc-derivation"

TypedRead(p, ch, t) ==
    First(<<When(t.proof = "malformed", "mpp/credential-malformed"), When(t.proof # Proof(p, ch), ProofCode(p))>>)

(* RLP in its canonical form only; the envelope's fourteen items; the calls.*)
RlpDecoded(t) == t.wire # "not-canonical"
Envelope(t) == RlpDecoded(t) /\ t.wire \notin {"13-items", "field-malformed"}
DecodedTempoTx(t) ==
    When(~Envelope(t) \/ t.wire \in {"65-calls", "call-malformed"}, "tempo/tx-malformed")

(* Of the calls, or of the landed logs, one carries the attribution memo.   *)
OneMemo(ch, t) ==
    First(<<When(t.calls = "none" \/ t.call # "transferWithMemo" \/ t.memo # Proof(Memo, ch), "tempo/memo-not-bound"),
            When(t.calls = "two", "tempo/ambiguous")>>)

SignedMemoCall(ch, t) ==
    First(<<When(t.wire = "not-hex", "mpp/credential-malformed"), DecodedTempoTx(t),
            When(t.chain = "other", "tempo/tx-malformed"), OneMemo(ch, t)>>)

LandedMemoLog(ch, t, held) == First(<<When(held # "read", "tempo/read-first"), OneMemo(ch, t)>>)

HederaRead(ch, t, type, held) ==
    First(<<IF type = "transaction"
            THEN First(<<When(t.transaction \in {"absent", "malformed"}, "hedera/tx-malformed"), HederaX!DecodedTx(t)>>)
            ELSE When(held # "read", "hedera/read-first"),
            When(t.memo \in {"empty", "text", "long"}, "mpp/attribution-malformed"),
            When(t.memo # Proof(Hedera, ch), "mpp/attribution-mismatch")>>)

(* The transaction, the last of a bundle, or the one that landed.           *)
PresentedTx(t, type, held) ==
    First(<<When(type = "bundle" /\ t.bundle \in {"malformed", "9"}, "svm/tx-malformed"),
            When(type = "bundle" /\ t.bundle = "empty", "svm/bundle-empty"),
            When(type = "signature" /\ (held # "read" \/ t.transaction = "absent"), "svm/read-first"),
            Svm!Wire(t)>>)

(* mpp_svm_carrier: a memo that is not an LCP string is not read.           *)
LcpMemo(t) ==
    First(<<When(t.memos = "none" \/ t.memo \in {"other", "bytes"}, "svm/no-carrier"),
            When(t.memos = "two", "svm/memo-count"),
            When(t.memo = "upper", "svm/carrier-not-canonical")>>)

SolanaRead(p, ch, t, type, held, h) ==
    First(<<PresentedTx(t, type, held), Svm!StaticNonce(t), LcpMemo(t),
            When(t.memo # CarrierOf(p, ch.q), "svm/carrier-mismatch"),
            When(t.memo # h, "mpp/carrier-not-challenge")>>)

GatewayAccount(t) == t.networks # "no-chain" /\ t.spec # "malformed"

GatewayRead(ch, t) ==
    First(<<When("malformed" \in {t.depositor, t.networks}, "mpp/credential-malformed"),
            When(\/ t.format # "gateway" \/ t.intent # "signed" \/ t.spec = "absent"
                 \/ t.proof = "malformed" \/ ~GatewayAccount(t), "mpp/gateway-unread"),
            When(t.proof # GatewaySalt(ch, t), "mpp/salt-not-usdc-derivation")>>)

(* The Stacks node's readers, each of which the transaction must pass.      *)
Reader(t) == t.wire \notin {"cut", "empty"}
ClarityType(t) == t.wire # "no-common-type"
ClarityValue(t) == Reader(t) /\ ClarityType(t) /\ t.wire \notin {"value-unknown", "level-17"}
SpendingCondition(t) == t.wire # "condition-unknown"
PostCondition(t) == ClarityValue(t) /\ t.wire # "post-condition-unknown"
VrfProof(t) == t.wire # "proof-malformed"
StacksPayload(t) == ClarityValue(t) /\ VrfProof(t) /\ t.wire # "payload-unknown"
StacksTransaction(t) ==
    When(\/ ~(SpendingCondition(t) /\ PostCondition(t) /\ StacksPayload(t)) \/ t.wire \in {"long", "trailing"},
         "mpp/stacks-tx-malformed")

OnNetwork(t) == When(t.chain = "other", "stacks/chain-mismatch")

StacksRead(t, h) ==
    First(<<When(t.format # "stacks" \/ t.wire = "not-base64", "mpp/stacks-tx-malformed"),
            StacksTransaction(t), OnNetwork(t),
            When(t.call # "transfer" \/ t.memo # h, "mpp/stacks-memo-not-h")>>)

(* A landed transaction's entry is the one that carries the transfer; a     *)
(* payer with none authorized it as the transaction's source, and the       *)
(* credential's hash must then name it.                                     *)
LandedTransfer(t) ==
    IF t.entries \in {"source", "source-unnamed"}
    THEN First(<<StellarX!Bytes(t), StellarX!Operation(t),
                 When(t.entries = "source-unnamed", "mpp/credential-malformed")>>)
    ELSE StellarX!ReadSignedTransfer([t EXCEPT !.entries = IF @ = "two" THEN "one" ELSE @])

StellarRead(t, type, held, to, h) ==
    First(<<When(type = "hash" /\ (held # "read" \/ t.xdr = "absent"), "stellar/read-first"),
            When(t.xdr = "absent", "stellar/tx-malformed"),
            When(to # h, "stellar/carrier-mismatch"),
            IF type = "hash" THEN LandedTransfer(t) ELSE StellarX!ReadSignedTransfer(t),
            When(t.to \notin Hashes, "stellar/no-carrier"),
            When(t.to # to, "stellar/carrier-mismatch"),
            When(t.agrees = "no", "stellar/not-one-transfer")>>)

XrplRead(t, type, held, invoice, h) ==
    First(<<When(type = "hash" /\ (held # "read" \/ t.blob = "absent"), "xrpl/read-first"),
            XrplX!DecodedPresented(t),
            When(~XrplX!NetworkIdHeld(t, Low), "xrpl/network-mismatch"),
            When(t.type # "Payment", "xrpl/not-payment"),
            When(t.invoice = "absent", "xrpl/no-invoice-id"),
            When(t.invoice # invoice, "xrpl/carrier-mismatch"),
            When(t.invoice # h, "mpp/carrier-not-challenge")>>)

PayloadRead(p, ch, payload, h) ==
    CASE p \in Typed -> TypedRead(p, ch, payload.tx)
      [] p = Memo -> SignedMemoCall(ch, payload.tx)
      [] p = Push -> LandedMemoLog(ch, payload.tx, payload.held)
      [] p = Hedera -> HederaRead(ch, payload.tx, payload.type, payload.held)
      [] p \in Solanas -> SolanaRead(p, ch, payload.tx, payload.type, payload.held, h)
      [] p = Gateway -> GatewayRead(ch, payload.tx)
      [] p = Stacks -> StacksRead(payload.tx, h)
      [] p = Stellar -> StellarRead(payload.tx, payload.type, payload.held, CarrierOf(p, ch.q), h)
      [] p = Xrpl -> XrplRead(payload.tx, payload.type, payload.held, CarrierOf(p, ch.q), h)

NotTaken(p, paid) == When(paid.payload.type \notin Takes(p, paid.challenge), "mpp/credential-type")

Bound(p, paid) ==
    First(<<When(paid.shape # "whole", "mpp/credential-malformed"),
            Fault(Ch!held_for(paid.challenge, TRUE, p)),
            NotTaken(p, paid),
            PayloadRead(p, paid.challenge, paid.payload, Ch!challenge_id_h(paid.challenge)),
            Ch!challenge_id_h(paid.challenge)>>)

(***************************************************************************)
(* complete.                                                               *)
(***************************************************************************)
(* Mutant of Measured: a credential over the size bound is given.         *)
Unmeasured(o) == "ok"

(* measured: the credential, the echoed challenge included.                 *)
Measured(o) == When(~Ch!Within(Ch!challenge_snapshot(o).size, TRUE), "mpp/credential-malformed")

HederaCompleted(c, given) ==
    IF c.given = "push"
    THEN First(<<When(given.id = "malformed", "mpp/credential-malformed"),
                 When(given.id = "other", "hedera/tx-mismatch")>>)
    ELSE First(<<When("absent" \in {given.key, given.signature}, "mpp/credential-malformed"),
                 HederaX!CompleteWith(given)>>)

PushCompleted(o, given) ==
    First(<<When(given.hash = "malformed", "mpp/credential-malformed"), Measured(o),
            When(given.landed = "malformed", "mpp/credential-malformed")>>)

GatewayCompleted(o, given) ==
    First(<<When(given.intent # "signed" \/ "malformed" \in {given.depositor, given.networks}, "mpp/credential-malformed"),
            Measured(o)>>)

StacksCompleted(o, given) ==
    First(<<When(given.wire = "not-base64", "mpp/credential-malformed"), Measured(o),
            StacksTransaction(given), OnNetwork(given)>>)

StellarCompleted(o, c, given) ==
    First(<<When(given.signature = "malformed", "mpp/credential-malformed"), Measured(o),
            StellarX!CompletedStellar(c)>>)

XrplCompleted(o, c, given) ==
    First(<<When(given.blob = "absent", "mpp/credential-malformed"), Measured(o),
            XrplX!CompletedXrpl(XrplX!Asked(Low, c, given), Low)>>)

SignedCompleted(o, given) ==
    First(<<When(given.signature = "malformed", "mpp/credential-malformed"), Measured(o)>>)

Completed(p, o, c, given) ==
    CASE p = Hedera -> HederaCompleted(c, given)
      [] p = Memo -> First(<<Fault(Ch!held_for(Echo(p, o), TRUE, p)), SignedMemoCall(o, Tx(p, o, c, given))>>)
      [] p = Push -> PushCompleted(o, given)
      [] p = Gateway -> GatewayCompleted(o, given)
      [] p = Stacks -> StacksCompleted(o, given)
      [] p = Stellar -> StellarCompleted(o, c, given)
      [] p = Xrpl -> XrplCompleted(o, c, given)
      [] OTHER -> SignedCompleted(o, given)

(***************************************************************************)
(* The way to the receiver.                                                *)
(***************************************************************************)
(* Another hash or position in the challenge, wherever it names one.        *)
Swapped(ch) ==
    {[ch EXCEPT !.id = Id(h, at), !.opaque.h = h, !.q.carrier = k] : h \in Hashes, k \in Hashes, at \in {0, 1}}

TxForms(p) ==
    CASE p \in Typed -> [proof |-> {"malformed", "other"}]
      [] p = Hedera -> [HederaX!PayloadForms EXCEPT !.memo = {"empty", "text", "long", "other"}]
      [] p \in Solanas -> Svm!PayloadForms @@ [bundle |-> {"empty", "9", "malformed"}]
      [] p = Gateway -> [intent |-> {"absent", "set", "unsigned"}, spec |-> {"absent", "malformed", "other"}] @@
                        AnswerForms(p) @@ [format |-> {"other"}]
      [] p = Stacks -> AnswerForms(p) @@ [format |-> {"other"}]
      [] p = Stellar -> [StellarX!TransferForms EXCEPT !.entries = @ \cup {"source", "source-unnamed"}]
      [] OTHER -> AnswerForms(p)

(* What no signature covers; a change to any other member does not settle.  *)
Unsigned == {"format", "bundle", "list", "depositor", "networks", "xdr", "call", "entries", "agrees"}
SignedWhole(p, t, u) ==
    \A m \in DOMAIN t \ (IF p \in {Gateway, Hedera, Stellar, Stacks} \cup Solanas THEN Unsigned ELSE {}) : u[m] = t[m]

Altered(p, paid) ==
    LET t == paid.payload.tx IN
    {<<[paid EXCEPT !.shape = "malformed"], TRUE>>}
    \cup {<<[paid EXCEPT !.challenge = ch], TRUE>> :
              ch \in OneOff(paid.challenge, ChallengeForms(p, paid.challenge)) \cup Swapped(paid.challenge)}
    \cup {<<[paid EXCEPT !.payload = [type |-> type, held |-> held, tx |-> u]], SignedWhole(p, t, u)>> :
              type \in Takes(p, paid.challenge) \cup {"hash", "other"}, held \in {"read", "unread"},
              u \in OneOff(t, TxForms(p))}

(***************************************************************************)
(* broadcaster: the shape gate, then the payload's type.                   *)
(***************************************************************************)
CredentialShape(paid) ==
    When(\/ paid.shape # "whole" \/ ~paid.challenge.shape \/ ~paid.challenge.id.string
         \/ ~Ch!Within(paid.challenge.size, TRUE), "mpp/credential-malformed")

ByType(type) == IF type \in {"hash", "signature"} THEN "payer" ELSE "payee"

Told(p, paid) == First(<<CredentialShape(paid), NotTaken(p, paid), ByType(paid.payload.type)>>)

INSTANCE Payment
================================================================================
