------------------------------- MODULE MppChecks -------------------------------
(***************************************************************************)
(* The request checks of every MPP method (bindings/_mpp_checks.py), each   *)
(* naming the pairings a challenge offers, and the networks and parameters  *)
(* read from a request (bindings/_mpp.py).  The order in which a check       *)
(* names them is left out.                                                 *)
(*                                                                         *)
(* A challenge ch holds its key, "mpp/intent/method"; expires, a form; and its  *)
(* decoded request q: q.m, the form of each member, "r." a member of the    *)
(* request, "d." of methodDetails or of the usdc profile's details, "i." of *)
(* the Lightning invoice; q.amount and q.splits, the amounts; q.types, the  *)
(* credential types or modes.  A form is "good" as the check reads it, or   *)
(* "absent", "bad", or one of a member's own.                               *)
(***************************************************************************)
EXTENDS Naturals, Sequences, FiniteSetsExt, SequencesExt

CONSTANTS
    EVM_MAX_SPLITS,     \* 10: the most splits of an EVM or Tempo charge
    HEDERA_MAX_SPLITS   \* 8: the most splits of a Hedera charge

(* The members of a request, its methodDetails and its invoice.             *)
Members ==
    {"r.amount", "r.currency", "r.recipient", "r.externalId", "r.subscriptionExpires", "r.periodUnit", "r.periodCount",
     "r.channelId", "r.description", "d.chainId", "d.permit2Address", "d.permit2Contract", "d.escrowContract",
     "d.accessKey", "d.operator", "d.channelProgram", "d.recentSlot", "d.invoiceId", "d.destinationTag", "d.sourceTag",
     "d.originNetwork", "d.metadata", "d.contractAddress", "d.contractName", "d.feePayerKey", "d.decimals",
     "d.tokenProgram", "d.channelId", "d.sessionSnapshot", "d.memo", "d.memos", "d.splits", "d.credentialTypes",
     "d.supportedModes", "d.feePayer", "d.confidential", "d.network", "d.recentBlockhash", "d.sessionProtocol",
     "d.voucherSigner", "i", "i.h", "i.d", "i.currency", "i.expiry", "i.paymentHash", "paymentHash", "splits.accounts",
     "methodDetails", "jcs", "u.type", "u.profile", "u.other"}

Forms ==
    {"absent", "good", "bad", "none", "true", "empty", "decimals", "muxed", "sol", "issued", "localnet", "v1", "v2",
     "client", "operator", "day", "week", "mid", "long", "wide", "invoked", "undecodable", "evm", "gateway", "solana",
      "stacks"}

(* A request, its members each in a form.                                   *)
Requests == [m : [Members -> Forms], amount : Nat, splits : Seq(Nat), types : Seq(STRING)]

No(code) == [code |-> code, names |-> {}]
Offers(names) == [code |-> "none", names |-> names]

(* The first fault of a list of <<fault, code>>, else the set of pairings   *)
(* named.                                                                   *)
FirstFault(faults, names) ==
    LET found == {i \in DOMAIN faults : faults[i][1]}
    IN  IF found = {} THEN Offers(names) ELSE No(faults[Min(found)][2])

Ok(q, members) == \A k \in members : q.m[k] = "good"
Opt(q, members) == \A k \in members : q.m[k] \in {"absent", "good"}
Has(q, k) == q.m[k] # "absent"
SumOf(amounts) ==
    LET upto[n \in 0..Len(amounts)] == IF n = 0 THEN 0 ELSE upto[n - 1] + amounts[n]
    IN  upto[Len(amounts)]
SplitsExceedOnly(q) == q.amount < SumOf(q.splits)
SplitsExceed(q) == q.amount <= SumOf(q.splits)

EVM_CREDENTIAL_TYPES ==
    [permit2 |-> "mpp/charge/evm/permit2", authorization |-> "mpp/charge/evm/authorization",
     transaction |-> "mpp/charge/evm/transaction", hash |-> "mpp/charge/evm/hash"]

evm_charge_pairings(ch) ==
    LET q == ch.q
        known == Has(q, "d.credentialTypes") => q.types # <<>> /\ ToSet(q.types) \subseteq DOMAIN EVM_CREDENTIAL_TYPES
        types == IF ~known THEN {} ELSE IF Has(q, "d.credentialTypes") THEN ToSet(q.types) ELSE {"transaction", "hash"}
        listed == {EVM_CREDENTIAL_TYPES[t] : t \in types}
        offered == IF Has(q, "d.splits") THEN listed \cap {"mpp/charge/evm/permit2"} ELSE listed
        permit2 == "mpp/charge/evm/permit2" \in offered /\ ch.expires # "absent"
        left == IF permit2 /\ SplitsExceed(q) THEN offered \ {"mpp/charge/evm/permit2"} ELSE offered
    IN  FirstFault(
            << <<~Ok(q, {"d.chainId", "r.currency", "r.recipient", "r.amount"}), "mpp/request-malformed">>,
               <<q.m["d.credentialTypes"] = "bad" \/ ~known, "mpp/credential-types">>,
               <<q.m["d.splits"] = "bad" \/ (Has(q, "d.splits") /\ Len(q.splits) \notin 1..EVM_MAX_SPLITS),
                 "mpp/splits-malformed">>,
               <<offered = {}, "mpp/credential-types">>,
               <<permit2 /\ ~Opt(q, {"d.permit2Address", "r.externalId"}), "mpp/request-malformed">>,
               <<left = {}, "mpp/input-malformed">> >>, left)

(* A Tempo split of amount zero, or with a memo of another form, is refused.*)
TempoSplitsFault(q) ==
    \/ q.m["d.splits"] = "bad"
    \/ Has(q, "d.splits") /\ (Len(q.splits) \notin 1..EVM_MAX_SPLITS \/ \E i \in DOMAIN q.splits : q.splits[i] = 0)

tempo_charge_pairings(ch) ==
    LET q == ch.q
        pull == Has(q, "d.supportedModes") => Contains(q.types, "pull")
        push == q.m["d.feePayer"] # "true" /\ (Has(q, "d.supportedModes") => Contains(q.types, "push"))
        named == (IF pull THEN {"mpp/charge/tempo/memo"} ELSE {}) \cup (IF push THEN {"mpp/charge/tempo/push"} ELSE {})
        malformed == ~Ok(q, {"r.currency", "r.recipient", "r.amount"}) \/ ~Opt(q, {"d.chainId"})
    IN  IF q.amount = 0 /\ ~malformed THEN Offers({})
        ELSE FirstFault(
            << <<malformed, "mpp/request-malformed">>,
               <<Has(q, "d.memo"), "mpp/carrier-taken">>,
               <<q.m["d.supportedModes"] = "bad", "mpp/request-malformed">>,
               <<named = {}, "mpp/modes-pull-only">>,
               <<TempoSplitsFault(q), "mpp/splits-malformed">>,
               <<SplitsExceed(q), "mpp/input-malformed">> >>, named)

evm_session_pairings(ch) ==
    LET q == ch.q
    IN  FirstFault(
            << <<Has(q, "d.channelId") \/ Has(q, "d.sessionSnapshot"), "mpp/channel-named">>,
               <<~Ok(q, {"d.escrowContract"}), "mpp/escrow-malformed">>,
               <<~Ok(q, {"d.chainId"}), "mpp/chain-id-required">>,
               <<~Ok(q, {"r.currency", "r.recipient"}), "mpp/request-malformed">>,
               <<Has(q, "d.credentialTypes")
                   /\ (q.types = <<>> \/ ~(ToSet(q.types) \subseteq {"permit2", "authorization", "hash"})),
                 "mpp/credential-types">>,
               <<Contains(q.types, "permit2") /\ ~Opt(q, {"d.permit2Contract"}), "mpp/request-malformed">> >>,
            {"mpp/session/evm"})

(* sessionProtocol is absent, "v1" or "v2".                                 *)
tempo_session_pairings(ch) ==
    LET q == ch.q
    IN  FirstFault(
            << <<Has(q, "d.channelId") \/ Has(q, "d.sessionSnapshot"), "mpp/channel-named">>,
               <<q.m["d.sessionProtocol"] = "bad", "mpp/session-protocol">>,
               <<q.m["d.sessionProtocol"] = "v2" /\ ~(Has(q, "d.chainId") /\ Has(q, "d.escrowContract")),
                 "mpp/chain-id-required">>,
               <<~Opt(q, {"d.chainId"}), "mpp/chain-id-required">>,
               <<~Ok(q, {"d.escrowContract"}), "mpp/escrow-malformed">>,
               <<~Opt(q, {"d.operator"}) \/ ~Ok(q, {"r.currency", "r.recipient"}), "mpp/request-malformed">> >>,
            {"mpp/session/tempo"})

(* A period in seconds at or over 2^64: a count of "mid" digits is that     *)
(* long in weeks only, and one of "long" digits in days too.                *)
PeriodOver(q) ==
    \/ q.m["r.periodCount"] = "long"
    \/ q.m["r.periodCount"] = "mid" /\ q.m["r.periodUnit"] = "week"

subscription_pairings(ch) ==
    LET q == ch.q
    IN  FirstFault(
            << <<~Ok(q, {"d.accessKey"}), "mpp/access-key-malformed">>,
               <<~Ok(q, {"r.subscriptionExpires"}), "mpp/request-malformed">>,
               <<~Ok(q, {"d.chainId"}), "mpp/chain-id-required">>,
               <<\/ ~Ok(q, {"r.currency", "r.recipient", "r.amount"})
                 \/ q.m["r.periodUnit"] \notin {"day", "week"}
                 \/ q.m["r.periodCount"] \notin {"good", "mid", "long"} \/ PeriodOver(q), "mpp/request-malformed">> >>,
            {"mpp/subscription/tempo"})

(* The invoice is written after placement: carried requires it.             *)
lightning_pairings(ch, carried) ==
    LET q == ch.q
        invoice == q.m["i"]
        name == {ch.key}
        described == <<Has(q, "r.description"), "ln/description-present">>
        hash == <<~Ok(q, {"paymentHash"}), "ln/payment-hash-required">>
    IN  IF invoice = "absent"
        THEN FirstFault(<<hash, described, <<q.m["d.network"] = "bad", "ln/currency-network">>,
                          <<carried, "ln/invoice-malformed">> >>, name)
        ELSE FirstFault(
            << hash,
               <<invoice = "bad", "mpp/request-malformed">>,
               <<invoice = "undecodable", "ln/invoice-malformed">>,
               <<q.m["i.h"] # "good", "mpp/carrier-not-challenge">>,
               <<Has(q, "i.d"), "ln/description-inline">>,
               described,
               <<~Ok(q, {"i.paymentHash"}), "ln/payment-hash-mismatch">>,
               <<q.m["d.network"] = "bad" \/ (Has(q, "d.network") /\ ~Ok(q, {"i.currency"})), "ln/currency-network">>,
               <<ch.expires \in {"good", "far"} /\ ~Ok(q, {"i.expiry"}), "ln/expires-after-invoice">> >>, name)

(* The legs of a Hedera charge: the recipient's remainder and each split,   *)
(* every account distinct, or the fault.                                    *)
hedera_charge_legs(q) ==
    IF \/ ~Ok(q, {"r.amount", "r.currency", "r.recipient", "splits.accounts"}) \/ q.m["d.splits"] = "bad"
       \/ Len(q.splits) > HEDERA_MAX_SPLITS \/ SumOf(q.splits) >= q.amount
    THEN <<>>
    ELSE <<q.amount - SumOf(q.splits)>> \o q.splits

(* chainId 295 is mainnet and 296 testnet; any other is unnamed.            *)
hedera_charge_pairings(ch) ==
    FirstFault(<< <<hedera_charge_legs(ch.q) = <<>>, "hedera/option-malformed">>,
                  <<ch.q.m["d.chainId"] = "bad", "hedera/chain-id-unnamed">> >>, {"mpp/charge/hedera"})

hedera_session_pairings(ch) ==
    FirstFault(<< <<Has(ch.q, "d.channelId"), "mpp/channel-named">>,
                  <<ch.q.m["d.chainId"] = "bad", "hedera/chain-id-unnamed">>,
                  <<~Ok(ch.q, {"r.currency", "r.recipient", "d.escrowContract"}), "mpp/request-malformed">> >>,
        {"mpp/session/hedera"})

(* What the Solana build reads of methodDetails in place of its own inputs  *)
(* is read in the form it builds with, for a mint and for sol.  A key       *)
(* "invoked" is that of a program the transfer's message invokes.           *)
SolanaCharge(q, required, name) ==
    FirstFault(<< <<q.m["d.network"] = "bad" \/ (required /\ ~Has(q, "d.network")), "svm/network-malformed">>,
                  <<\/ ~Ok(q, {"r.amount"}) \/ q.m["r.recipient"] \notin {"good", "invoked"}
                    \/ q.m["r.currency"] \notin {"good", "sol"} \/ ~Opt(q, {"r.externalId"})
                    \/ q.m["d.feePayer"] = "bad"
                    \/ q.m["d.feePayer"] = "true" /\ q.m["d.feePayerKey"] \notin {"good", "invoked"},
                    "mpp/request-malformed">>,
                  <<\/ Has(q, "d.splits") \/ q.m["d.confidential"] = "true" \/ q.m["d.recentBlockhash"] = "bad"
                    \/ q.m["r.currency"] # "sol" /\ (q.m["d.decimals"] = "bad" \/ q.m["d.tokenProgram"] = "bad"),
                    "svm/input-malformed">> >>, {name})

solana_charge_pairings(ch) == SolanaCharge(ch.q, FALSE, "mpp/charge/solana")

solana_session_pairings(ch) ==
    LET q == ch.q
    IN  FirstFault(<< <<Has(q, "d.channelId"), "mpp/channel-named">>,
                      <<q.m["d.network"] # "good" /\ q.m["d.network"] # "localnet", "svm/network-malformed">>,
                      <<\/ ~Ok(q, {"d.channelProgram", "r.currency", "r.recipient"})
                        \/ ~Ok(q, {"d.recentBlockhash", "d.recentSlot"})
                        \/ q.m["d.voucherSigner"] \notin {"absent", "client", "operator"}
                        \/ q.m["d.voucherSigner"] = "operator" /\ ~Ok(q, {"d.operator"}), "svm/input-malformed">> >>,
            {"mpp/session/solana"})

stellar_charge_pairings(ch) ==
    FirstFault(<< <<\/ ~Ok(ch.q, {"d.network", "r.amount", "r.currency"})
                    \/ ch.q.m["r.recipient"] \notin {"good", "muxed"}
                    \/ ch.q.m["d.feePayer"] = "bad", "stellar/option-malformed">> >>, {"mpp/charge/stellar"})

XrplNetworkFault(q) ==
    IF ~Has(q, "d.network") THEN "xrpl/network-missing"
    ELSE IF Ok(q, {"d.network"}) THEN "none" ELSE "xrpl/network-malformed"

(* A currency of XRP takes an amount in drops: "decimals" is one with a     *)
(* point, which an issued currency takes.                                   *)
xrpl_charge_pairings(ch) ==
    LET q == ch.q
    IN  FirstFault(<< <<XrplNetworkFault(q) # "none", XrplNetworkFault(q)>>,
                      <<\/ ~Ok(q, {"r.recipient"}) \/ q.m["r.currency"] \notin {"good", "issued"}
                        \/ q.m["r.amount"] \notin {"good", "decimals"} \/ q.amount = 0
                        \/ q.m["r.currency"] = "good" /\ q.m["r.amount"] = "decimals"
                        \/ ~Opt(q, {"d.invoiceId", "d.destinationTag", "d.sourceTag"}), "mpp/request-malformed">>,
                      <<Has(q, "d.memos"), "xrpl/memos-not-carried">> >>, {"mpp/charge/xrpl"})

(* The request's channelId, where it is present, decides which is read.     *)
xrpl_session_pairings(ch) ==
    LET q == ch.q
        named == IF Has(q, "r.channelId") THEN q.m["r.channelId"] # "empty"
                 ELSE q.m["d.channelId"] \notin {"absent", "empty"}
    IN  FirstFault(<< <<named, "mpp/channel-named">>,
                      <<XrplNetworkFault(q) # "none", XrplNetworkFault(q)>>,
                      <<~Opt(q, {"r.currency"}), "xrpl/currency-not-xrp">>,
                      <<~Ok(q, {"r.recipient", "r.amount"}), "mpp/request-malformed">> >>, {"mpp/session/xrpl"})

near_intents_charge_pairings(ch) ==
    FirstFault(<< <<~Ok(ch.q, {"d.originNetwork"}) \/ ~Opt(ch.q, {"r.externalId"}), "mpp/request-malformed">> >>,
        {"mpp/charge/nearintents"})

card_charge_pairings(ch) ==
    FirstFault(<< <<~Opt(ch.q, {"r.externalId"}), "mpp/request-malformed">> >>, {"mpp/charge/card"})

StripePairings(ch, name) ==
    FirstFault(<< <<~Opt(ch.q, {"d.metadata"}), "mpp/metadata-malformed">> >>, {name})

(* usdc's one active profile, and what its build reads; the EVM and Gateway *)
(* derivations hash the request as received, so it is in its RFC 8785 form. *)
(* An amount is read as up to 78 digits: "wide" is one of 2^256 or more.    *)
usdc_charge_pairings(ch) ==
    LET q == ch.q
        kind == q.m["u.type"]
        early == << <<kind = "bad" \/ ~Ok(q, {"u.profile"}) \/ Has(q, "u.other"), "mpp/usdc-profile">>,
                    <<q.m["r.amount"] \notin {"good", "wide"} \/ q.amount = 0 \/ q.m["r.recipient"] = "none",
                      "mpp/request-malformed">> >>
        jcs == <<~Ok(q, {"jcs"}), "mpp/request-not-jcs">>
    IN  IF FirstFault(early, {}).code # "none" THEN FirstFault(early, {})
        ELSE IF kind = "solana" THEN SolanaCharge(q, TRUE, "mpp/charge/usdc/solana")
        ELSE IF kind = "evm"
        THEN FirstFault(<< <<~Ok(q, {"d.chainId", "r.currency", "r.recipient"}), "mpp/request-malformed">>, jcs >>,
                {"mpp/charge/usdc/evm"})
        ELSE IF kind = "stacks"
        THEN FirstFault(<< <<~Ok(q, {"d.chainId", "d.contractAddress", "d.contractName"}), "mpp/request-malformed">> >>,
                {"mpp/charge/usdc/stacks"})
        ELSE FirstFault(<<jcs>>, {"mpp/charge/usdc/gateway"})
==============================================================================
