----------------------------- MODULE MppChallenge -----------------------------
(***************************************************************************)
(* An MPP challenge as the bindings hold it (bindings/_mpp.py): its id and *)
(* opaque, its one filter, its network, the buyer's reading of a document, *)
(* and how a chosen and an echoed challenge are held to one pairing.       *)
(*                                                                         *)
(* A challenge is [key, q, expires, shape, realm, request, opaque, id,     *)
(* size]; key is "mpp/", its intent, "/" and its method.                   *)
(***************************************************************************)
EXTENDS MppChecks

CONSTANTS
    Hashes,         \* the ATR hashes
    Absent,         \* a member that is not there; no hash
    MAX_CHALLENGES  \* 32: the most challenges of a document

(* Bytes of JSON against the 64 KiB bound, alone and in a credential:       *)
(* "edge" is within it with an empty payload only, "padded" once its        *)
(* members that are not MPP's are left out.                                 *)
Sizes == {"small", "edge", "padded", "large"}

(* An LCP member of an opaque: no member, a link, or one read gives refused.*)
Urls == {"absent", "https", "https2", "other-scheme", "bad"}

(* A challenge of any request, with members of any form.                    *)
Challenges ==
    [key : STRING, q : Requests, expires : {"absent", "good", "bad", "past", "far"}, shape : BOOLEAN,
     realm : {"good", "other", "unencodable"}, request : {"good", "bad"},
     opaque : [form : {"absent", "map", "bad"}, h : Hashes \cup {Absent}, link : Urls, agreement : Urls],
     id : [h : Hashes \cup {Absent}, dot : BOOLEAN, string : BOOLEAN], size : Sizes]

(* id is the base64url of h, followed by a position when dot is TRUE; h is  *)
(* Absent for an id of another form, and string FALSE when there is none.   *)
challenge_id(h, dot) == [h |-> h, dot |-> dot, string |-> TRUE]

challenge_id_h(ch) ==
    IF ch.id.string /\ ch.id.dot # (ch.key = "mpp/subscription/tempo") THEN ch.id.h ELSE Absent

NeedsNoPermit2 ==
    {"mpp/charge/evm/authorization", "mpp/charge/tempo/memo", "mpp/charge/tempo/push", "mpp/charge/usdc/evm",
     "mpp/charge/stellar", "mpp/charge/nearintents", "mpp/charge/xrpl", "mpp/session/evm", "mpp/session/tempo"}

NEEDS_EXPIRES ==
    {"mpp/charge/evm/authorization", "mpp/charge/evm/permit2", "mpp/charge/tempo/memo", "mpp/charge/tempo/push",
     "mpp/charge/usdc/evm", "mpp/charge/stellar", "mpp/charge/nearintents", "mpp/charge/xrpl",
     "mpp/session/evm", "mpp/session/tempo"}

PAIRING_CHECKS(ch, carried) ==
    CASE ch.key = "mpp/charge/evm" -> evm_charge_pairings(ch)
      [] ch.key = "mpp/charge/tempo" -> tempo_charge_pairings(ch)
      [] ch.key = "mpp/session/evm" -> evm_session_pairings(ch)
      [] ch.key = "mpp/session/tempo" -> tempo_session_pairings(ch)
      [] ch.key = "mpp/subscription/tempo" -> subscription_pairings(ch)
      [] ch.key \in {"mpp/charge/lightning", "mpp/session/lightning"} -> lightning_pairings(ch, carried)
      [] ch.key = "mpp/charge/hedera" -> hedera_charge_pairings(ch)
      [] ch.key = "mpp/charge/solana" -> solana_charge_pairings(ch)
      [] ch.key = "mpp/charge/stellar" -> stellar_charge_pairings(ch)
      [] ch.key = "mpp/charge/xrpl" -> xrpl_charge_pairings(ch)
      [] ch.key = "mpp/charge/nearintents" -> near_intents_charge_pairings(ch)
      [] ch.key = "mpp/session/hedera" -> hedera_session_pairings(ch)
      [] ch.key = "mpp/session/solana" -> solana_session_pairings(ch)
      [] ch.key = "mpp/session/xrpl" -> xrpl_session_pairings(ch)
      [] ch.key = "mpp/charge/card" -> card_charge_pairings(ch)
      [] ch.key = "mpp/charge/stripe" -> StripePairings(ch, "mpp/charge/stripe")
      [] ch.key = "mpp/subscription/stripe" -> StripePairings(ch, "mpp/subscription/stripe")
      [] ch.key = "mpp/charge/usdc" -> usdc_charge_pairings(ch)
      [] OTHER -> No("mpp/not-this-pairing")

HoldsLcp(opaque) == opaque.h # Absent \/ opaque.link # "absent" \/ opaque.agreement # "absent"

(* The seller's own LCP members may stand in a placed challenge only.       *)
CarrierTakenAlways(ch, placed) == HoldsLcp(ch.opaque)
CarrierTaken(ch, placed) == ch.opaque.form = "map" /\ ~placed /\ HoldsLcp(ch.opaque)

(* The checks of pairings_of, of which named is PAIRING_CHECKS' answer;     *)
(* without expires, the pairings whose payer signs it are left out.         *)
EarlyFault(ch, placed, named) ==
    FirstFault(
        << <<~ch.shape \/ ch.realm = "unencodable", "mpp/challenge-malformed">>,
           <<named.code = "mpp/not-this-pairing", "mpp/not-this-pairing">>,
           <<ch.expires = "bad", "mpp/expires-required">>,
           <<ch.request = "bad", "mpp/request-malformed">>,
           <<ch.opaque.form = "bad", "mpp/opaque-malformed">>,
           <<CarrierTaken(ch, placed), "mpp/carrier-taken">>,
           <<~Opt(ch.q, {"methodDetails"}), "mpp/request-malformed">>,
           <<named.code # "none", named.code>> >>, named.names)

Timed(checked, timed) ==
    IF checked.code = "none" /\ timed = {} /\ checked.names # {} THEN No("mpp/expires-required")
    ELSE [checked EXCEPT !.names = timed]

TimedOf(ch, checked) ==
    Timed(checked, {p \in checked.names : ch.expires \in {"good", "past", "far"} \/ p \notin NEEDS_EXPIRES})

check_challenge(ch, placed, carried) == TimedOf(ch, EarlyFault(ch, placed, PAIRING_CHECKS(ch, carried)))

Names(checked, pairing) ==
    IF checked.code # "none" THEN checked.code
    ELSE IF pairing \in checked.names THEN "none" ELSE "mpp/not-this-pairing"

checked_for(ch, pairing) == Names(check_challenge(ch, TRUE, TRUE), pairing)

(* A fault, or what is found after it.                                      *)
Or(fault, next) == IF fault # "none" THEN fault ELSE next

(* The challenge's snapshot keeps MPP's own members only.                   *)
challenge_snapshot(ch) ==
    [key |-> ch.key, q |-> ch.q, expires |-> ch.expires, shape |-> ch.shape, realm |-> ch.realm,
     request |-> ch.request, opaque |-> ch.opaque, id |-> ch.id,
     size |-> IF ch.size = "padded" THEN "small" ELSE ch.size]

(* A credential's size: its echoed challenge's, with a payload or none.     *)
Within(size, payload) == size = "small" \/ (size = "edge" /\ ~payload)

(* The checks every MPP bound makes first, of the echoed challenge.         *)
challenge_bound(ch, payload) ==
    FirstFault(
        << <<~ch.shape \/ ~ch.id.string \/ ~Within(ch.size, payload), "mpp/credential-malformed">>,
           <<ch.realm = "unencodable", "mpp/challenge-malformed">>,
           <<challenge_id_h(ch) = Absent, "mpp/id-not-ours">>,
           <<ch.opaque.form = "absent", "mpp/opaque-not-this-hash">>,
           <<ch.opaque.form = "bad", "mpp/opaque-malformed">>,
           <<ch.opaque.h # challenge_id_h(ch), "mpp/opaque-not-this-hash">>,
           <<ch.request = "bad", "mpp/request-malformed">> >>, {}).code

KeyOf(pairing) ==
    CASE pairing \in {EVM_CREDENTIAL_TYPES[t] : t \in DOMAIN EVM_CREDENTIAL_TYPES} -> "mpp/charge/evm"
      [] pairing \in {"mpp/charge/tempo/memo", "mpp/charge/tempo/push"} -> "mpp/charge/tempo"
      [] pairing \in {"mpp/charge/usdc/evm", "mpp/charge/usdc/solana", "mpp/charge/usdc/stacks", "mpp/charge/usdc/gateway"} ->
            "mpp/charge/usdc"
      [] OTHER -> pairing

(* The challenge a credential for pairing echoes: the fault, or "none".     *)
held_for(ch, payload, pairing) ==
    Or(challenge_bound(ch, payload),
       IF ch.key # KeyOf(pairing) THEN "mpp/not-this-pairing" ELSE checked_for(ch, pairing))

chosen_held(ch, pairing) == held_for(challenge_snapshot(ch), FALSE, pairing)

chosen_for(ch, h, pairing) ==
    Or(chosen_held(ch, pairing), IF challenge_id_h(ch) # h THEN "mpp/id-not-ours" ELSE "none")

(* ---------------------------------------------------- the networks named *)

TEMPO_V1_DEFAULT_CHAIN == "eip155:4217"
TEMPO_DEFAULT_CHAIN == "eip155:42431"
ChainOf(q) == "eip155:1"

(* A Tempo session without chainId is on Tempo's default chain, on v1 only. *)
V1DefaultNone(ch) == FALSE
V1Default(ch) ==
    ch.key = "mpp/session/tempo" /\ ch.q.m["d.sessionProtocol"] # "v2" /\ ~Has(ch.q, "d.chainId")

(* The chain, escrow and version of an EVM or Tempo session or subscription,*)
(* read without the offer checks.                                           *)
params_of(ch) ==
    LET q == ch.q
        tempo == ch.key = "mpp/session/tempo"
        v2 == tempo /\ q.m["d.sessionProtocol"] = "v2"
        fault == FirstFault(
            << <<ch.key \notin {"mpp/session/evm", "mpp/session/tempo", "mpp/subscription/tempo"}, "mpp/not-this-pairing">>,
               <<ch.request = "bad" \/ ~Opt(q, {"methodDetails"}), "mpp/request-malformed">>,
               <<tempo /\ q.m["d.sessionProtocol"] = "bad", "mpp/session-protocol">>,
               <<v2 /\ ~(Has(q, "d.chainId") /\ Has(q, "d.escrowContract")), "mpp/chain-id-required">>,
               <<~Ok(q, {"d.chainId"}) /\ ~V1Default(ch), "mpp/chain-id-required">>,
               <<ch.key # "mpp/subscription/tempo" /\ ~Ok(q, {"d.escrowContract"}), "mpp/escrow-malformed">> >>, {}).code
    IN  [code |-> fault, network |-> IF V1Default(ch) THEN TEMPO_V1_DEFAULT_CHAIN ELSE ChainOf(q),
         version |-> IF v2 THEN "v2" ELSE "v1"]

ParamsNetwork(params) == IF params.code = "none" THEN params.network ELSE params.code

SolanaNetwork(q) == IF q.m["d.network"] = "localnet" THEN "svm/network-undeclared" ELSE "solana:mainnet"

HederaNetwork(q, default) == IF Has(q, "d.chainId") THEN "hedera:mainnet" ELSE default

(* The network a challenge pays on, or the refusal of one that names none.  *)
network(ch) ==
    LET q == ch.q
        key == ch.key
    IN  Or(check_challenge(ch, TRUE, FALSE).code,
        IF key \in {"mpp/charge/evm", "mpp/charge/tempo"} THEN IF Has(q, "d.chainId") THEN ChainOf(q) ELSE TEMPO_DEFAULT_CHAIN
        ELSE IF key \in {"mpp/session/evm", "mpp/session/tempo", "mpp/subscription/tempo"}
        THEN ParamsNetwork(params_of(ch))
        ELSE IF key \in {"mpp/charge/solana", "mpp/session/solana"} THEN SolanaNetwork(q)
        ELSE IF key \in {"mpp/charge/xrpl", "mpp/session/xrpl"} THEN "xrpl:0"
        ELSE IF key = "mpp/charge/hedera" THEN HederaNetwork(q, "hedera/chain-id-unnamed")
        ELSE IF key = "mpp/session/hedera" THEN HederaNetwork(q, "hedera:mainnet")
        ELSE IF key = "mpp/charge/stellar" THEN "stellar:pubnet"
        ELSE IF key = "mpp/charge/nearintents" THEN "origin:1"
        ELSE IF key = "mpp/charge/usdc" /\ q.m["u.type"] = "evm" THEN ChainOf(q)
        ELSE IF key = "mpp/charge/usdc" /\ q.m["u.type"] = "stacks" THEN "stacks:1"
        ELSE IF key = "mpp/charge/usdc" /\ q.m["u.type"] = "solana" THEN SolanaNetwork(q)
        ELSE "mpp/network-unnamed")

(* ------------------------------------------------------ the buyer's reading *)

agreement_fault(url) == IF url = "other-scheme" THEN "mpp/link-not-https" ELSE "mpp/legal-context-malformed"

IsLink(url) == url \in {"https", "https2"}

Unread == [code |-> "none", h |-> Absent, link |-> "absent", agreement |-> "absent", challenges |-> <<>>,
           notHttps |-> FALSE, malformed |-> FALSE]

(* A challenge of another hash, or another link, than those read before.    *)
ConflictOfHash(r, o) == r.h \notin {Absent, o.h}
Conflict(r, o) == r.h \notin {Absent, o.h} \/ r.link \notin {"absent", o.link}

(* One challenge of a document, read after those before it: passed over, or *)
(* held to the same hash, link and agreement as they are.                   *)
ReadOne(r, ch) ==
    LET o == ch.opaque
        ours == ch.shape /\ o.form = "map" /\ o.h # Absent /\ challenge_id_h(ch) = o.h
    IN  IF r.code # "none" \/ ~ours THEN r
        ELSE IF o.link = "other-scheme" THEN [r EXCEPT !.notHttps = TRUE]
        ELSE IF ~IsLink(o.link) THEN [r EXCEPT !.malformed = TRUE]
        ELSE IF Conflict(r, o) THEN [r EXCEPT !.code = "mpp/legal-context-conflict"]
        ELSE IF o.agreement # "absent" /\ ~IsLink(o.agreement) THEN [r EXCEPT !.code = agreement_fault(o.agreement)]
        ELSE IF o.agreement # "absent" /\ r.agreement \notin {"absent", o.agreement}
        THEN [r EXCEPT !.code = "mpp/legal-context-conflict"]
        ELSE [r EXCEPT !.h = o.h, !.link = o.link, !.challenges = Append(@, ch),
                       !.agreement = IF o.agreement = "absent" THEN @ ELSE o.agreement]

Found(r) ==
    IF r.code # "none" \/ r.h # Absent THEN r
    ELSE [r EXCEPT !.code = IF r.notHttps THEN "mpp/link-not-https"
                            ELSE IF r.malformed THEN "mpp/legal-context-malformed" ELSE "mpp/no-legal-context"]

read(doc) ==
    LET upto[n \in 0..Len(doc)] == IF n = 0 THEN Unread ELSE ReadOne(upto[n - 1], doc[n])
    IN  IF Len(doc) > MAX_CHALLENGES THEN [Unread EXCEPT !.code = "mpp/challenge-malformed"]
        ELSE Found(upto[Len(doc)])
==============================================================================
