------------------------------- MODULE MCServer -------------------------------
(* Server with one x402 batch channel, and an option that has no channel,   *)
(* offered with an agreement, and by a seller whose link serves other bytes.*)
EXTENDS Server

CONSTANTS batch, plain, h1, h2, url, other, s1

MCChannels == {batch}
MCSessions == {}
MCHashes == {h1, h2}
MCHashOf == [c \in MCChannels |-> h1]
MCPrices == {1}
MCSlots == {s1}
MCOptions == {batch, plain}
MCOptionOf == [c \in MCChannels |-> c]
MCUrls == {url, other}
ChannelOffers == {[option |-> batch, agreement |-> NoUrl, h |-> h1, served |-> h1]}
AgreementOffers ==
    ChannelOffers \cup {[option |-> plain, agreement |-> url, h |-> h1, served |-> h1],
                       [option |-> plain, agreement |-> other, h |-> h2, served |-> h1]}
==============================================================================
