------------------------------ MODULE MCChannels ------------------------------
(* Channels with one x402 batch channel and one MPP session, each under its *)
(* own ATR.                                                                 *)
EXTENDS Channels

CONSTANTS batch, session, h1, h2, s1, s2

MCChannels == {batch, session}
MCSessions == {session}
MCHashes == {h1, h2}
MCHashOf == [c \in MCChannels |-> IF c = batch THEN h1 ELSE h2]
MCPrices == {0, 2}
MCSlots == {s1, s2}
==============================================================================
