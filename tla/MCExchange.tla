------------------------------ MODULE MCExchange ------------------------------
(* Exchange on small times: the gate's constants in proportion, so that the *)
(* request's deadline, the window and the waits all cut each other off.     *)
EXTENDS Exchange

CONSTANTS h1, h2

MCHashes == {h1, h2}
MCTimeouts == {1, 3}
MCRetryAfters == {0, 3}
==============================================================================
