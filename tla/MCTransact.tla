------------------------------ MODULE MCTransact ------------------------------
(* Transact with one pairing of each kind the gate serves. *)
EXTENDS Transact

CONSTANTS h1, h2, u1, u2

Kinds(publicProof, place, moves, steps) ==
    [publicProof |-> publicProof, place |-> place, moves |-> moves, turns |-> FALSE, nothing |-> FALSE,
     steps |-> steps]

MCPairings ==
    { Kinds(TRUE, TRUE, FALSE, 1),      \* x402/exact/eip155/eip3009
      Kinds(TRUE, TRUE, TRUE, 1),       \* an MPP charge the signer broadcasts
      \* mpp/session/evm with the credential type its challenge lists first: hash, or authorization
      [Kinds(TRUE, TRUE, TRUE, 2) EXCEPT !.turns = TRUE],
      [Kinds(TRUE, TRUE, FALSE, 2) EXCEPT !.turns = TRUE],
      Kinds(FALSE, FALSE, TRUE, 1),     \* lightning
      Kinds(FALSE, TRUE, FALSE, 1),     \* AP2's checkout mandate
      Kinds(FALSE, FALSE, FALSE, 0),    \* x402/batch-settlement/cloudflare
      [Kinds(FALSE, FALSE, FALSE, 0) EXCEPT !.nothing = TRUE] }     \* UCP

MCHashes == {h1, h2}
MCUrls == {u1, u2}
MCRefusals == {"no-payable-option"}
MCFetchFaults == {"atr-unfetchable"}
==============================================================================
