----------------------------- MODULE MCSelection -----------------------------
(* Values for model-checking Selection. *)
EXTENDS Selection

MCPairings == <<"p1", "p2", "p3">>
MCHashes == {"h1"}
MCNetworks == {"n1", "n2"}

Option(network, serves, timed, inputs) ==
    [network |-> network, serves |-> serves, timed |-> timed, inputs |-> inputs]

(* Payable, by the second or third pairing; of the third with no public     *)
(* proof; on the other network; with no deadline; with an input missing.    *)
MCOptions ==
    {Option("n1", {"p2", "p3"}, TRUE, TRUE), Option("n1", {"p1"}, TRUE, TRUE), Option("n2", {"p2"}, TRUE, TRUE),
     Option("n1", {"p2"}, FALSE, TRUE), Option("n1", {"p2"}, TRUE, FALSE)}

Context(type, h, camel, snake, agreementCamel, agreementSnake) ==
    [type |-> type, h |-> h, camel |-> camel, snake |-> snake,
     agreementCamel |-> agreementCamel, agreementSnake |-> agreementSnake]

Good == Context("sha256", "h1", "https", Absent, Absent, Absent)

Second == {Absent, Null, "https"}

Contexts ==
    {Absent, Null, Good, [Good EXCEPT !.type = "md5"], [Good EXCEPT !.h = "bad"]}
        \cup {[Good EXCEPT !.camel = a, !.snake = b] : a \in LinkForms, b \in Second}
        \cup {[Good EXCEPT !.agreementCamel = a, !.agreementSnake = b] : a \in LinkForms, b \in Second}

Lists == UNION {[1..n -> MCOptions \cup {Null}] : n \in 0..2}
Payer == Option("n1", {"p2", "p3"}, TRUE, TRUE)
Long == {<<Payer, Payer, Payer>>}
Faulty == {<<Null>>, <<Null, Payer>>}

(* Every list of options under a good context, and every context, version   *)
(* and length with a few lists.                                             *)
MCChallenges ==
    [v2 : {TRUE}, accepts : Lists \cup Long, lc : {Good}]
        \cup [v2 : {TRUE}, accepts : Faulty, lc : Contexts]
        \cup [v2 : {FALSE}, accepts : Faulty \cup {Null}, lc : {Good, Null}]
        \cup [v2 : {TRUE}, accepts : {Null}, lc : {Good, Null}]
==============================================================================
