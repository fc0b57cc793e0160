------------------------------ MODULE MCTxPool ------------------------------
(* Two senders; Alice has competing transactions for a nonce.               *)
EXTENDS TxPool

CONSTANTS Alice, Bob

MCAddrs == {Alice, Bob}

MCTxs ==
         [from : {Alice}, nonce : 0..2, price : {1, 2}, ok : {TRUE}]
    \cup [from : {Bob}, nonce : {0, 1}, price : {2}, ok : {TRUE}]
    \cup [from : {Bob}, nonce : {1}, price : {1}, ok : {FALSE}]
=============================================================================
