------------------------------ MODULE MCLedger ------------------------------
(* Two accounts and the zero address, amounts small enough to run out.      *)
EXTENDS Ledger, TLC

CONSTANTS Alice, Bob, Zero

MCAddrs == {Alice, Bob, Zero}
MCGenesisBalance ==
    [k \in Kinds |-> (Alice :> (IF k = "APT" THEN 5 ELSE 3)) @@ (Bob :> 1) @@ (Zero :> 0)]
MCGenesisPool == [k \in Kinds |-> IF k = "APT" THEN 3 ELSE 4]
MCBlockReward == [k \in Kinds |-> IF k = "APT" THEN 3 ELSE 1]
MCTypeGas == [t \in Types |-> IF t \in {"swap", "stake"} THEN 1 ELSE 0]

\* Fields that a transaction's type ignores have one value.
MCTxs ==
    LET Tx(type, from, to, amount, kind, gl, gp, data, ok) ==
            [type : type, from : from, to : to, amount : amount,
             kind : kind, nonce : 0..(MaxNonce - 1), gasLimit : gl,
             gasPrice : gp, data : data, chainOK : ok]
        Both == {Alice, Bob}
    IN  Tx({"transferAPT", "transferNPT"}, Both, {Bob}, {2}, Kinds, {2}, {1}, {"none"}, {TRUE})
        \cup Tx({"transferAPT"}, {Alice}, {Bob}, {0}, {"APT"}, {1}, {1}, {"none"}, {TRUE})
        \cup Tx({"transferNPT"}, {Alice}, {Zero}, {1}, {"NPT"}, {1}, {1}, {"none"}, {TRUE})
        \cup Tx({"swap"}, {Alice}, {Zero}, {2, 3}, {"APT"}, {3}, {1}, {"0x01", "0x02"}, {TRUE})
        \cup Tx({"swap"}, {Alice}, {Zero}, {2}, {"APT"}, {2}, {2}, {"none", "bad"}, {TRUE})
        \cup Tx({"burn"}, {Alice}, {Zero}, {1}, Kinds, {1}, {0, 2}, {"none"}, {TRUE})
        \cup Tx({"stake"}, {Bob}, {Zero}, {1}, {"NPT"}, {2}, {0}, {"none"}, {TRUE})
        \cup Tx({"other"}, {Alice}, {Zero}, {0}, {"APT"}, {2}, {2}, {"none"}, BOOLEAN)
=============================================================================
