---------------------------- MODULE MCListening ----------------------------
(* Small instances of Listening for TLC. *)
EXTENDS Listening

CONSTANTS l1, l2, l3, t1, t2, s1, s2, s3, k1, k2, k3

\* Logs in blocks 0, 1 and 3; l2 has another topic than the two others.
MCLogHeight == [l \in Logs |-> IF l = l1 THEN 0 ELSE IF l = l2 THEN 1 ELSE 3]
MCLogKey    == [l \in Logs |-> IF l = l2 THEN k2 ELSE k1]

\* The transactions are all in block 1.
MCTxHeight == [t \in Txs |-> 1]

\* s1 and s2 ask for logs, s3 for transactions.
MCSubType == [s \in Subs |-> IF s = s3 THEN "TxEvent" ELSE "LogEvent"]
MCSubKey  == [s \in Subs |-> IF s = s1 THEN k1 ELSE IF s = s2 THEN k2 ELSE k3]
=============================================================================
