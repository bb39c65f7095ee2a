------------------------------ MODULE Signing ------------------------------
(***************************************************************************)
(* SendContractTransaction (utils/main.go) with a KMS key (sign.go), by    *)
(* several senders at a time, beside the pushers of Metrics: fn is called  *)
(* once to estimate and sign without sending, and once, with the gas       *)
(* limit raised by a ratio, to sign and send.  Products are uint64: they   *)
(* wrap at Word.  Signatures and transactions are left out.                *)
(***************************************************************************)
EXTENDS Metrics

CONSTANTS
  Senders,
  Estimates,   \* what the node may estimate
  Ratios,      \* gasLimitBumpRatio
  Percentage,  \* 100 in the code
  Word         \* 2^64

ASSUME SigningAssumption ==
  /\ Estimates \subseteq Nat \ {0} /\ Ratios \subseteq Nat
  /\ Percentage \in Nat \ {0} /\ Word \in Nat \ {0} /\ Estimates \subseteq 1..(Word - 1)

VARIABLES
  sender,      \* where each sender is
  ratio,       \* its gasLimitBumpRatio
  estimate,    \* the node's estimate its limit comes from
  gasLimit     \* of the transaction sent

signingVars == <<metricsVars, sender, ratio, estimate, gasLimit>>
-----------------------------------------------------------------------------
\* Variant: divided first.
RaisedByWhole(gas, r) == (gas \div Percentage) * r % Word

\* tx.Gas() * gasLimitBumpRatio / Percentage
Raised(gas, r) == (gas * r % Word) \div Percentage

\* newKeyedTransactorWithChainID, and fn(opts) with NoSend: the gas is estimated
\* and the transaction signed.
Estimate(s) ==
  /\ sender[s] = "idle"
  /\ \E g \in Estimates, r \in Ratios :
       /\ estimate' = [estimate EXCEPT ![s] = g]
       /\ ratio' = [ratio EXCEPT ![s] = r]
       /\ gasLimit' = [gasLimit EXCEPT ![s] = Raised(g, r)]
  /\ sender' = [sender EXCEPT ![s] = "estimated"]
  /\ SignSucceeds(counted["kms_success"] + 1)

\* fn(opts) with GasLimit: a limit of 0 makes fn estimate again.
Send(s) ==
  /\ sender[s] = "estimated"
  /\ \/ gasLimit[s] > 0 /\ UNCHANGED <<estimate, gasLimit>>
     \/ /\ gasLimit[s] = 0
        /\ \E g \in Estimates : /\ estimate' = [estimate EXCEPT ![s] = g]
                                /\ gasLimit' = [gasLimit EXCEPT ![s] = g]
  /\ sender' = [sender EXCEPT ![s] = "sent"]
  /\ SignSucceeds(counted["kms_success"] + 1)
  /\ UNCHANGED ratio

\* SendContractTransaction returns an error, and its variables are gone.
Return(s) ==
  /\ sender' = [sender EXCEPT ![s] = "failed"] /\ ratio' = [ratio EXCEPT ![s] = 0]
  /\ estimate' = [estimate EXCEPT ![s] = 0] /\ gasLimit' = [gasLimit EXCEPT ![s] = 0]

\* The key's server denies the request, or it fails: fn's error is returned.
SignRefused(s) ==
  /\ sender[s] \in {"idle", "estimated"}
  /\ Return(s)
  /\ \E name \in {"kms_failure_internal", "kms_failure_network"} : SignFails(name)

\* The node fails, before the signing or after it.
NodeFails(s) ==
  /\ sender[s] \in {"idle", "estimated"}
  /\ Return(s)
  /\ UNCHANGED metricsVars \/ SignSucceeds(counted["kms_success"] + 1)
-----------------------------------------------------------------------------
Init ==
  /\ MetricsInit
  /\ sender = [s \in Senders |-> "idle"] /\ ratio = [s \in Senders |-> 0]
  /\ estimate = [s \in Senders |-> 0] /\ gasLimit = [s \in Senders |-> 0]

Next ==
  \/ MetricsStep /\ UNCHANGED <<sender, ratio, estimate, gasLimit>>
  \/ \E s \in Senders : Estimate(s) \/ Send(s) \/ SignRefused(s) \/ NodeFails(s)

Spec == Init /\ [][Next]_signingVars

\* The construction and the pushers' tickers go on; pushes fail by the budget only.
FairSpec ==
  /\ Spec
  /\ WF_signingVars((SetPusher \/ RegisterNames)
                    /\ UNCHANGED <<sender, ratio, estimate, gasLimit>>)
  /\ \A p \in 1..3 : WF_signingVars(p <= Global /\ Push(p)
                                    /\ UNCHANGED <<sender, ratio, estimate, gasLimit>>)
-----------------------------------------------------------------------------
(* Properties *)

\* Types, those of the metrics among them.
TypeOK ==
  /\ MetricsTypeOK
  /\ sender \in [Senders -> {"idle", "estimated", "sent", "failed"}]
  /\ ratio \in [Senders -> Ratios \cup {0}]
  /\ estimate \in [Senders -> Estimates \cup {0}]
  /\ gasLimit \in [Senders -> 0..(Word - 1)]

\* A transaction is sent with less gas than was estimated for it only if the
\* ratio says so, or the product has wrapped around (utils/main.go:202).
SentWithEnoughGas ==
  \A s \in Senders : sender[s] = "sent" /\ gasLimit[s] < estimate[s] =>
    ratio[s] < Percentage \/ estimate[s] * ratio[s] >= Word
=============================================================================
