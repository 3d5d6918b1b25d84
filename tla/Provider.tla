------------------------------ MODULE Provider ------------------------------
(***************************************************************************)
(* The payment provider (FakeProvider): its own journal of charges and     *)
(* refunds, written outside the service's transactions.  Both are kept by  *)
(* idempotency key, so a repeated call gets the first call's outcome.      *)
(* The charge made under key k is itself named k (the code's ch_<id>), and *)
(* the refund of payment k is asked for under key k (refund-<id>).         *)
(***************************************************************************)
EXTENDS PaymentStore

VARIABLES charges,          \* key -> outcome of the charge
          providerRefunds,  \* <<refund key, charge id>> pairs
          down              \* fake_provider_settings.down

providerVars == <<charges, providerRefunds, down>>

ProviderTypeOK ==
  /\ charges \in [Keys -> {"none", "charged", "declined"}]
  /\ providerRefunds \subseteq Keys \X (Keys \cup {None})
  /\ down \in BOOLEAN

ProviderInit ==
  /\ charges = [k \in Keys |-> "none"]
  /\ providerRefunds = {}
  /\ down = FALSE

\* isDown ignores an error of its query, and the call goes on.
seemsUp == ~down \/ "db" \in Faults

\* A call fails at the provider before it does anything.
CallFails == down \/ "db" \in Faults

(* Charge.  "unknown" stands for every error but ErrDeclined: the provider may
   or may not have charged. *)
Charge(k, res) ==
  \/ /\ seemsUp /\ charges[k] = "none"
     /\ \E s \in {"charged", "declined"} :
          /\ charges' = [charges EXCEPT ![k] = s]
          /\ res \in {s} \cup (IF "lost" \in Faults THEN {"unknown"} ELSE {})
     /\ UNCHANGED <<providerRefunds, down>>
  \/ /\ seemsUp /\ charges[k] # "none"
     /\ res = charges[k]
     /\ UNCHANGED providerVars
  \/ CallFails /\ res = "unknown" /\ UNCHANGED providerVars

\* ChargeStatus: what the provider knows of a key.
ChargeStatus(k, res) ==
  /\ \/ seemsUp /\ res = (IF charges[k] = "none" THEN "not_found" ELSE charges[k])
     \/ CallFails /\ res = "error"
  /\ UNCHANGED providerVars

\* Refund of a charge, at most once for each refund key.
ProviderRefund(k, charge, res) ==
  \/ /\ seemsUp
     /\ providerRefunds' = IF \E r \in providerRefunds : r[1] = k
                             THEN providerRefunds
                             ELSE providerRefunds \cup {<<k, charge>>}
     /\ res \in Applied
     /\ UNCHANGED <<charges, down>>
  \/ CallFails /\ res = "err" /\ UNCHANGED providerVars

(* ListCharges: key -> "none", "charged", "declined", or "refunded" for a
   charge some refund names. *)
ListedCharges ==
  [k \in Keys |-> IF charges[k] = "charged" /\ \E r \in providerRefunds : r[2] = k
                    THEN "refunded" ELSE charges[k]]

\* The operator of the stub takes the provider down and up again.
ProviderStops ==
  /\ ~down
  /\ down' = TRUE
  /\ UNCHANGED <<charges, providerRefunds>>

ProviderRecovers ==
  /\ down
  /\ down' = FALSE
  /\ UNCHANGED <<charges, providerRefunds>>

=============================================================================
