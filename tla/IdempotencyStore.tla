-------------------------- MODULE IdempotencyStore --------------------------
(***************************************************************************)
(* The table payment_requests and IdempotencyRepo: who may execute the     *)
(* request made under a key, and the answer stored for its repetitions.    *)
(* The request's fingerprint (method, path, body) is abstracted to the     *)
(* order its path names.                                                   *)
(***************************************************************************)
EXTENDS PaymentStore

CONSTANT KeysExpire   \* whether the 24 h life of a key ends within the model

ASSUME KeysExpireAssumption == KeysExpire \in BOOLEAN

VARIABLE requests

\* Answers that are stored; every answer of 500 and above is "5xx".
StoredCodes == {"200", "402", "404", "409"}
Codes == StoredCodes \cup {"5xx"}

Request == [status : {"absent", "in_progress", "completed"}, hash : Orders \cup {None},
            code : StoredCodes \cup {None}, locked : BOOLEAN, expired : BOOLEAN]

IdempotencyTypeOK == requests \in [Keys -> Request]

IdempotencyInit ==
  requests = [k \in Keys |-> [status |-> "absent", hash |-> None, code |-> None,
                              locked |-> FALSE, expired |-> FALSE]]

(* Claim makes its caller the owner of key k: a new key, a key past its life,
   or a request of the same fingerprint whose lease ran out with no answer.
   Otherwise Claim changes nothing and answers 422, 409 or the stored code. *)
Claimable(k, hash) ==
  \/ requests[k].status = "absent"
  \/ requests[k].expired
  \/ requests[k].hash = hash /\ requests[k].status = "in_progress" /\ ~requests[k].locked

Claim(k, hash) ==
  /\ Claimable(k, hash)
  /\ requests' = [requests EXCEPT ![k] =
       [status |-> "in_progress", hash |-> hash, code |-> None, locked |-> TRUE, expired |-> FALSE]]

\* Complete stores the answer, whoever calls it.
Complete(k, code) ==
  requests' = [requests EXCEPT ![k] = [@ EXCEPT !.status = "completed", !.code = code]]

\* Release gives the lease back unless an answer is stored.
Release(k) ==
  requests' = IF requests[k].status = "in_progress"
                THEN [requests EXCEPT ![k].locked = FALSE] ELSE requests

\* locked_until and expires_at pass.
LeaseEnds(k) ==
  /\ requests[k].status = "in_progress" /\ requests[k].locked
  /\ requests' = [requests EXCEPT ![k].locked = FALSE]

KeyEnds(k) ==
  /\ KeysExpire /\ requests[k].status # "absent" /\ ~requests[k].expired
  /\ requests' = [requests EXCEPT ![k] = [@ EXCEPT !.expired = TRUE, !.locked = FALSE]]

=============================================================================
