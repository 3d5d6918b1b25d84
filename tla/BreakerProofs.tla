--------------------------- MODULE BreakerProofs ---------------------------
(* Breaker for any number of concurrent calls and any threshold. *)
EXTENDS Breaker, TLAPS

(* Failures are counted only while the breaker is closed, and a row that is
   counted was reported in a row. *)
CountInv == /\ state # "closed" => failures = 0
            /\ failures <= streak

BreakerInv == BreakerTypeOK /\ ProbeUnderWay /\ CountInv

\* The initial state satisfies the invariant.
LEMMA BreakerInvInit == BreakerInit => BreakerInv
  <1> SUFFICES ASSUME BreakerInit PROVE BreakerInv
    OBVIOUS
  <1>1. failures \in 0..(Threshold - 1) /\ streak \in 0..Threshold /\ CountInv
    BY BreakerAssumption DEF BreakerInit, CountInv
  <1>2. probing \in BOOLEAN /\ cooled \in BOOLEAN /\ outlived \in BOOLEAN /\ ProbeUnderWay
    BY DEF BreakerInit, ProbeUnderWay
  <1>3. call \in [Callers -> {"idle", "normal", "probe"}] /\ state \in {"closed", "open", "half_open"}
    BY DEF BreakerInit
  <1> QED
    BY <1>1, <1>2, <1>3 DEF BreakerInv, BreakerTypeOK

\* Allow keeps the invariant: it turns an open breaker half open with a probe.
LEMMA AllowKeeps ==
  ASSUME BreakerInv, NEW c \in Callers, Allow(c)
  PROVE  BreakerInv'
  <1> USE BreakerAssumption DEF BreakerInv
  <1>1. BreakerTypeOK'
    BY DEF BreakerTypeOK, Allow
  <1>2. ProbeUnderWay'
    <2>1. CASE state = "closed"
      BY <2>1 DEF BreakerTypeOK, Allow, Allowed, ProbeUnderWay
    <2>2. CASE state # "closed"
      <3>1. state = "open"
        BY <2>2 DEF BreakerTypeOK, Allow, Allowed, ProbeUnderWay
      <3>2. call'[c] = "probe" /\ probing' /\ state' = "half_open"
        BY <3>1 DEF BreakerTypeOK, Allow
      <3> QED
        BY <3>2 DEF ProbeUnderWay
    <2> QED
      BY <2>1, <2>2
  <1>3. CountInv'
    BY DEF BreakerTypeOK, Allow, CountInv
  <1> QED
    BY <1>1, <1>2, <1>3

\* Done keeps the invariant: a half-open breaker is decided by whatever result comes.
LEMMA DoneKeeps ==
  ASSUME BreakerInv, NEW c \in Callers, NEW success \in BOOLEAN, Done(c, success)
  PROVE  BreakerInv'
  <1> USE BreakerAssumption DEF BreakerInv
  <1>1. /\ streak' \in 0..Threshold /\ outlived' \in BOOLEAN
        /\ call' \in [Callers -> {"idle", "normal", "probe"}]
    BY DEF BreakerTypeOK, Done
  <1>2. CASE state = "closed"
    <2>1. doneClosed(success)
      BY <1>2 DEF Done
    <2>2. BreakerTypeOK'
      <3>1. failures' \in 0..(Threshold - 1)
        BY <2>1 DEF doneClosed, trip, BreakerTypeOK
      <3>2. probing' \in BOOLEAN /\ cooled' \in BOOLEAN /\ state' \in {"closed", "open", "half_open"}
        BY <1>2, <2>1 DEF doneClosed, trip, BreakerTypeOK
      <3> QED
        BY <1>1, <3>1, <3>2 DEF BreakerTypeOK
    <2>3. ProbeUnderWay'
      BY <1>2, <2>1 DEF doneClosed, trip, BreakerTypeOK, ProbeUnderWay
    <2>4. CountInv'
      BY <1>2, <2>1 DEF doneClosed, trip, Done, BreakerTypeOK, CountInv
    <2> QED
      BY <2>2, <2>3, <2>4
  <1>3. CASE state = "half_open"
    <2>1. doneHalfOpen(success)
      BY <1>3 DEF Done
    <2>2. BreakerTypeOK'
      <3>1. failures' \in 0..(Threshold - 1)
        BY <2>1 DEF doneHalfOpen, trip
      <3>2. probing' \in BOOLEAN /\ cooled' \in BOOLEAN /\ state' \in {"closed", "open", "half_open"}
        BY <2>1 DEF doneHalfOpen, trip, BreakerTypeOK
      <3> QED
        BY <1>1, <3>1, <3>2 DEF BreakerTypeOK
    <2>3. ProbeUnderWay'
      BY <2>1 DEF doneHalfOpen, trip, BreakerTypeOK, ProbeUnderWay
    <2>4. CountInv'
      BY <1>1, <2>1 DEF doneHalfOpen, trip, CountInv
    <2> QED
      BY <2>2, <2>3, <2>4
  <1>4. CASE state = "open"
    <2>1. UNCHANGED <<state, failures, probing, cooled>>
      BY <1>4 DEF Done
    <2>2. BreakerTypeOK' /\ ProbeUnderWay'
      BY <1>1, <1>4, <2>1 DEF BreakerTypeOK, ProbeUnderWay
    <2>3. CountInv'
      BY <1>1, <1>4, <2>1 DEF BreakerTypeOK, CountInv
    <2> QED
      BY <2>2, <2>3
  <1> QED
    BY <1>2, <1>3, <1>4 DEF BreakerTypeOK

\* Every step keeps the invariant.
LEMMA BreakerInvStep == BreakerInv /\ [BreakerNext]_breakerVars => BreakerInv'
  <1> SUFFICES ASSUME BreakerInv, [BreakerNext]_breakerVars PROVE BreakerInv'
    OBVIOUS
  <1>1. CASE UNCHANGED breakerVars
    BY <1>1 DEF breakerVars, BreakerInv, BreakerTypeOK, ProbeUnderWay, CountInv
  <1>2. CASE Cools
    BY <1>2 DEF Cools, BreakerInv, BreakerTypeOK, ProbeUnderWay, CountInv
  <1>3. CASE \E c \in Callers : Allow(c)
    BY <1>3, AllowKeeps
  <1>4. CASE \E c \in Callers, success \in BOOLEAN : Done(c, success)
    BY <1>4, DoneKeeps
  <1> QED
    BY <1>1, <1>2, <1>3, <1>4 DEF BreakerNext

(* Types, and a half-open breaker always has a probe that will report to it:
   Allow and Done never leave it waiting for nobody. *)
THEOREM BreakerCorrect == BreakerSpec => [](BreakerTypeOK /\ ProbeUnderWay)
  <1>1. BreakerInv => BreakerTypeOK /\ ProbeUnderWay
    BY DEF BreakerInv
  <1> QED
    BY <1>1, BreakerInvInit, BreakerInvStep, PTL DEF BreakerSpec

\* The step that opens a closed breaker is the last of Threshold failures in a row.
LEMMA OpeningStep ==
  BreakerInv /\ [BreakerNext]_breakerVars
    => [state = "closed" /\ state' = "open" => streak' = Threshold]_breakerVars
  <1> SUFFICES ASSUME BreakerInv, BreakerNext, state = "closed", state' = "open"
               PROVE  streak' = Threshold
    BY DEF breakerVars
  <1>1. PICK c \in Callers, success \in BOOLEAN : Done(c, success)
    BY DEF BreakerNext, Cools, Allow
  <1>2. doneClosed(success)
    BY <1>1 DEF Done
  <1>3. ~success /\ failures + 1 >= Threshold
    BY <1>2 DEF doneClosed
  <1> QED
    BY <1>1, <1>3, BreakerAssumption DEF Done, BreakerInv, BreakerTypeOK, CountInv

(* The breaker opens only on Threshold failures in a row, whatever calls
   overlap: doneClosed and the reset on success. *)
THEOREM OpensOnRow == BreakerSpec => OpensAfterRow
  BY BreakerInvInit, BreakerInvStep, OpeningStep, PTL DEF BreakerSpec, OpensAfterRow

-----------------------------------------------------------------------------
(* While no call has outlived openFor nothing that began before is left when the
   breaker may be probed, so the only call of a half-open breaker is its probe. *)
AloneInv ==
  /\ state # "half_open" => \A c \in Callers : call[c] # "probe"
  /\ state = "open" /\ cooled => \A c \in Callers : call[c] = "idle"
  /\ state = "half_open" => \A c, d \in Callers : call[c] # "idle" /\ call[d] # "idle" => c = d

QuickInv == outlived \/ AloneInv

\* Each step keeps the probe alone.
LEMMA AloneStep ==
  ASSUME BreakerInv, QuickInv, [BreakerNext]_breakerVars
  PROVE  QuickInv'
  <1> SUFFICES ASSUME ~outlived' PROVE AloneInv'
    BY DEF QuickInv
  <1>0. ~outlived
    BY DEF breakerVars, BreakerNext, Cools, Allow, Done
  <1>5. AloneInv
    BY <1>0 DEF QuickInv
  <1> USE DEF BreakerInv
  <1>1. CASE UNCHANGED breakerVars
    BY <1>1, <1>5 DEF breakerVars, AloneInv
  <1>2. CASE Cools
    BY <1>2, <1>5 DEF Cools, AloneInv
  <1>3. ASSUME NEW c \in Callers, Allow(c) PROVE AloneInv'
    <2>1. CASE state = "closed"
      BY <1>5, <1>3, <2>1 DEF Allow, AloneInv, BreakerTypeOK
    <2>2. CASE state # "closed"
      <3>1. state = "open" /\ cooled
        BY <1>5, <1>3, <2>2 DEF Allow, Allowed, BreakerTypeOK, ProbeUnderWay
      <3>2. state' = "half_open" /\ \A d \in Callers \ {c} : call'[d] = "idle"
        BY <1>5, <1>3, <3>1 DEF Allow, AloneInv, BreakerTypeOK
      <3> QED
        BY <3>2 DEF AloneInv
    <2> QED
      BY <2>1, <2>2
  <1>4. ASSUME NEW c \in Callers, NEW success \in BOOLEAN, Done(c, success) PROVE AloneInv'
    <2>1. call'[c] = "idle" /\ \A d \in Callers \ {c} : call'[d] = call[d]
      BY <1>5, <1>4 DEF Done, BreakerTypeOK
    <2>2. CASE state = "closed"
      BY <1>5, <1>4, <2>1, <2>2 DEF Done, doneClosed, trip, AloneInv, BreakerTypeOK
    <2>3. CASE state = "half_open"
      <3>1. state' # "half_open"
        BY <1>5, <1>4, <2>3 DEF Done, doneHalfOpen, trip
      <3>2. \A d \in Callers : call'[d] = "idle"
        BY <1>5, <1>4, <2>1, <2>3 DEF Done, AloneInv
      <3> QED
        BY <3>1, <3>2 DEF AloneInv
    <2>4. CASE state = "open"
      BY <1>5, <1>4, <2>1, <2>4 DEF Done, AloneInv
    <2> QED
      BY <2>2, <2>3, <2>4 DEF BreakerTypeOK
  <1> QED
    BY <1>1, <1>2, <1>3, <1>4 DEF BreakerNext

(* However calls overlap, half open lets a second probe through only after some
   call outlived openFor; the client's timeouts keep calls shorter than that. *)
THEOREM QuickCallsOneProbe == BreakerSpec => []OneProbe
  <1>1. BreakerInit => QuickInv
    BY DEF BreakerInit, QuickInv, AloneInv
  <1>2. BreakerInv /\ QuickInv /\ [BreakerNext]_breakerVars => QuickInv'
    BY AloneStep
  <1>3. QuickInv => OneProbe
    BY DEF QuickInv, AloneInv, OneProbe
  <1> QED
    BY <1>1, <1>2, <1>3, BreakerInvInit, BreakerInvStep, PTL DEF BreakerSpec

=============================================================================
