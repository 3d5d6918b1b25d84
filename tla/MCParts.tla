------------------------------ MODULE MCParts ------------------------------
(* The parts of the service that do not touch each other's state, side by
   side: a behaviour is a behaviour of one of them, the others stay as they
   began. *)
EXTENDS OrderEvents, Breaker, ProductCache, OrderListing, Pod, TLC

CONSTANTS p1, p2, rd1, rd2, w1, w2

VARIABLE part

partsVars == <<part, eventVars, breakerVars, cacheVars, listingVars, podVars>>

\* Both readers are where the cancellation is; the creation invalidates another replica.
MCPodOf == (rd1 :> p1) @@ (rd2 :> p1) @@ (w1 :> p2) @@ (w2 :> p1)

PartsInit ==
  /\ part \in {"events", "breaker", "cache", "listing", "pod"}
  /\ EventsInit /\ BreakerInit /\ CacheInit /\ ListingInit /\ PodInit
  /\ part # "pod" => postgres /\ redis /\ schema

EventsPart  == /\ part = "events" /\ EventsNext
               /\ UNCHANGED <<part, breakerVars, cacheVars, listingVars, podVars>>
BreakerPart == /\ part = "breaker" /\ BreakerNext
               /\ UNCHANGED <<part, eventVars, cacheVars, listingVars, podVars>>
CachePart   == /\ part = "cache" /\ CacheNext
               /\ UNCHANGED <<part, eventVars, breakerVars, listingVars, podVars>>
ListingPart == /\ part = "listing" /\ ListingNext
               /\ UNCHANGED <<part, eventVars, breakerVars, cacheVars, podVars>>
PodPart     == /\ part = "pod" /\ PodNext
               /\ UNCHANGED <<part, eventVars, breakerVars, cacheVars, listingVars>>

PartsNext == EventsPart \/ BreakerPart \/ CachePart \/ ListingPart \/ PodPart

\* Each part's fairness; where another part runs, its actions change nothing from the start on.
PartsSpec == /\ PartsInit /\ [][PartsNext]_partsVars
             /\ EventsFairness /\ CallsEnd /\ PodFairness
=============================================================================
