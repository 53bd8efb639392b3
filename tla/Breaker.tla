------------------------------ MODULE Breaker ------------------------------
(***************************************************************************)
(* The circuit breaker of the relay channels (pkg/resilience) and, with    *)
(* the same three states, of the platform's billing calls                  *)
(* (pkg/common/billing_breaker.go).  Each method holds the breaker's lock, *)
(* so a method is one step; the calls run between the steps, and the       *)
(* result of a call arrives whenever the call ends, whatever has become of *)
(* the breaker since the call was admitted.                                *)
(*                                                                         *)
(* consecutiveFails is counted up to Threshold, which is all the code      *)
(* compares it with; time.Since(lastFailTime) < timeout is the flag        *)
(* "cooling".                                                              *)
(***************************************************************************)
EXTENDS Integers, FiniteSets

CONSTANTS
    Calls,        \* the goroutines, each makes one call after the other
    Abandoning,   \* those whose call may end with no result recorded
    Threshold

ASSUME CallSets == Abandoning \subseteq Calls
ASSUME Trips == Threshold \in Nat \ {0}

VARIABLES
    state,        \* StateClosed, StateOpen, StateHalfOpen
    fails,        \* consecutiveFails, at most Threshold
    cooling,      \* the timeout since lastFailTime has not elapsed
    call,         \* what each goroutine is doing, and how its call was admitted
    \* History: a call that was admitted before the trip ended after it; the
    \* probe of the current half-open period was abandoned; from now on the
    \* upstream answers every call.
    stale, lost, healed

breakerVars == <<state, fails, cooling, call, stale, lost, healed>>

BreakerTypeOK ==
    /\ state \in {"closed", "open", "halfopen"}
    /\ fails \in 0 .. Threshold
    /\ cooling \in BOOLEAN
    /\ call \in [Calls -> {"idle", "admitted", "probe"}]
    /\ stale \in BOOLEAN /\ lost \in BOOLEAN /\ healed \in BOOLEAN

BreakerInit ==
    /\ state = "closed" /\ fails = 0 /\ cooling = FALSE
    /\ call = [c \in Calls |-> "idle"]
    /\ stale = FALSE /\ lost = FALSE /\ healed = FALSE

InFlight(c) == call[c] # "idle"
Probing == {c \in Calls : call[c] = "probe"}
-----------------------------------------------------------------------------
\* A plausible bug: the half-open state admits calls like the closed one.
AdmitsHalfOpen == state \in {"closed", "halfopen"}
AdmitsCall == state = "closed"

\* A plausible bug: the timeout is never looked at.
NeverProbes == FALSE
AdmitsProbe == state = "open" /\ ~cooling

\* A plausible bug: the call that opens the half-open state is refused itself.
ProbeRefused(c) == UNCHANGED call
ProbeStarts(c) == call' = [call EXCEPT ![c] = "probe"]

\* allow: every call passes when closed; when open, the first one after the
\* timeout becomes the probe.
Allow(c) ==
    /\ call[c] = "idle"
    /\ \/ /\ AdmitsCall
          /\ call' = [call EXCEPT ![c] = IF state = "closed" THEN "admitted" ELSE "probe"]
          /\ UNCHANGED <<state, lost>>
       \/ /\ AdmitsProbe
          /\ state' = "halfopen"
          /\ ProbeStarts(c)
          /\ lost' = FALSE
    /\ UNCHANGED <<fails, cooling, stale, healed>>

\* allow returns false.
Reject(c) ==
    /\ call[c] = "idle"
    /\ ~AdmitsCall /\ ~AdmitsProbe
    /\ UNCHANGED breakerVars

\* The bookkeeping of a result: it is stale when the call was not the probe
\* and the breaker has tripped since.
Ends(c) ==
    /\ InFlight(c)
    /\ call' = [call EXCEPT ![c] = "idle"]
    /\ stale' = (stale \/ (state # "closed" /\ call[c] # "probe"))

ResetFails == fails' = 0

RecordSuccess(c) ==
    /\ Ends(c)
    /\ ResetFails
    /\ state' = "closed"
    /\ UNCHANGED <<cooling, lost, healed>>

RecordFailure(c) ==
    /\ ~healed
    /\ Ends(c)
    /\ fails' = IF fails < Threshold THEN fails + 1 ELSE fails
    /\ cooling' = TRUE
    /\ state' = CASE state = "closed" -> IF fails + 1 >= Threshold THEN "open" ELSE "closed"
                  [] state = "halfopen" -> "open"
                  [] state = "open" -> "open"
    /\ UNCHANGED <<lost, healed>>

\* The relay leaves between Allow and the result: the body cannot be read
\* again, or a handler panics.
Abandon(c) ==
    /\ c \in Abandoning /\ InFlight(c)
    /\ call' = [call EXCEPT ![c] = "idle"]
    /\ lost' = (lost \/ call[c] = "probe")
    /\ UNCHANGED <<state, fails, cooling, stale, healed>>

TimeoutElapses ==
    /\ cooling
    /\ cooling' = FALSE
    /\ UNCHANGED <<state, fails, call, stale, lost, healed>>

\* From now on every call succeeds.
Heal ==
    /\ ~healed
    /\ healed' = TRUE
    /\ UNCHANGED <<state, fails, cooling, call, stale, lost>>

BreakerNext ==
    \/ \E c \in Calls :
          Allow(c) \/ Reject(c) \/ RecordSuccess(c) \/ RecordFailure(c) \/ Abandon(c)
    \/ TimeoutElapses
    \/ Heal

\* Calls go on arriving and every call ends; time passes.
BreakerFairness ==
    /\ WF_breakerVars(\E c \in Calls : Allow(c))
    /\ \A c \in Calls : WF_breakerVars(RecordSuccess(c) \/ RecordFailure(c))
    /\ WF_breakerVars(TimeoutElapses)

BreakerSpec == BreakerInit /\ [][BreakerNext]_breakerVars
BreakerFairSpec == BreakerSpec /\ BreakerFairness
-----------------------------------------------------------------------------
\* The breaker is closed exactly while fewer than Threshold failures have been
\* recorded since the last success, whatever results came late.
CountMatchesState == state = "closed" <=> fails < Threshold

\* A half-open breaker waits for a call that is in flight; with none, and no
\* timeout in that state, it would refuse the channel for ever.
HalfOpenHasProbe == state = "halfopen" => Probing # {} \/ lost

\* Two probes run at once only after the late result of a call admitted before the trip.
OneProbeUnlessStale == ~stale => Cardinality(Probing) <= 1

\* Once the upstream answers again the breaker closes, unless its probe was abandoned.
Recovers == healed ~> state = "closed" \/ (state = "halfopen" /\ lost)
=============================================================================
