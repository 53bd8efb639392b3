---------------------------- MODULE ChannelSelect ----------------------------
(***************************************************************************)
(* How a request finds its channels: Distribute selects the first one, and *)
(* the retry loop of Relay selects another one after every failure, from   *)
(* the list of enabled channels in the memory of the pod.  The list and    *)
(* the scores the weights are adjusted by change under the request: other  *)
(* requests fail or succeed, channels are disabled, the ticker reads the   *)
(* channels again.  The answer of a circuit breaker is any answer.         *)
(*                                                                         *)
(* A request with the group "auto" walks through AutoGroups; idx is the    *)
(* position ContextKeyAutoGroupIndex holds, counted from 1.                *)
(***************************************************************************)
EXTENDS Integers, Sequences, FiniteSets, FiniteSetsExt, Functions

CONSTANTS
    Channels,
    AutoGroups,              \* the user's auto groups, a sequence
    GroupsOf, Priority,      \* of every channel: its groups, its priority,
    Weight,                  \* its weight
    TokenGroup, UserGroup,   \* the group of the token, and of its user
    RetryTimes,
    MaxEvents                \* what happens to scores and list meanwhile

None == "none"

ASSUME SelectSets ==
    /\ IsFiniteSet(Channels) /\ None \notin Channels /\ None \notin Range(AutoGroups)
    /\ Priority \in [Channels -> Int] /\ Weight \in [Channels -> Nat]
    /\ Len(AutoGroups) \in Nat \ {0}
    /\ RetryTimes \in Nat /\ MaxEvents \in Nat

VARIABLES
    listed,           \* group2model2channels: the channels that are enabled
    stats,            \* ChannelScorer: the outcomes of every channel
    req,              \* the request: its context, and the loop in Relay
    events,
    changed, refused  \* history: of the list since the last selection, and whether
                      \* the breaker of the first channel refused

env  == <<listed, stats, events>>
vars == <<env, req, changed, refused>>

Kinds  == {"auto", "cross", "group", "playground", "specific"}
IsAuto == req.kind \in {"auto", "cross"}

NoStats == [ok |-> 0, bad |-> 0, quick |-> TRUE]

Init ==
    /\ listed = Channels
    /\ stats = [c \in Channels |-> NoStats]
    /\ req \in [kind : Kinds, pc : {"new"}, chan : {None}, idx : {1}, retry : {0}, reset : {FALSE},
                auto : {None}, billed : {None}, meta : {FALSE}, rounds : {0}]
    /\ events = 0 /\ changed = FALSE /\ refused = FALSE

-----------------------------------------------------------------------------
(* Scores (channel_scorer.go) and weights (smart_routing.go), in percent.   *)

Scored(c) == stats[c].ok + stats[c].bad > 0

Score(c) ==
    (IF stats[c].quick THEN 30 ELSE 0) + (50 * stats[c].ok) \div (stats[c].ok + stats[c].bad) + 20

AtLeastOne(w) == IF w < 1 THEN 1 ELSE w

AdjustedWeight(c) ==
    IF Scored(c) THEN AtLeastOne((Weight[c] * (50 + Score(c))) \div 100) ELSE Weight[c]

\* AdjustWeights has nothing to say when no channel has a score.
Adjusts(cs) == \E c \in cs : Scored(c)
Effective(cs) == [c \in cs |-> IF Adjusts(cs) THEN AdjustedWeight(c) ELSE Weight[c]]

Added(f, cs) == MapThenSumSet(LAMBDA c : f[c], cs)

\* Mutant of SumWeight: the sum is not computed again from the adjusted weights.
StaleSum(cs) == Added(Weight, cs)

SumWeight(cs) == Added(Effective(cs), cs)

\* The random number is below Total; each channel takes its share from it.
Smoothing(cs) == IF SumWeight(cs) \div Cardinality(cs) < 10 THEN 100 ELSE 1
Total(cs) == IF SumWeight(cs) = 0 THEN Cardinality(cs) * 100 ELSE SumWeight(cs) * Smoothing(cs)
Share(cs) == [c \in cs |-> IF SumWeight(cs) = 0 THEN 100 ELSE Effective(cs)[c] * Smoothing(cs)]

\* What it can lead to: a channel, or the end of the list.
Picks(cs) ==
    {c \in cs : Share(cs)[c] > 0} \cup (IF Added(Share(cs), cs) < Total(cs) THEN {None} ELSE {})

-----------------------------------------------------------------------------
(* GetRandomSatisfiedChannel and CacheGetRandomSatisfiedChannel.            *)

Candidates(g) == {c \in listed : g \in GroupsOf[c]}
Priorities(g) == {Priority[c] : c \in Candidates(g)}

\* Mutant of Level: a retry beyond the last priority begins again at the first.
LevelAround(g, retry) == retry % Cardinality(Priorities(g))

Level(g, retry) == Min({retry, Cardinality(Priorities(g)) - 1})

TargetPriority(g, retry) ==
    CHOOSE p \in Priorities(g) : Cardinality({q \in Priorities(g) : q > p}) = Level(g, retry)

Target(g, retry) == {c \in Candidates(g) : Priority[c] = TargetPriority(g, retry)}

\* A single channel is not weighed.
RandomSatisfied(g, retry) ==
    IF Candidates(g) = {} THEN {None}
    ELSE IF Cardinality(Candidates(g)) = 1 THEN Candidates(g)
    ELSE Picks(Target(g, retry))

\* The first of the remaining groups with a channel; what fell through is skipped.
Open(r) == {i \in r.idx .. Len(AutoGroups) : Candidates(AutoGroups[i]) # {}}

Exhausted(r, retry) == r.kind = "cross" /\ retry >= RetryTimes

\* This attempt is still the group's own, the next one starts in the next group.
SelectAuto(r) ==
    IF Open(r) = {}
    THEN {[r EXCEPT !.chan = None, !.idx = Len(AutoGroups) + 1,
                    !.retry = IF r.idx <= Len(AutoGroups) THEN 0 ELSE @]}
    ELSE LET i == Min(Open(r))
             n == IF i = r.idx THEN r.retry ELSE 0
         IN  {[r EXCEPT !.chan = c, !.auto = AutoGroups[i],
                        !.idx = IF Exhausted(r, n) THEN i + 1 ELSE i,
                        !.retry = IF Exhausted(r, n) THEN 0 ELSE n,
                        !.reset = @ \/ Exhausted(r, n)]
              : c \in RandomSatisfied(AutoGroups[i], n)}

SelectIn(r, g) == {[r EXCEPT !.chan = c] : c \in RandomSatisfied(g, r.retry)}

Select(r, g) == IF r.kind \in {"auto", "cross"} THEN SelectAuto(r) ELSE SelectIn(r, g)

\* The group of the token when it is not "auto"; a playground request that names no
\* group forgets it, and the loop falls back on the group of the user.
UsingGroup   == IF req.auto = None THEN TokenGroup ELSE req.auto
RetriedGroup == IF req.kind = "playground" THEN UserGroup ELSE TokenGroup

-----------------------------------------------------------------------------
(* The request.                                                             *)

\* Distribute uses a RetryParam of its own: its counters are dropped.
Distribute ==
    /\ req.pc = "new"
    /\ IF req.kind = "specific"
       THEN \E c \in Channels : req' = [req EXCEPT !.pc = IF c \in listed THEN "priced" ELSE "rejected",
                                                   !.chan = IF c \in listed THEN c ELSE None]
       ELSE \E r \in Select(req, TokenGroup) :
               req' = [r EXCEPT !.pc = IF r.chan = None THEN "rejected" ELSE "priced",
                                !.retry = 0, !.reset = FALSE]
    /\ changed' = FALSE
    /\ UNCHANGED <<env, refused>>

\* ModelPriceHelper, before the loop.
Price ==
    /\ req.pc = "priced"
    /\ req' = [req EXCEPT !.pc = "loop", !.billed = UsingGroup]
    /\ UNCHANGED <<env, changed, refused>>

\* Mutant of HandleGroupRatio: the group is taken before the selection.
RatioBefore(r) == UsingGroup

HandleGroupRatio(r) == IF r.auto = None THEN TokenGroup ELSE r.auto

\* getChannel: the channel of the context as long as none has been tried.
GetChannel ==
    /\ req.pc = "loop"
    /\ IF ~req.meta
       THEN req' = [req EXCEPT !.pc = "breaker", !.rounds = @ + 1] /\ UNCHANGED changed
       ELSE /\ \E r \in Select(req, RetriedGroup) :
                  req' = [r EXCEPT !.pc = IF r.chan = None THEN "failed" ELSE "breaker",
                                   !.billed = HandleGroupRatio(r),
                                   !.rounds = IF r.chan = None THEN @ ELSE @ + 1]
            /\ changed' = FALSE
    /\ UNCHANGED <<env, refused>>

\* SetupContextForSelectedChannel finds no key of the channel it may use.
NoKey ==
    /\ req.pc = "loop" /\ req.meta
    /\ \E r \in Select(req, RetriedGroup) :
          r.chan # None /\ req' = [r EXCEPT !.pc = "failed", !.rounds = @ + 1]
    /\ changed' = FALSE
    /\ UNCHANGED <<env, refused>>

\* Mutant of IncreaseRetry: the request to leave the counter alone is never forgotten.
NeverIncrease(r) == IF r.reset THEN r ELSE [r EXCEPT !.retry = @ + 1]

IncreaseRetry(r) == IF r.reset THEN [r EXCEPT !.reset = FALSE] ELSE [r EXCEPT !.retry = @ + 1]

Again(r, end) ==
    LET n == IncreaseRetry(r)
    IN  [n EXCEPT !.pc = IF n.retry <= RetryTimes THEN "loop" ELSE end]

\* The loop may end here without an error: nothing has been tried.
BreakerRefuses ==
    /\ req.pc = "breaker"
    /\ req' = Again(req, IF req.meta THEN "failed" ELSE "unserved")
    /\ refused' = (refused \/ ~req.meta)
    /\ UNCHANGED <<env, changed>>

\* The loop breaks before any outcome is recorded.
BodyUnreadable ==
    /\ req.pc = "breaker"
    /\ req' = [req EXCEPT !.pc = "failed"]
    /\ UNCHANGED <<env, changed, refused>>

Counted(s, ok, quick) ==
    IF ok THEN [s EXCEPT !.ok = @ + 1, !.quick = quick] ELSE [s EXCEPT !.bad = @ + 1]

Record(c, ok, quick) == stats' = [stats EXCEPT ![c] = Counted(@, ok, quick)]

Served ==
    /\ req.pc = "breaker"
    /\ req' = [req EXCEPT !.pc = "served", !.meta = TRUE]
    /\ Record(req.chan, TRUE, TRUE)
    /\ UNCHANGED <<listed, events, changed, refused>>

\* shouldRetry: an error of the channel itself is retried whatever is left, others
\* while something is left and no channel is asked for.
ShouldRetry(error) ==
    \/ error = "channel"
    \/ error = "retryable" /\ RetryTimes - req.retry > 0 /\ req.kind # "specific"

Fails ==
    /\ req.pc = "breaker"
    /\ Record(req.chan, FALSE, FALSE)
    /\ \E error \in {"channel", "retryable", "final"} :
          LET r == [req EXCEPT !.meta = TRUE]
          IN  req' = IF ShouldRetry(error) THEN Again(r, "failed") ELSE [r EXCEPT !.pc = "failed"]
    /\ UNCHANGED <<listed, events, changed, refused>>

-----------------------------------------------------------------------------
(* What happens meanwhile.                                                  *)

Event == events < MaxEvents /\ events' = events + 1

OtherOutcome ==
    /\ Event
    /\ \E c \in listed, ok \in BOOLEAN, quick \in BOOLEAN : Record(c, ok, quick)
    /\ UNCHANGED <<listed, req, changed, refused>>

\* Decay halves what is older than ten minutes, and forgets what becomes nothing.
Halved(s) == LET h == [s EXCEPT !.ok = @ \div 2, !.bad = @ \div 2]
             IN  IF h.ok + h.bad = 0 THEN NoStats ELSE h

Decay ==
    /\ Event
    /\ \E old \in SUBSET {c \in Channels : Scored(c)} :
          stats' = [c \in Channels |-> IF c \in old THEN Halved(stats[c]) ELSE stats[c]]
    /\ UNCHANGED <<listed, req, changed, refused>>

\* CacheUpdateChannelStatus takes a channel out, InitChannelCache builds a new list.
ListChanges ==
    /\ Event
    /\ \/ \E c \in listed : listed' = listed \ {c}
       \/ listed' \in SUBSET Channels \ {listed}
    /\ changed' = TRUE
    /\ UNCHANGED <<stats, req, refused>>

Loop == Price \/ GetChannel \/ NoKey \/ BreakerRefuses \/ BodyUnreadable \/ Served \/ Fails

Next ==
    \/ Distribute \/ Loop
    \/ OtherOutcome \/ Decay \/ ListChanges

Spec == Init /\ [][Next]_vars

-----------------------------------------------------------------------------
(* Properties.                                                              *)

\* The sets a channel is drawn from.
Drawn == UNION {{{c \in Candidates(g) : Priority[c] = p} : p \in Priorities(g)} : g \in Range(AutoGroups)}

\* Whatever the scores have done to the weights, the random number ends at a channel (the
\* shares add up to the range it is drawn from), and no channel that has a weight or a
\* score of its own is left without a share.
EveryDrawFair ==
    \A cs \in Drawn :
        /\ None \notin Picks(cs)
        /\ \A c \in cs \ Picks(cs) : Weight[c] = 0 /\ ~Scored(c)

\* However the groups, the counter and its reset interact, a request is given at most
\* RetryTimes + 1 channels from each group it may use.
RoundsBounded ==
    req.rounds <= (RetryTimes + 1) * (IF IsAuto THEN Len(AutoGroups) ELSE 1)

\* A request is billed with the ratio of a group its channel belongs to, unless it
\* asked for its channel or is a playground request that was retried.
BilledForItsGroup ==
    req.pc \in {"breaker", "served"} /\ req.kind \notin {"specific", "playground"}
        => req.billed \in GroupsOf[req.chan]

NextLower(g, p) ==
    LET below == {q \in Priorities(g) : q < p} IN IF below = {} THEN p ELSE Max(below)

\* A retry in the same group goes to the next lower priority, skipping none, unless
\* the list changed since the last selection or the first channel was refused.
NoPrioritySkipped ==
    [][req.meta /\ req.pc = "loop" /\ req'.pc = "breaker" /\ IsAuto
          /\ req'.auto = req.auto /\ ~changed /\ ~refused
       => Priority[req'.chan] = NextLower(req.auto, Priority[req.chan])]_vars
=============================================================================
