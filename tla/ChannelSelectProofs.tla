-------------------------- MODULE ChannelSelectProofs --------------------------
(* Theorems about ChannelSelect, for any number of channels, groups, weights,  *)
(* retries and events: how many attempts a request makes, which group pays for *)
(* them, which channels a draw can end at.                                     *)
EXTENDS ChannelSelect, SetSums

-----------------------------------------------------------------------------
(* Typing.                                                                    *)

Outcome  == [ok : Nat, bad : Nat, quick : BOOLEAN]
Places   == {"new", "priced", "loop", "breaker", "served", "failed", "unserved", "rejected"}
Position == 1 .. Len(AutoGroups) + 1
Named    == {AutoGroups[i] : i \in 1 .. Len(AutoGroups)}

Request ==
    [kind : Kinds, pc : Places, chan : Channels \cup {None}, idx : Position, retry : Nat,
     reset : BOOLEAN, auto : Named \cup {None}, billed : Named \cup {None, TokenGroup},
     meta : BOOLEAN, rounds : Nat]

TypeInv ==
    /\ listed \subseteq Channels
    /\ stats \in [Channels -> Outcome]
    /\ req \in Request

\* No automatic group has the name of none.
LEMMA NamedGroups ==
    /\ None \notin Named
    /\ \A i \in 1 .. Len(AutoGroups) : AutoGroups[i] \in Named
  BY SelectSets DEF Named, Range

\* A draw ends without a channel or with one of the group it is from.
LEMMA DrawnFrom ==
    ASSUME NEW g, NEW n, NEW c \in RandomSatisfied(g, n)
    PROVE  c = None \/ c \in Candidates(g)
  BY DEF RandomSatisfied, Picks, Target

\* The first position from idx whose group has a channel.
LEMMA OpenGroup ==
    ASSUME NEW r, r.idx \in Position, Open(r) # {}
    PROVE  /\ Min(Open(r)) \in r.idx .. Len(AutoGroups)
           /\ Candidates(AutoGroups[Min(Open(r))]) # {}
           /\ \A i \in Open(r) : Min(Open(r)) <= i
<1>1. Open(r) \subseteq r.idx .. Len(AutoGroups) /\ r.idx \in Int /\ Len(AutoGroups) \in Int
  BY SelectSets DEF Open, Position
<1>2. IsFiniteSet(r.idx .. Len(AutoGroups))
  BY <1>1, FS_Interval
<1>3. IsFiniteSet(Open(r)) /\ Open(r) \subseteq Int
  BY <1>1, <1>2, FS_Subset
<1>4. Min(Open(r)) \in Open(r) /\ \A i \in Open(r) : Min(Open(r)) <= i
  BY <1>3, SmallestLargest
<1>. QED
  BY <1>1, <1>4 DEF Open

\* What a selection leaves of the request.
Same(q, r) ==
    /\ r \in Request
    /\ r.kind = q.kind /\ r.pc = q.pc /\ r.billed = q.billed /\ r.meta = q.meta
    /\ r.rounds = q.rounds

\* The counter a group is entered with, and a selection from the i-th group.
Entered(q, i) == IF i = q.idx THEN q.retry ELSE 0

From(q, r, i) ==
    /\ r.auto = AutoGroups[i] /\ r.chan \in RandomSatisfied(AutoGroups[i], Entered(q, i))
    /\ Exhausted(q, Entered(q, i)) => r.idx = i + 1 /\ r.retry = 0 /\ r.reset = TRUE
    /\ ~Exhausted(q, Entered(q, i)) => r.idx = i /\ r.retry = Entered(q, i) /\ r.reset = q.reset

\* A selection of the automatic kind.
LEMMA AutoEffect ==
    ASSUME NEW q \in Request, NEW r \in SelectAuto(q), listed \subseteq Channels
    PROVE  /\ Same(q, r)
           /\ \/ r.chan = None /\ r.auto = q.auto
              \/ Open(q) # {} /\ From(q, r, Min(Open(q)))
<1>1. CASE Open(q) = {}
  <2>1. r = [q EXCEPT !.chan = None, !.idx = Len(AutoGroups) + 1,
                      !.retry = IF q.idx <= Len(AutoGroups) THEN 0 ELSE q.retry]
    BY <1>1 DEF SelectAuto
  <2>2. Len(AutoGroups) + 1 \in Position
    BY SelectSets DEF Position
  <2>. QED
    BY <2>1, <2>2 DEF Same, Request
<1>2. CASE Open(q) # {}
  <2> DEFINE i == Min(Open(q))
             n == Entered(q, i)
  <2>0. q.idx \in Position
    BY DEF Request
  <2>1. i \in q.idx .. Len(AutoGroups) /\ i \in 1 .. Len(AutoGroups)
    <3>1. i \in q.idx .. Len(AutoGroups)
      BY <1>2, <2>0, OpenGroup
    <3>. QED
      BY <2>0, <3>1, SelectSets DEF Position
  <2>2. PICK c \in RandomSatisfied(AutoGroups[i], n) :
           r = [q EXCEPT !.chan = c, !.auto = AutoGroups[i],
                         !.idx = IF Exhausted(q, n) THEN i + 1 ELSE i,
                         !.retry = IF Exhausted(q, n) THEN 0 ELSE n,
                         !.reset = q.reset \/ Exhausted(q, n)]
    BY <1>2 DEF SelectAuto, Entered
  <2>3. c \in Channels \cup {None} /\ AutoGroups[i] \in Named
    BY <2>1, <2>2, DrawnFrom, NamedGroups DEF Candidates
  <2>4. i \in Position /\ i + 1 \in Position /\ n \in Nat /\ Exhausted(q, n) \in BOOLEAN
    BY <2>1, SelectSets DEF Position, Entered, Request, Exhausted
  <2> HIDE DEF i, n
  <2>5. Same(q, r)
    BY <2>2, <2>3, <2>4 DEF Same, Request
  <2>6. From(q, r, i)
    <3>1. r.chan = c /\ r.auto = AutoGroups[i]
      BY <2>2 DEF Request
    <3>2. Exhausted(q, n) => r.idx = i + 1 /\ r.retry = 0 /\ r.reset = TRUE
      BY <2>2 DEF Request
    <3>3. ~Exhausted(q, n) => r.idx = i /\ r.retry = n /\ r.reset = q.reset
      BY <2>2 DEF Request
    <3>. QED
      BY <2>2, <3>1, <3>2, <3>3 DEF From, n
  <2>. QED
    BY <1>2, <2>5, <2>6 DEF i
<1>. QED
  BY <1>1, <1>2

\* A selection in one group.
LEMMA GroupEffect ==
    ASSUME NEW q \in Request, NEW g, NEW r \in SelectIn(q, g), listed \subseteq Channels
    PROVE  /\ Same(q, r)
           /\ r.auto = q.auto /\ r.idx = q.idx /\ r.retry = q.retry /\ r.reset = q.reset
           /\ r.chan = None \/ r.chan \in Candidates(g)
<1>1. PICK c \in RandomSatisfied(g, q.retry) : r = [q EXCEPT !.chan = c]
  BY DEF SelectIn
<1>2. (c = None \/ c \in Candidates(g)) /\ Candidates(g) \subseteq Channels
  BY DrawnFrom DEF Candidates
<1>. QED
  BY <1>1, <1>2 DEF Same, Request

\* A selection of any kind.
LEMMA SelectEffect ==
    ASSUME NEW q \in Request, NEW g, NEW r \in Select(q, g), listed \subseteq Channels
    PROVE  /\ Same(q, r)
           /\ q.kind \in {"auto", "cross"} =>
                \/ r.chan = None /\ r.auto = q.auto
                \/ Open(q) # {} /\ From(q, r, Min(Open(q)))
           /\ q.kind \notin {"auto", "cross"} =>
                /\ r.auto = q.auto /\ r.idx = q.idx /\ r.retry = q.retry /\ r.reset = q.reset
                /\ r.chan = None \/ r.chan \in Candidates(g)
  BY AutoEffect, GroupEffect DEF Select

\* What the loop does after a round that is to be followed by another.
LEMMA AgainEffect ==
    ASSUME NEW r \in Request, NEW end \in Places
    PROVE  LET n == Again(r, end)
           IN  /\ n \in Request
               /\ n.kind = r.kind /\ n.chan = r.chan /\ n.idx = r.idx /\ n.auto = r.auto
               /\ n.billed = r.billed /\ n.meta = r.meta /\ n.rounds = r.rounds
               /\ r.reset => n.retry = r.retry /\ n.reset = FALSE
               /\ ~r.reset => n.retry = r.retry + 1 /\ n.reset = FALSE
               /\ IF n.retry <= RetryTimes THEN n.pc = "loop" ELSE n.pc = end
<1> DEFINE m == IncreaseRetry(r)
<1>1. /\ m \in Request /\ m.reset = FALSE
      /\ m.kind = r.kind /\ m.chan = r.chan /\ m.idx = r.idx /\ m.auto = r.auto
      /\ m.billed = r.billed /\ m.meta = r.meta /\ m.rounds = r.rounds
      /\ r.reset => m.retry = r.retry
      /\ ~r.reset => m.retry = r.retry + 1
  <2>1. CASE r.reset
    <3>1. m = [r EXCEPT !.reset = FALSE]
      BY <2>1 DEF IncreaseRetry
    <3>. QED
      BY <2>1, <3>1 DEF Request
  <2>2. CASE ~r.reset
    <3>1. m = [r EXCEPT !.retry = r.retry + 1] /\ r.reset = FALSE
      BY <2>2 DEF IncreaseRetry, Request
    <3>. QED
      BY <2>2, <3>1 DEF Request
  <2>. QED
    BY <2>1, <2>2
<1>2. Again(r, end) = [m EXCEPT !.pc = IF m.retry <= RetryTimes THEN "loop" ELSE end]
  BY DEF Again
<1> HIDE DEF m
<1>3. (IF m.retry <= RetryTimes THEN "loop" ELSE end) \in Places
  BY DEF Places
<1>. QED
  BY <1>1, <1>2, <1>3 DEF Request

Walks(r) == r.kind \in {"auto", "cross"}

\* A selection that found a channel: of the group at its position, or of the one group.
Found(q, r, g) ==
    /\ r.chan # None
    /\ Walks(q) => Open(q) # {} /\ From(q, r, Min(Open(q)))
    /\ ~Walks(q) => /\ r.auto = q.auto /\ r.idx = q.idx /\ r.retry = q.retry /\ r.reset = q.reset
                   /\ r.chan \in Candidates(g)

\* Distribute finds the first channel, or rejects the request.
LEMMA DistributeEffect ==
    ASSUME TypeInv, Distribute
    PROVE  /\ req' \in Request /\ req'.kind = req.kind /\ req'.meta = req.meta
           /\ req'.rounds = req.rounds /\ req.pc = "new"
           /\ \/ req'.pc = "rejected"
              \/ req'.pc = "priced" /\ req.kind = "specific" /\ req'.retry = req.retry
                    /\ req'.reset = req.reset
              \/ /\ req'.pc = "priced" /\ req.kind # "specific"
                 /\ req'.retry = 0 /\ req'.reset = FALSE
                 /\ \E r \in Select(req, TokenGroup) :
                       Found(req, r, TokenGroup) /\ req'.auto = r.auto /\ req'.idx = r.idx
                          /\ req'.chan = r.chan
<1>0. req \in Request /\ listed \subseteq Channels /\ req.pc = "new"
  BY DEF TypeInv, Distribute
<1>1. CASE req.kind = "specific"
  <2>1. PICK c \in Channels : req' = [req EXCEPT !.pc = IF c \in listed THEN "priced" ELSE "rejected",
                                                 !.chan = IF c \in listed THEN c ELSE None]
    BY <1>1 DEF Distribute
  <2>2. CASE c \in listed
    BY <1>0, <1>1, <2>1, <2>2 DEF Request, Places
  <2>3. CASE c \notin listed
    BY <1>0, <1>1, <2>1, <2>3 DEF Request, Places
  <2>. QED
    BY <2>2, <2>3
<1>2. CASE req.kind # "specific"
  <2>1. PICK r \in Select(req, TokenGroup) :
           req' = [r EXCEPT !.pc = IF r.chan = None THEN "rejected" ELSE "priced",
                            !.retry = 0, !.reset = FALSE]
    BY <1>2 DEF Distribute
  <2>2. Same(req, r) /\ (r.chan # None => Found(req, r, TokenGroup))
    BY <1>0, SelectEffect DEF Found, Walks
  <2>3. r \in Request
    BY <2>2 DEF Same
  <2>4. /\ req' \in Request /\ req'.kind = req.kind /\ req'.meta = req.meta
        /\ req'.rounds = req.rounds /\ req'.retry = 0 /\ req'.reset = FALSE
        /\ req'.auto = r.auto /\ req'.idx = r.idx /\ req'.chan = r.chan
        /\ req'.pc = IF r.chan = None THEN "rejected" ELSE "priced"
    BY <2>1, <2>2, <2>3 DEF Same, Request, Places
  <2>. QED
    BY <1>0, <1>2, <2>2, <2>4
<1>. QED
  BY <1>1, <1>2

\* The loop goes on with the channel of the context, or with one it selects.
LEMMA LoopEffect ==
    ASSUME TypeInv, GetChannel \/ NoKey
    PROVE  /\ req' \in Request /\ req'.kind = req.kind /\ req'.meta = req.meta /\ req.pc = "loop"
           /\ \/ /\ req.meta = FALSE /\ req'.pc = "breaker" /\ req'.rounds = req.rounds + 1
                 /\ req'.chan = req.chan /\ req'.auto = req.auto /\ req'.billed = req.billed
                 /\ req'.idx = req.idx /\ req'.retry = req.retry /\ req'.reset = req.reset
              \/ req'.pc = "failed" /\ req'.rounds = req.rounds
              \/ /\ req.meta = TRUE /\ req'.rounds = req.rounds + 1
                 /\ Found(req, req', RetriedGroup)
                 /\ \/ req'.pc = "failed"
                    \/ req'.pc = "breaker" /\ req'.billed = HandleGroupRatio(req')
<1>0. /\ req \in Request /\ listed \subseteq Channels /\ req.pc = "loop"
      /\ req.rounds \in Nat /\ req.rounds + 1 \in Nat
  <2>1. req \in Request /\ listed \subseteq Channels /\ req.pc = "loop"
    BY DEF TypeInv, GetChannel, NoKey
  <2>2. req.rounds \in Nat
    BY <2>1 DEF Request
  <2>. QED
    BY <2>1, <2>2
<1>1. CASE req.meta = FALSE
  <2>1. req' = [req EXCEPT !.pc = "breaker", !.rounds = req.rounds + 1]
    BY <1>1 DEF GetChannel, NoKey
  <2>. QED
    BY <1>0, <1>1, <2>1 DEF Request, Places
<1>2. CASE req.meta # FALSE
  <2>0. req.meta = TRUE
    BY <1>0, <1>2 DEF Request
  <2>1. PICK r \in Select(req, RetriedGroup) :
           \/ req' = [r EXCEPT !.pc = IF r.chan = None THEN "failed" ELSE "breaker",
                               !.billed = HandleGroupRatio(r),
                               !.rounds = IF r.chan = None THEN r.rounds ELSE r.rounds + 1]
           \/ r.chan # None /\ req' = [r EXCEPT !.pc = "failed", !.rounds = r.rounds + 1]
    BY <2>0 DEF GetChannel, NoKey
  <2>2. Same(req, r) /\ (r.chan # None => Found(req, r, RetriedGroup))
    BY <1>0, SelectEffect DEF Found, Walks
  <2>3. /\ r \in Request /\ r.kind = req.kind /\ r.meta = req.meta /\ r.rounds = req.rounds
        /\ HandleGroupRatio(r) \in Named \cup {None, TokenGroup}
    BY <2>2 DEF Same, Request, HandleGroupRatio
  <2>4. /\ req' \in Request /\ req'.kind = req.kind /\ req'.meta = req.meta
        /\ req'.chan = r.chan /\ req'.auto = r.auto /\ req'.idx = r.idx /\ req'.retry = r.retry
        /\ req'.reset = r.reset
        /\ \/ /\ req'.pc = IF r.chan = None THEN "failed" ELSE "breaker"
              /\ req'.billed = HandleGroupRatio(r)
              /\ req'.rounds = IF r.chan = None THEN req.rounds ELSE req.rounds + 1
           \/ r.chan # None /\ req'.pc = "failed" /\ req'.rounds = req.rounds + 1
    <3>1. PICK p \in Places, b \in Named \cup {None, TokenGroup}, n \in Nat :
             /\ req' = [r EXCEPT !.pc = p, !.billed = b, !.rounds = n]
             /\ \/ /\ p = IF r.chan = None THEN "failed" ELSE "breaker"
                   /\ b = HandleGroupRatio(r)
                   /\ n = IF r.chan = None THEN req.rounds ELSE req.rounds + 1
                \/ r.chan # None /\ p = "failed" /\ n = req.rounds + 1
      <4>1. CASE req' = [r EXCEPT !.pc = IF r.chan = None THEN "failed" ELSE "breaker",
                                  !.billed = HandleGroupRatio(r),
                                  !.rounds = IF r.chan = None THEN r.rounds ELSE r.rounds + 1]
        BY <1>0, <2>3, <4>1 DEF Places
      <4>2. CASE r.chan # None /\ req' = [r EXCEPT !.pc = "failed", !.rounds = r.rounds + 1]
        <5>1. req' = [r EXCEPT !.pc = "failed", !.billed = r.billed, !.rounds = req.rounds + 1]
          BY <2>3, <4>2 DEF Request
        <5>2. r.billed \in Named \cup {None, TokenGroup} /\ "failed" \in Places
          BY <2>3 DEF Request, Places
        <5>. QED
          BY <1>0, <4>2, <5>1, <5>2
      <4>. QED
        BY <2>1, <4>1, <4>2
    <3>. QED
      BY <2>3, <3>1 DEF Request
  <2>5. HandleGroupRatio(req') = HandleGroupRatio(r)
    BY <2>4 DEF HandleGroupRatio
  <2>6. Found(req, r, RetriedGroup) => Found(req, req', RetriedGroup)
    BY <2>4 DEF Found, From
  <2>. QED
    BY <1>0, <2>0, <2>2, <2>4, <2>5, <2>6
<1>. QED
  BY <1>1, <1>2

\* The price is fixed before the loop.
LEMMA PriceEffect ==
    ASSUME TypeInv, Price
    PROVE  /\ req' \in Request /\ req.pc = "priced" /\ req'.pc = "loop" /\ req'.billed = UsingGroup
           /\ req'.kind = req.kind /\ req'.chan = req.chan /\ req'.idx = req.idx
           /\ req'.retry = req.retry /\ req'.reset = req.reset /\ req'.auto = req.auto
           /\ req'.meta = req.meta /\ req'.rounds = req.rounds
<1>1. req \in Request /\ req.pc = "priced" /\ req' = [req EXCEPT !.pc = "loop", !.billed = UsingGroup]
  BY DEF TypeInv, Price
<1>2. UsingGroup \in Named \cup {None, TokenGroup}
  BY <1>1 DEF UsingGroup, Request
<1>. QED
  BY <1>1, <1>2 DEF Request, Places

\* A round that is over leads to the next one, or to the end of the request.
LEMMA RoundEffect ==
    ASSUME TypeInv, BreakerRefuses \/ BodyUnreadable \/ Served \/ Fails
    PROVE  /\ req' \in Request /\ req.pc = "breaker" /\ req'.kind = req.kind /\ req'.chan = req.chan
           /\ req'.idx = req.idx /\ req'.auto = req.auto /\ req'.billed = req.billed
           /\ req'.rounds = req.rounds
           /\ \/ req'.pc \in {"failed", "served"}
              \/ /\ \/ BreakerRefuses /\ req'.meta = req.meta
                    \/ req'.meta = TRUE
                 /\ req'.reset = FALSE
                 /\ req.reset => req'.retry = req.retry
                 /\ ~req.reset => req'.retry = req.retry + 1
                 /\ IF req'.retry <= RetryTimes THEN req'.pc = "loop"
                    ELSE req'.pc \in {"failed", "unserved"}
<1>0. req \in Request /\ req.pc = "breaker"
  BY DEF TypeInv, BreakerRefuses, BodyUnreadable, Served, Fails
<1>1. CASE BreakerRefuses
  <2>1. PICK end \in {"failed", "unserved"} : req' = Again(req, end)
    BY <1>1 DEF BreakerRefuses
  <2>2. end \in Places
    BY DEF Places
  <2>. QED
    BY <1>0, <1>1, <2>1, <2>2, AgainEffect
<1>2. CASE BodyUnreadable
  BY <1>0, <1>2 DEF BodyUnreadable, Request, Places
<1>3. CASE Served
  BY <1>0, <1>3 DEF Served, Request, Places
<1>4. CASE Fails
  <2> DEFINE r == [req EXCEPT !.meta = TRUE]
  <2>1. /\ r \in Request /\ r.meta = TRUE /\ r.kind = req.kind /\ r.chan = req.chan /\ r.idx = req.idx
        /\ r.auto = req.auto /\ r.billed = req.billed /\ r.rounds = req.rounds
        /\ r.retry = req.retry /\ r.reset = req.reset
    BY <1>0 DEF Request
  <2>2. req' = Again(r, "failed") \/ req' = [r EXCEPT !.pc = "failed"]
    BY <1>4 DEF Fails
  <2> HIDE DEF r
  <2>3. CASE req' = Again(r, "failed")
    <3>1. "failed" \in Places
      BY DEF Places
    <3>2. /\ req' \in Request /\ req'.kind = r.kind /\ req'.chan = r.chan /\ req'.idx = r.idx
          /\ req'.auto = r.auto /\ req'.billed = r.billed /\ req'.meta = r.meta
          /\ req'.rounds = r.rounds /\ req'.reset = FALSE
          /\ r.reset => req'.retry = r.retry
          /\ ~r.reset => req'.retry = r.retry + 1
          /\ IF req'.retry <= RetryTimes THEN req'.pc = "loop" ELSE req'.pc = "failed"
      BY <2>1, <2>3, <3>1, AgainEffect
    <3>. QED
      BY <1>0, <2>1, <3>2
  <2>4. CASE req' = [r EXCEPT !.pc = "failed"]
    BY <1>0, <2>1, <2>4 DEF Request, Places
  <2>. QED
    BY <2>2, <2>3, <2>4
<1>. QED
  BY <1>1, <1>2, <1>3, <1>4

\* Outcomes are counted.
LEMMA RecordType ==
    ASSUME TypeInv, NEW c \in Channels, NEW ok \in BOOLEAN, NEW quick \in BOOLEAN, Record(c, ok, quick)
    PROVE  stats' \in [Channels -> Outcome]
<1>1. stats[c] \in Outcome /\ stats[c].ok + 1 \in Nat /\ stats[c].bad + 1 \in Nat
  BY DEF TypeInv, Outcome
<1>2. Counted(stats[c], ok, quick) \in Outcome
  BY <1>1 DEF Counted, Outcome
<1>. QED
  BY <1>2 DEF Record, TypeInv

\* What has decayed is still a count.
LEMMA HalvedType == ASSUME NEW s \in Outcome PROVE Halved(s) \in Outcome
<1> DEFINE h == [s EXCEPT !.ok = s.ok \div 2, !.bad = s.bad \div 2]
<1>1. s.ok \div 2 \in Nat /\ s.bad \div 2 \in Nat
  BY DEF Outcome
<1>2. h \in Outcome /\ NoStats \in Outcome
  BY <1>1 DEF Outcome, NoStats
<1>3. Halved(s) \in {h, NoStats}
  BY DEF Halved
<1>. QED
  BY <1>2, <1>3

\* The variables keep their types.
LEMMA TypeStep == TypeInv /\ [Next]_vars => TypeInv'
<1> SUFFICES ASSUME TypeInv, [Next]_vars PROVE TypeInv'
  OBVIOUS
<1>0. listed \subseteq Channels /\ stats \in [Channels -> Outcome] /\ req \in Request
  BY DEF TypeInv
<1>1. CASE Distribute
  BY <1>0, <1>1, DistributeEffect DEF Distribute, TypeInv, env
<1>2. CASE GetChannel \/ NoKey
  BY <1>0, <1>2, LoopEffect DEF GetChannel, NoKey, TypeInv, env
<1>3. CASE Price
  BY <1>0, <1>3, PriceEffect DEF Price, TypeInv, env
<1>4. CASE BreakerRefuses \/ BodyUnreadable
  BY <1>0, <1>4, RoundEffect DEF BreakerRefuses, BodyUnreadable, TypeInv, env
<1>5. CASE Served \/ Fails
  <2>1. req' \in Request /\ listed' = listed /\ req.pc = "breaker"
    BY <1>5, RoundEffect DEF Served, Fails
  <2>2. PICK b \in BOOLEAN : Record(req.chan, b, b)
    BY <1>5 DEF Served, Fails
  <2>3. stats' \in [Channels -> Outcome]
    <3>1. CASE req.chan \in Channels
      BY <2>2, <3>1, RecordType
    <3>2. CASE req.chan \notin Channels
      BY <1>0, <2>2, <3>2 DEF Record
    <3>. QED
      BY <3>1, <3>2
  <2>. QED
    BY <1>0, <2>1, <2>3 DEF TypeInv
<1>6. CASE OtherOutcome
  <2>1. PICK c \in listed, ok \in BOOLEAN, quick \in BOOLEAN : Record(c, ok, quick)
    BY <1>6 DEF OtherOutcome
  <2>2. stats' \in [Channels -> Outcome]
    BY <1>0, <2>1, RecordType
  <2>. QED
    BY <1>0, <1>6, <2>2 DEF OtherOutcome, TypeInv
<1>7. CASE Decay
  <2>1. PICK old : stats' = [c \in Channels |-> IF c \in old THEN Halved(stats[c]) ELSE stats[c]]
    BY <1>7 DEF Decay
  <2>2. \A c \in Channels : stats[c] \in Outcome /\ Halved(stats[c]) \in Outcome
    BY <1>0, HalvedType
  <2>. QED
    BY <1>0, <1>7, <2>1, <2>2 DEF Decay, TypeInv
<1>8. CASE ListChanges
  BY <1>0, <1>8 DEF ListChanges, TypeInv
<1>9. CASE UNCHANGED vars
  BY <1>0, <1>9 DEF vars, env, TypeInv
<1>. QED
  BY <1>1, <1>2, <1>3, <1>4, <1>5, <1>6, <1>7, <1>8, <1>9 DEF Next, Loop

\* Every variable has its type.
THEOREM Typed == Spec => []TypeInv
<1>1. Init => TypeInv
  <2> SUFFICES ASSUME Init PROVE TypeInv
    OBVIOUS
  <2>1. stats \in [Channels -> Outcome]
    BY DEF Init, Outcome, NoStats
  <2>2. 1 \in Position
    BY SelectSets DEF Position
  <2>3. req \in Request
    <3>1. req \in [kind : Kinds, pc : {"new"}, chan : {None}, idx : {1}, retry : {0}, reset : {FALSE},
                   auto : {None}, billed : {None}, meta : {FALSE}, rounds : {0}]
      BY DEF Init
    <3>2. PICK k \in Kinds :
             req = [kind |-> k, pc |-> "new", chan |-> None, idx |-> 1, retry |-> 0, reset |-> FALSE,
                    auto |-> None, billed |-> None, meta |-> FALSE, rounds |-> 0]
      BY <3>1
    <3>. QED
      BY <2>2, <3>2 DEF Request, Places
  <2>. QED
    BY <2>1, <2>3 DEF Init, TypeInv
<1>. QED
  BY <1>1, TypeStep, PTL DEF Spec

\* What happens meanwhile leaves the request alone.
LEMMA Meanwhile ==
    ASSUME [Next]_vars
    PROVE  Distribute \/ Loop \/ req' = req
  BY DEF Next, OtherOutcome, Decay, ListChanges, vars

-----------------------------------------------------------------------------
(* The group that is billed.                                                  *)

Billable == req.kind \in {"auto", "cross", "group"}

\* The group fits the channel, before the price is fixed and from then on.
Billed ==
    Billable =>
        /\ req.kind = "group" /\ req.pc \in {"new", "priced", "loop", "breaker"} => req.auto = None
        /\ req.pc = "priced" => UsingGroup \in GroupsOf[req.chan]
        /\ req.pc \in {"breaker", "served"} \/ (req.pc = "loop" /\ req.meta = FALSE)
              => req.billed \in GroupsOf[req.chan]

\* The group of a selection is that of its channel.
LEMMA FoundGroup ==
    ASSUME TypeInv, NEW r, Found(req, r, TokenGroup), Billed, Billable, req.pc \in {"new", "loop"}
    PROVE  /\ req.kind = "group" => r.auto = None
           /\ HandleGroupRatio(r) \in GroupsOf[r.chan]
<1>1. CASE Walks(req)
  <2> DEFINE i == Min(Open(req))
  <2>1. Open(req) # {} /\ r.auto = AutoGroups[i] /\ r.chan \in Candidates(AutoGroups[i])
    BY <1>1, DrawnFrom DEF Found, From
  <2>2. i \in 1 .. Len(AutoGroups)
    <3>1. req.idx \in Position
      BY DEF TypeInv, Request
    <3>2. i \in req.idx .. Len(AutoGroups)
      BY <2>1, <3>1, OpenGroup
    <3>. QED
      BY <3>1, <3>2, SelectSets DEF Position
  <2>3. r.auto # None
    BY <2>1, <2>2, NamedGroups
  <2>. QED
    BY <1>1, <2>1, <2>3 DEF Walks, HandleGroupRatio, Candidates
<1>2. CASE ~Walks(req)
  BY <1>2 DEF Walks, Billable, Billed, Found, HandleGroupRatio, Candidates
<1>. QED
  BY <1>1, <1>2

\* A request is billed with the ratio of a group its channel belongs to, unless it asked for
\* its channel or is a playground request that was retried.
THEOREM GroupBilled == Spec => []BilledForItsGroup
<1>1. Init => Billed
  BY DEF Init, Billed
<1>2. TypeInv /\ Billed /\ [Next]_vars => Billed'
  <2> SUFFICES ASSUME TypeInv, Billed, [Next]_vars, Billable' PROVE Billed'
    BY DEF Billed
  <2>1. CASE Distribute
    <3>1. Billable /\ req'.kind = req.kind /\ req.pc = "new"
      BY <2>1, DistributeEffect DEF Billable
    <3>2. CASE req'.pc = "rejected"
      BY <3>2 DEF Billed
    <3>3. CASE req'.pc = "priced"
      <4>1. PICK r : /\ Found(req, r, TokenGroup)
                     /\ req'.auto = r.auto /\ req'.chan = r.chan
        BY <2>1, <3>1, <3>3, DistributeEffect DEF Billable
      <4>2. /\ req.kind = "group" => r.auto = None
            /\ HandleGroupRatio(r) \in GroupsOf[r.chan]
        BY <3>1, <4>1, FoundGroup
      <4>3. UsingGroup' = HandleGroupRatio(r)
        BY <4>1 DEF UsingGroup, HandleGroupRatio
      <4>. QED
        BY <3>1, <3>3, <4>1, <4>2, <4>3 DEF Billed
    <3>. QED
      BY <2>1, <3>2, <3>3, DistributeEffect
  <2>2. CASE GetChannel \/ NoKey
    <3>1. Billable /\ req'.kind = req.kind /\ req.pc = "loop"
      BY <2>2, LoopEffect DEF Billable
    <3>2. CASE req'.pc = "failed"
      BY <3>2 DEF Billed
    <3>3. CASE req.meta = FALSE /\ req'.pc = "breaker" /\ req'.chan = req.chan
               /\ req'.auto = req.auto /\ req'.billed = req.billed
      BY <3>1, <3>3 DEF Billed
    <3>4. CASE Found(req, req', RetriedGroup) /\ req'.pc = "breaker"
               /\ req'.billed = HandleGroupRatio(req')
      <4>1. RetriedGroup = TokenGroup
        BY <3>1 DEF Billable, RetriedGroup
      <4>2. /\ req.kind = "group" => req'.auto = None
            /\ HandleGroupRatio(req') \in GroupsOf[req'.chan]
        BY <3>1, <3>4, <4>1, FoundGroup
      <4>. QED
        BY <3>1, <3>4, <4>2 DEF Billed
    <3>. QED
      BY <2>2, <3>2, <3>3, <3>4, LoopEffect
  <2>3. CASE Price
    <3>1. Billable /\ req.pc = "priced" /\ req'.pc = "loop" /\ req'.kind = req.kind
      BY <2>3, PriceEffect DEF Billable
    <3>2. req'.billed = UsingGroup /\ req'.chan = req.chan /\ req'.auto = req.auto
      BY <2>3, PriceEffect
    <3>. QED
      BY <3>1, <3>2 DEF Billed
  <2>4. CASE BreakerRefuses \/ BodyUnreadable \/ Served \/ Fails
    <3>1. /\ Billable /\ req.pc = "breaker" /\ req'.kind = req.kind /\ req'.chan = req.chan
          /\ req'.auto = req.auto /\ req'.billed = req.billed
          /\ req'.pc \in {"loop", "failed", "served", "unserved"}
      BY <2>4, RoundEffect DEF Billable
    <3>. QED
      BY <3>1 DEF Billed
  <2>5. CASE req' = req
    BY <2>5 DEF Billed, Billable, UsingGroup
  <2>. QED
    BY <2>1, <2>2, <2>3, <2>4, <2>5, Meanwhile DEF Loop
<1>3. TypeInv /\ Billed => BilledForItsGroup
  BY DEF TypeInv, Request, Kinds, Billed, Billable, BilledForItsGroup
<1>. QED
  BY <1>1, <1>2, <1>3, Typed, PTL DEF Spec

-----------------------------------------------------------------------------
(* The number of attempts.                                                    *)

\* The attempts the groups before the i-th have had at most.
Before(i) == (i - 1) * (RetryTimes + 1)

\* What lies before a group is bounded by what lies before the next.
LEMMA BeforeFacts ==
    ASSUME NEW i \in Position
    PROVE  /\ Before(i) \in Nat
           /\ \A j \in Position : i < j => Before(i) + RetryTimes + 1 <= Before(j)
           /\ i <= Len(AutoGroups)
                => Before(i) + RetryTimes + 1 <= (RetryTimes + 1) * Len(AutoGroups)
           /\ Before(i) <= (RetryTimes + 1) * Len(AutoGroups)
           /\ RetryTimes + 1 <= (RetryTimes + 1) * Len(AutoGroups)
<1> DEFINE L == Len(AutoGroups)
           K == RetryTimes + 1
<1>1. L \in Nat /\ L >= 1 /\ K \in Nat /\ K >= 1 /\ RetryTimes \in Nat /\ K = RetryTimes + 1
      /\ Position = 1 .. L + 1
  BY SelectSets DEF Position
<1> HIDE DEF L, K
<1>2. ASSUME NEW a \in Nat, NEW b \in Nat, a < b PROVE a * K + K <= b * K
  <2>1. PICK d \in Nat : b = a + 1 + d
    <3>1. b - a - 1 \in Nat /\ b = a + 1 + (b - a - 1)
      BY <1>2
    <3>. QED
      BY <3>1
  <2>2. b * K = a * K + K + d * K
    BY <1>1, <2>1
  <2>3. d * K \in Nat /\ a * K \in Nat
    BY <1>1
  <2>. QED
    BY <1>1, <2>2, <2>3
<1>3. ASSUME NEW a \in Nat PROVE a * K \in Nat
  BY <1>1
<1>4. /\ i - 1 \in Nat /\ i - 1 <= L /\ \A j \in Position : j - 1 \in Nat
      /\ L * K = K * L /\ 0 * K = 0
  BY <1>1
<1>5. Before(i) = (i - 1) * K /\ \A j \in Position : Before(j) = (j - 1) * K
  BY <1>1 DEF Before
<1>6. Before(i) \in Nat
  BY <1>3, <1>4, <1>5
<1>7. ASSUME NEW j \in Position, i < j PROVE Before(i) + K <= Before(j)
  <2>1. i - 1 < j - 1
    BY <1>1, <1>7
  <2>. QED
    BY <1>2, <1>4, <1>5, <2>1
<1>8. ASSUME i <= L PROVE Before(i) + K <= K * L
  <2>1. i - 1 < L
    BY <1>1, <1>8
  <2>. QED
    BY <1>1, <1>2, <1>4, <1>5, <2>1
<1>9. Before(i) <= K * L
  <2>1. CASE i <= L
    BY <1>1, <1>6, <1>8, <2>1
  <2>2. CASE i = L + 1
    BY <1>1, <1>4, <1>5, <2>2
  <2>. QED
    BY <1>1, <2>1, <2>2
<1>10. K <= K * L
  <2>1. 0 * K + K <= L * K
    BY <1>1, <1>2
  <2>. QED
    BY <1>1, <1>4, <2>1
<1>11. \A x \in Nat : x + RetryTimes + 1 = x + K
  BY <1>1
<1>. QED
  BY <1>1, <1>6, <1>7, <1>8, <1>9, <1>10, <1>11 DEF L, K

\* As long as one group is used the counter counts the attempts.
OneGroup(r) ==
    /\ r.reset = FALSE
    /\ r.pc \in {"new", "priced"} => r.rounds = 0 /\ r.retry = 0
    /\ r.pc = "loop" => r.rounds <= r.retry /\ r.retry <= RetryTimes
    /\ r.pc = "breaker" => r.rounds <= r.retry + 1 /\ r.retry <= RetryTimes
    /\ Walks(r) /\ r.pc \in {"priced", "loop", "breaker"} /\ r.idx = Len(AutoGroups) + 1
          => RetryTimes = 0

\* After that those of the group at idx; a counter that was reset has the last attempt of
\* the group before still in flight.
Walking(r) ==
    /\ r.pc = "loop" =>
          /\ r.reset = FALSE /\ r.retry <= RetryTimes
          /\ r.rounds <= Before(r.idx) + r.retry
          /\ r.idx = Len(AutoGroups) + 1 => r.retry = 0
    /\ r.pc = "breaker" =>
          /\ r.retry <= RetryTimes
          /\ r.reset => r.retry = 0 /\ r.rounds <= Before(r.idx)
          /\ ~r.reset => r.rounds <= Before(r.idx) + r.retry + 1 /\ r.idx <= Len(AutoGroups)

Limit(r) == (RetryTimes + 1) * (IF Walks(r) THEN Len(AutoGroups) ELSE 1)

Paced(r) ==
    /\ r.rounds <= Limit(r)
    /\ r.pc \in {"new", "priced"} => r.meta = FALSE
    /\ r.pc \in {"new", "priced", "loop", "breaker"} =>
          IF Walks(r) /\ r.meta = TRUE THEN Walking(r) ELSE OneGroup(r)

\* The limit in terms of the attempts of the groups before.
LEMMA LimitFacts ==
    ASSUME NEW r \in Request
    PROVE  /\ RetryTimes \in Nat /\ r.rounds \in Nat /\ r.retry \in Nat /\ r.idx \in Position
           /\ Limit(r) \in Nat /\ RetryTimes + 1 <= Limit(r)
           /\ Walks(r) => Before(r.idx) \in Nat /\ Before(r.idx) <= Limit(r)
           /\ Walks(r) /\ r.idx <= Len(AutoGroups) => Before(r.idx) + RetryTimes + 1 <= Limit(r)
<1>1. RetryTimes \in Nat /\ r.rounds \in Nat /\ r.retry \in Nat /\ r.idx \in Position
  BY SelectSets DEF Request
<1>2. CASE Walks(r)
  <2>1. Limit(r) = (RetryTimes + 1) * Len(AutoGroups)
    BY <1>2 DEF Limit
  <2>2. (RetryTimes + 1) * Len(AutoGroups) \in Nat
    BY <1>1, SelectSets
  <2>. QED
    BY <1>1, <2>1, <2>2, BeforeFacts
<1>3. CASE ~Walks(r)
  <2>1. Limit(r) = RetryTimes + 1
    BY <1>1, <1>3 DEF Limit
  <2>. QED
    BY <1>1, <1>3, <2>1
<1>. QED
  BY <1>2, <1>3

\* The first channel.
LEMMA DistributePaced ==
    ASSUME TypeInv, Paced(req), Distribute
    PROVE  Paced(req)'
<1>1. /\ req' \in Request /\ req'.kind = req.kind /\ req'.meta = req.meta
      /\ req'.rounds = req.rounds /\ req.pc = "new" /\ req \in Request
  BY DistributeEffect DEF TypeInv
<1>2. OneGroup(req) /\ req.meta = FALSE /\ req.rounds = 0 /\ req.retry = 0 /\ req.reset = FALSE
  BY <1>1 DEF Paced, OneGroup
<1>3. req'.rounds <= Limit(req')
  BY <1>1 DEF Paced, Limit, Walks
<1>4. CASE req'.pc = "rejected"
  BY <1>1, <1>2, <1>3, <1>4 DEF Paced
<1>5. CASE req'.pc = "priced" /\ req.kind = "specific" /\ req'.retry = req.retry
           /\ req'.reset = req.reset
  BY <1>1, <1>2, <1>3, <1>5 DEF Paced, OneGroup, Walks
<1>6. CASE /\ req'.pc = "priced" /\ req.kind # "specific"
           /\ req'.retry = 0 /\ req'.reset = FALSE
           /\ \E r \in Select(req, TokenGroup) :
                 Found(req, r, TokenGroup) /\ req'.auto = r.auto /\ req'.idx = r.idx
                    /\ req'.chan = r.chan
  <2>1. ASSUME Walks(req), req'.idx = Len(AutoGroups) + 1 PROVE RetryTimes = 0
    <3> DEFINE i == Min(Open(req))
    <3>1. Open(req) # {} /\ \E r : From(req, r, i) /\ req'.idx = r.idx
      BY <1>6, <2>1 DEF Found
    <3>2. i \in req.idx .. Len(AutoGroups) /\ req.idx \in Position
      BY <1>1, <3>1, OpenGroup DEF Request
    <3>3. Entered(req, i) = 0
      BY <1>2 DEF Entered
    <3>4. Exhausted(req, 0)
      BY <2>1, <3>1, <3>2, <3>3, SelectSets DEF From, Position
    <3>. QED
      BY <3>4, SelectSets DEF Exhausted
  <2>. QED
    BY <1>1, <1>2, <1>3, <1>6, <2>1 DEF Paced, OneGroup, Walks
<1>. QED
  BY <1>4, <1>5, <1>6, DistributeEffect

\* A channel of another group, or of the same one.
LEMMA WalkPaced ==
    ASSUME NEW q \in Request, NEW r \in Request, Walks(q), q.meta = TRUE, q.pc = "loop", Paced(q),
           r.kind = q.kind, r.meta = TRUE, r.pc \in {"breaker", "failed"}, r.rounds = q.rounds + 1,
           Open(q) # {}, From(q, r, Min(Open(q)))
    PROVE  Paced(r)
<1> DEFINE i == Min(Open(q))
           n == Entered(q, i)
<1>1. /\ RetryTimes \in Nat /\ q.rounds \in Nat /\ q.retry \in Nat /\ q.idx \in Position
      /\ q.retry <= RetryTimes /\ q.reset = FALSE /\ q.rounds <= Before(q.idx) + q.retry
  BY LimitFacts DEF Paced, Walking
<1>2. i \in q.idx .. Len(AutoGroups) /\ Len(AutoGroups) \in Nat
  BY <1>1, OpenGroup, SelectSets
<1>3. i \in Position /\ i + 1 \in Position /\ i < i + 1 /\ i <= Len(AutoGroups) /\ i >= q.idx /\ q.idx \in Nat
  BY <1>1, <1>2 DEF Position
<1>4. /\ Before(q.idx) \in Nat /\ Before(i) \in Nat /\ Before(i + 1) \in Nat
      /\ Before(i) + RetryTimes + 1 <= Before(i + 1)
      /\ q.idx < i => Before(q.idx) + RetryTimes + 1 <= Before(i)
  BY <1>1, <1>3, BeforeFacts
<1>5. n \in Nat /\ n <= RetryTimes /\ r.rounds <= Before(i) + n + 1
  <2>1. CASE i = q.idx
    BY <1>1, <1>4, <2>1 DEF Entered
  <2>2. CASE i # q.idx
    <3>1. n = 0
      BY <2>2 DEF Entered
    <3>2. Before(q.idx) + RetryTimes + 1 <= Before(i)
      BY <1>1, <1>3, <1>4, <2>2 DEF Position
    <3> HIDE DEF i, n
    <3>. QED
      BY <1>1, <1>4, <3>1, <3>2
  <2>. QED
    BY <2>1, <2>2
<1>6. Walks(r) /\ r.pc # "loop" /\ r.pc \notin {"new", "priced"}
  BY DEF Walks
<1>7. CASE Exhausted(q, n)
  <2>1. n >= RetryTimes /\ r.idx = i + 1 /\ r.retry = 0 /\ r.reset = TRUE
    BY <1>7 DEF Exhausted, From
  <2>2. r.rounds <= Before(r.idx)
    <3>1. n = RetryTimes
      BY <1>1, <1>5, <2>1
    <3>2. r.rounds \in Nat /\ r.rounds <= Before(i) + RetryTimes + 1
      BY <1>1, <1>5, <3>1
    <3>. QED
      BY <1>1, <1>4, <2>1, <3>2
  <2>3. r.rounds <= Limit(r)
    <3>1. Before(r.idx) <= Limit(r) /\ Limit(r) \in Nat /\ Before(r.idx) \in Nat /\ r.rounds \in Nat
      BY <1>6, LimitFacts
    <3>. QED
      BY <2>2, <3>1
  <2>. QED
    BY <1>1, <1>6, <2>1, <2>2, <2>3 DEF Paced, Walking
<1>8. CASE ~Exhausted(q, n)
  <2>1. r.idx = i /\ r.retry = n /\ r.reset = FALSE
    BY <1>1, <1>8 DEF From
  <2>2. r.rounds <= Before(r.idx) + r.retry + 1 /\ r.idx <= Len(AutoGroups) /\ r.retry <= RetryTimes
    BY <1>3, <1>5, <2>1
  <2>3. r.rounds <= Limit(r)
    <3>1. /\ Before(r.idx) + RetryTimes + 1 <= Limit(r) /\ Limit(r) \in Nat
          /\ Before(r.idx) \in Nat /\ r.rounds \in Nat /\ r.retry \in Nat
      BY <1>6, <2>2, LimitFacts
    <3>. QED
      BY <1>1, <2>2, <3>1
  <2>. QED
    BY <1>6, <2>1, <2>2, <2>3 DEF Paced, Walking
<1>. QED
  BY <1>7, <1>8

\* The next channel.
LEMMA LoopPaced ==
    ASSUME TypeInv, Paced(req), GetChannel \/ NoKey
    PROVE  Paced(req)'
<1>1. /\ req' \in Request /\ req'.kind = req.kind /\ req'.meta = req.meta /\ req.pc = "loop"
      /\ req \in Request /\ req.rounds \in Nat /\ req.retry \in Nat /\ RetryTimes \in Nat
  BY LoopEffect, LimitFacts DEF TypeInv
<1>2. CASE req'.pc = "failed" /\ req'.rounds = req.rounds
  BY <1>1, <1>2 DEF Paced, Limit, Walks
<1>3. ASSUME OneGroup(req), ~Walks(req) \/ req.meta = FALSE,
             req'.pc \in {"breaker", "failed"}, req'.rounds = req.rounds + 1,
             req'.idx = req.idx, req'.retry = req.retry, req'.reset = req.reset
      PROVE  Paced(req)'
  <2>1. req'.rounds <= req'.retry + 1 /\ req'.retry <= RetryTimes
    BY <1>1, <1>3 DEF OneGroup
  <2>2. req'.rounds <= Limit(req')
    <3>1. RetryTimes + 1 <= Limit(req') /\ Limit(req') \in Nat
      BY <1>1, LimitFacts
    <3>. QED
      BY <1>1, <1>3, <2>1, <3>1
  <2>3. Walks(req') <=> Walks(req)
    BY <1>1 DEF Walks
  <2>4. OneGroup(req')
    BY <1>1, <1>3, <2>1, <2>3 DEF OneGroup
  <2>. QED
    BY <1>1, <1>3, <2>2, <2>3, <2>4 DEF Paced
<1>4. CASE /\ req.meta = FALSE /\ req'.pc = "breaker" /\ req'.rounds = req.rounds + 1
           /\ req'.idx = req.idx /\ req'.retry = req.retry /\ req'.reset = req.reset
  BY <1>1, <1>3, <1>4 DEF Paced
<1>5. CASE /\ req.meta = TRUE /\ req'.rounds = req.rounds + 1
           /\ Found(req, req', RetriedGroup) /\ req'.pc \in {"failed", "breaker"}
  <2>1. CASE Walks(req)
    <3>1. Open(req) # {} /\ From(req, req', Min(Open(req)))
      BY <1>5, <2>1 DEF Found
    <3>. QED
      BY <1>1, <1>5, <2>1, <3>1, WalkPaced
  <2>2. CASE ~Walks(req)
    BY <1>1, <1>3, <1>5, <2>2 DEF Found, Paced
  <2>. QED
    BY <2>1, <2>2
<1>. QED
  BY <1>2, <1>4, <1>5, LoopEffect

\* The end of a round.
LEMMA RoundPaced ==
    ASSUME TypeInv, Paced(req), BreakerRefuses \/ BodyUnreadable \/ Served \/ Fails
    PROVE  Paced(req)'
<1>1. /\ req' \in Request /\ req.pc = "breaker" /\ req'.kind = req.kind /\ req'.idx = req.idx
      /\ req'.rounds = req.rounds /\ req \in Request
  BY RoundEffect DEF TypeInv
<1>2. /\ req.rounds \in Nat /\ req.retry \in Nat /\ RetryTimes \in Nat /\ req.idx \in Position
      /\ Len(AutoGroups) \in Nat /\ req.reset \in BOOLEAN /\ req.meta \in BOOLEAN
  BY <1>1, LimitFacts, SelectSets DEF Request
<1>3. req'.rounds <= Limit(req') /\ (Walks(req') <=> Walks(req))
  BY <1>1 DEF Paced, Limit, Walks
<1>4. CASE req'.pc \in {"failed", "served", "unserved"}
  BY <1>3, <1>4 DEF Paced
<1>5. CASE /\ req'.meta = req.meta \/ req'.meta = TRUE
           /\ req'.reset = FALSE /\ req'.pc = "loop" /\ req'.retry <= RetryTimes
           /\ req.reset => req'.retry = req.retry
           /\ ~req.reset => req'.retry = req.retry + 1
  <2>1. CASE Walks(req) /\ req.meta = TRUE
    <3>1. Walking(req) /\ req'.meta = TRUE
      BY <1>1, <1>5, <2>1 DEF Paced
    <3>2. Before(req.idx) \in Nat
      BY <1>2, BeforeFacts
    <3>3. Walking(req')
      <4>1. CASE req.reset = TRUE
        BY <1>1, <1>2, <1>5, <3>1, <3>2, <4>1 DEF Walking
      <4>2. CASE req.reset = FALSE
        <5>1. req'.rounds <= Before(req'.idx) + req'.retry
          BY <1>1, <1>2, <1>5, <3>1, <3>2, <4>2 DEF Walking
        <5>2. req'.idx # Len(AutoGroups) + 1
          BY <1>1, <1>2, <3>1, <4>2 DEF Walking, Position
        <5>. QED
          BY <1>5, <5>1, <5>2 DEF Walking
      <4>. QED
        BY <1>2, <4>1, <4>2
    <3>. QED
      BY <1>3, <1>5, <2>1, <3>1, <3>3 DEF Paced
  <2>2. CASE ~(Walks(req) /\ req.meta = TRUE)
    <3>1. OneGroup(req)
      BY <1>1, <2>2 DEF Paced
    <3>2. req.reset = FALSE /\ req'.retry = req.retry + 1 /\ req'.rounds <= req'.retry
      BY <1>1, <1>2, <1>5, <3>1 DEF OneGroup
    <3>3. CASE Walks(req') /\ req'.meta = TRUE
      <4>1. req'.idx # Len(AutoGroups) + 1
        BY <1>1, <1>2, <1>3, <1>5, <3>1, <3>2, <3>3 DEF OneGroup
      <4>2. Before(req.idx) \in Nat
        BY <1>2, BeforeFacts
      <4>3. Walking(req')
        BY <1>1, <1>2, <1>5, <3>2, <4>1, <4>2 DEF Walking
      <4>. QED
        BY <1>3, <1>5, <3>3, <4>3 DEF Paced
    <3>4. CASE ~(Walks(req') /\ req'.meta = TRUE)
      <4>1. OneGroup(req')
        BY <1>1, <1>3, <1>5, <3>1, <3>2 DEF OneGroup
      <4>. QED
        BY <1>3, <1>5, <3>4, <4>1 DEF Paced
    <3>. QED
      BY <3>3, <3>4
  <2>. QED
    BY <2>1, <2>2
<1>. QED
  BY <1>4, <1>5, RoundEffect

\* The counter, the position and the number of attempts stay in step.
THEOREM Paces == Spec => []Paced(req)
<1> DEFINE Inv == Paced(req)
<1>1. Init => Inv
  <2> SUFFICES ASSUME Init PROVE Inv
    OBVIOUS
  <2>1. /\ req.pc = "new" /\ req.retry = 0 /\ req.reset = FALSE /\ req.meta = FALSE /\ req.rounds = 0
        /\ req \in Request
    <3>1. PICK k \in Kinds :
             req = [kind |-> k, pc |-> "new", chan |-> None, idx |-> 1, retry |-> 0, reset |-> FALSE,
                    auto |-> None, billed |-> None, meta |-> FALSE, rounds |-> 0]
      BY DEF Init
    <3>2. 1 \in Position
      BY SelectSets DEF Position
    <3>. QED
      BY <3>1, <3>2 DEF Request, Places
  <2>2. Limit(req) \in Nat
    BY <2>1, LimitFacts
  <2>. QED
    BY <2>1, <2>2 DEF Paced, OneGroup
<1>2. TypeInv /\ Inv /\ [Next]_vars => Inv'
  <2> SUFFICES ASSUME TypeInv, Inv, [Next]_vars PROVE Inv'
    OBVIOUS
  <2>1. CASE Price
    <3>1. /\ req.pc = "priced" /\ req'.pc = "loop" /\ req'.kind = req.kind /\ req'.idx = req.idx
          /\ req'.retry = req.retry /\ req'.reset = req.reset /\ req'.meta = req.meta
          /\ req'.rounds = req.rounds
      BY <2>1, PriceEffect
    <3>2. OneGroup(req) /\ req.meta = FALSE /\ RetryTimes \in Nat
      BY <3>1, SelectSets DEF Paced
    <3>3. (Walks(req') <=> Walks(req)) /\ Limit(req') = Limit(req)
      BY <3>1 DEF Walks, Limit
    <3>4. OneGroup(req')
      BY <3>1, <3>2, <3>3 DEF OneGroup
    <3>. QED
      BY <3>1, <3>2, <3>3, <3>4 DEF Paced
  <2>2. CASE req' = req
    BY <2>2 DEF Paced, OneGroup, Walking, Limit, Walks
  <2>. QED
    BY <2>1, <2>2, Meanwhile, DistributePaced, LoopPaced, RoundPaced DEF Loop
<1>. QED
  BY <1>1, <1>2, Typed, PTL DEF Spec

\* However the groups, the counter and its reset interact, a request is given at most
\* RetryTimes + 1 channels from each group it may use.
THEOREM Bounded == Spec => []RoundsBounded
<1>1. Paced(req) => RoundsBounded
  BY DEF Paced, Limit, Walks, RoundsBounded, IsAuto
<1>. QED
  BY <1>1, Paces, PTL

-----------------------------------------------------------------------------
(* The draw.                                                                  *)

\* What a weight becomes is a weight.
LEMMA WeightType ==
    ASSUME TypeInv, NEW c \in Channels
    PROVE  /\ Weight[c] \in Nat /\ AdjustedWeight(c) \in Int
           /\ AdjustedWeight(c) >= 0 /\ (Scored(c) => AdjustedWeight(c) >= 1)
<1>1. stats[c].ok \in Nat /\ stats[c].bad \in Nat /\ Weight[c] \in Nat
  BY SelectSets DEF TypeInv, Outcome
<1>2. CASE Scored(c)
  <2>1. stats[c].ok + stats[c].bad \in Nat \ {0}
    BY <1>1, <1>2 DEF Scored
  <2>2. (50 * stats[c].ok) \div (stats[c].ok + stats[c].bad) \in Int
    BY <1>1, <2>1
  <2>3. Score(c) \in Int
    BY <2>2 DEF Score
  <2>4. (Weight[c] * (50 + Score(c))) \div 100 \in Int
    BY <1>1, <2>3
  <2>. QED
    BY <1>1, <1>2, <2>4 DEF AdjustedWeight, AtLeastOne
<1>3. CASE ~Scored(c)
  BY <1>1, <1>3 DEF AdjustedWeight
<1>. QED
  BY <1>2, <1>3

\* The shares add up to the range of the random number.
LEMMA SharesFill ==
    ASSUME TypeInv, NEW cs \in SUBSET Channels, cs # {}
    PROVE  /\ Added(Share(cs), cs) = Total(cs) /\ Total(cs) \in Int
           /\ \A c \in cs : Share(cs)[c] \in Int /\ Share(cs)[c] >= 0
           /\ \A c \in cs : Share(cs)[c] = 0 => Effective(cs)[c] = 0
<1> DEFINE W == Effective(cs)
           S == SumWeight(cs)
           F == Smoothing(cs)
<1>1. IsFiniteSet(cs) /\ \A c \in cs : c \in Channels
  BY SelectSets, FS_Subset
<1>2. \A c \in cs : W[c] \in Nat
  BY <1>1, WeightType DEF Effective
<1>3. S = Sum(W, cs) /\ S \in Int
  <2>1. S = Sum(W, cs)
    BY DEF SumWeight, Added, Sum
  <2>. QED
    BY <1>1, <1>2, <2>1, SumInt
<1>4. F \in {1, 100}
  BY DEF Smoothing
<1>5. Added(Share(cs), cs) = Sum(Share(cs), cs)
  BY DEF Added, Sum
<1>6. CASE S = 0
  <2>1. \A c \in cs : Share(cs)[c] = 100
    BY <1>6 DEF Share
  <2>2. Sum(Share(cs), cs) = Cardinality(cs) * 100
    BY <1>1, <2>1, SumConstant
  <2>. QED
    <3>1. Cardinality(cs) * 100 \in Int
      BY <1>1, FS_CardinalityType
    <3>. QED
      BY <1>5, <1>6, <2>1, <2>2, <3>1 DEF Total
<1>7. CASE S # 0
  <2>1. \A c \in cs : Share(cs)[c] = W[c] * F
    BY <1>7 DEF Share
  <2>2. Sum(Share(cs), cs) = Sum(W, cs) * F
    <3>1. F \in Int /\ \A c \in cs : W[c] \in Int /\ Share(cs)[c] = W[c] * F
      BY <1>2, <1>4, <2>1
    <3> HIDE DEF W, F
    <3>. QED
      BY <1>1, <3>1, SumScale
  <2>3. \A c \in cs : W[c] * F \in Int /\ W[c] * F >= 0 /\ (W[c] * F = 0 => W[c] = 0)
    <3> SUFFICES ASSUME NEW c \in cs
                 PROVE  W[c] * F \in Int /\ W[c] * F >= 0 /\ (W[c] * F = 0 => W[c] = 0)
      OBVIOUS
    <3>1. W[c] \in Nat
      BY <1>2
    <3> HIDE DEF W, F
    <3>2. CASE F = 1
      BY <3>1, <3>2
    <3>3. CASE F = 100
      BY <3>1, <3>3
    <3>. QED
      BY <1>4, <3>2, <3>3
  <2>4. Total(cs) = Sum(W, cs) * F /\ Total(cs) \in Int
    BY <1>3, <1>4, <1>7 DEF Total
  <2>. QED
    BY <1>5, <2>1, <2>2, <2>3, <2>4
<1>. QED
  BY <1>6, <1>7

\* Whatever the scores have done to the weights, the random number ends at a channel, and no
\* channel that has a weight or a score of its own is left without a share.
THEOREM DrawFair == Spec => []EveryDrawFair
<1>1. TypeInv => EveryDrawFair
  <2> SUFFICES ASSUME TypeInv, NEW cs \in Drawn
               PROVE  /\ None \notin Picks(cs)
                      /\ \A c \in cs \ Picks(cs) : Weight[c] = 0 /\ ~Scored(c)
    BY DEF EveryDrawFair
  <2>1. cs \in SUBSET Channels /\ cs # {}
    <3>1. PICK g \in Range(AutoGroups) :
             \E p \in Priorities(g) : cs = {c \in Candidates(g) : Priority[c] = p}
      BY DEF Drawn
    <3>2. Candidates(g) \subseteq Channels
      BY DEF Candidates, TypeInv
    <3>. QED
      BY <3>1, <3>2 DEF Priorities
  <2>2. /\ Added(Share(cs), cs) = Total(cs) /\ Total(cs) \in Int
        /\ \A c \in cs : Share(cs)[c] \in Int /\ Share(cs)[c] >= 0
        /\ \A c \in cs : Share(cs)[c] = 0 => Effective(cs)[c] = 0
    BY <2>1, SharesFill
  <2>3. None \notin cs
    BY <2>1, SelectSets
  <2>5. None \notin Picks(cs)
    BY <2>2, <2>3 DEF Picks
  <2>6. ASSUME NEW c \in cs \ Picks(cs) PROVE Weight[c] = 0 /\ ~Scored(c)
    <3>1. Share(cs)[c] = 0
      BY <2>2, <2>6 DEF Picks
    <3>2. Effective(cs)[c] = 0 /\ c \in Channels
      BY <2>1, <2>2, <3>1
    <3>3. CASE Adjusts(cs)
      BY <3>2, <3>3, WeightType DEF Effective, AdjustedWeight
    <3>4. CASE ~Adjusts(cs)
      BY <3>2, <3>4 DEF Effective, Adjusts
    <3>. QED
      BY <3>3, <3>4
  <2>. QED
    BY <2>5, <2>6
<1>. QED
  BY <1>1, Typed, PTL

-----------------------------------------------------------------------------
(* The order of the priorities.                                               *)

Above(P, p) == {q \in P : q > p}

\* What is above a number is above every smaller one, and so is the number itself.
LEMMA AboveLess ==
    ASSUME NEW P \in SUBSET Int, IsFiniteSet(P), NEW p \in P, NEW q \in P, p < q
    PROVE  Cardinality(Above(P, q)) + 1 <= Cardinality(Above(P, p))
<1>1. IsFiniteSet(Above(P, q)) /\ IsFiniteSet(Above(P, p))
  <2>1. Above(P, q) \subseteq P /\ Above(P, p) \subseteq P
    BY DEF Above
  <2>. QED
    BY <2>1, FS_Subset
<1>2. q \notin Above(P, q) /\ Above(P, q) \cup {q} \subseteq Above(P, p)
  <2>1. p \in Int /\ q \in Int /\ q > p /\ ~(q > q) /\ \A x \in P : x \in Int /\ (x > q => x > p)
    OBVIOUS
  <2>. QED
    BY <2>1 DEF Above
<1>3. Cardinality(Above(P, q) \cup {q}) = Cardinality(Above(P, q)) + 1
  BY <1>1, <1>2, FS_AddElement
<1>4. Cardinality(Above(P, q) \cup {q}) <= Cardinality(Above(P, p))
  BY <1>1, <1>2, FS_Subset
<1>. QED
  BY <1>3, <1>4

\* Fewer are above a number than there are.
LEMMA AboveRange ==
    ASSUME NEW P \in SUBSET Int, IsFiniteSet(P), NEW p \in P
    PROVE  Cardinality(Above(P, p)) \in 0 .. Cardinality(P) - 1
<1>1. Above(P, p) \subseteq P \ {p} /\ IsFiniteSet(P \ {p}) /\ Cardinality(P \ {p}) = Cardinality(P) - 1
  <2>1. ~(p > p)
    OBVIOUS
  <2>2. Above(P, p) \subseteq P \ {p}
    BY <2>1 DEF Above
  <2>3. IsFiniteSet(P \ {p}) /\ Cardinality(P \ {p}) = Cardinality(P) - 1
    BY FS_RemoveElement
  <2>. QED
    BY <2>2, <2>3
<1>2. IsFiniteSet(Above(P, p)) /\ Cardinality(Above(P, p)) <= Cardinality(P \ {p})
  BY <1>1, FS_Subset
<1>3. Cardinality(Above(P, p)) \in Nat /\ Cardinality(P) \in Nat
  BY <1>2, FS_CardinalityType
<1>. QED
  BY <1>1, <1>2, <1>3

\* Every rank is taken.
LEMMA Ranked ==
    ASSUME NEW P \in SUBSET Int, IsFiniteSet(P), NEW k \in 0 .. Cardinality(P) - 1
    PROVE  \E p \in P : Cardinality(Above(P, p)) = k
<1> DEFINE n == Cardinality(P)
           R == 0 .. n - 1
           f == [p \in P |-> Cardinality(Above(P, p))]
<1>1. n \in Nat
  BY FS_CardinalityType
<1>2. IsFiniteSet(R) /\ Cardinality(R) = n
  <2>0. ASSUME NEW b \in Int
        PROVE  /\ IsFiniteSet(0 .. b)
               /\ Cardinality(0 .. b) = IF 0 > b THEN 0 ELSE b - 0 + 1
    BY FS_Interval, 0 \in Int
  <2>1. IsFiniteSet(0 .. n - 1) /\ Cardinality(0 .. n - 1) = IF 0 > n - 1 THEN 0 ELSE (n - 1) - 0 + 1
    <3> HIDE DEF n
    <3>1. n - 1 \in Int
      BY <1>1
    <3>. QED
      BY <2>0, <3>1
  <2>. QED
    BY <1>1, <2>1
<1>3. f \in [P -> R]
  <2>1. \A p \in P : Cardinality(Above(P, p)) \in 0 .. Cardinality(P) - 1
    BY AboveRange
  <2>. QED
    BY <2>1
<1>4. ASSUME NEW p \in P, NEW q \in P, f[p] = f[q] PROVE p = q
  <2>1. Cardinality(Above(P, p)) \in Int /\ Cardinality(Above(P, p)) = Cardinality(Above(P, q))
    <3>1. Cardinality(Above(P, p)) \in 0 .. Cardinality(P) - 1
      BY AboveRange
    <3>. QED
      BY <1>4, <3>1
  <2>2. ~(p < q)
    <3>1. p < q => Cardinality(Above(P, q)) + 1 <= Cardinality(Above(P, p))
      BY AboveLess
    <3>. QED
      BY <2>1, <3>1
  <2>3. ~(q < p)
    <3>1. q < p => Cardinality(Above(P, p)) + 1 <= Cardinality(Above(P, q))
      BY AboveLess
    <3>. QED
      BY <2>1, <3>1
  <2>. QED
    BY <2>2, <2>3
<1>5. f \in Injection(P, R)
  <2> HIDE DEF f, R
  <2>. QED
    BY <1>3, <1>4 DEF Injection, IsInjective
<1>6. f \in Surjection(P, R)
  <2>. HIDE DEF f, R
  <2>. QED
    BY <1>2, <1>5, FS_Injection DEF n
<1>7. k \in R
  OBVIOUS
<1>. QED
  <2>1. \E p \in P : f[p] = k
    BY <1>6, <1>7 DEF Surjection
  <2>. QED
    BY <2>1

\* The priorities of a group are finitely many numbers.
LEMMA PrioritySet ==
    ASSUME TypeInv, NEW g
    PROVE  /\ Priorities(g) \in SUBSET Int /\ IsFiniteSet(Priorities(g))
           /\ Candidates(g) # {} => Priorities(g) # {}
<1> DEFINE f == [c \in Candidates(g) |-> Priority[c]]
<1>1. Candidates(g) \subseteq Channels /\ IsFiniteSet(Candidates(g))
  BY SelectSets, FS_Subset DEF Candidates, TypeInv
<1>2. f \in Surjection(Candidates(g), Priorities(g))
  BY DEF Surjection, Priorities
<1>3. IsFiniteSet(Priorities(g))
  BY <1>1, <1>2, FS_Surjection
<1>. QED
  BY <1>1, <1>3, SelectSets DEF Priorities

\* The priority a retry asks for has as many above it as there were retries, or is the last.
LEMMA TargetRank ==
    ASSUME TypeInv, NEW g, Candidates(g) # {}, NEW n \in Nat
    PROVE  /\ TargetPriority(g, n) \in Priorities(g)
           /\ Cardinality(Above(Priorities(g), TargetPriority(g, n))) = Level(g, n)
           /\ Cardinality(Priorities(g)) \in Nat
           /\ Level(g, n) = IF n <= Cardinality(Priorities(g)) - 1 THEN n ELSE Cardinality(Priorities(g)) - 1
<1> DEFINE P == Priorities(g)
           m == Cardinality(P)
<1>1. P \in SUBSET Int /\ IsFiniteSet(P) /\ P # {}
  BY PrioritySet
<1>2. m \in Nat /\ m >= 1
  BY <1>1, FS_CardinalityType, FS_EmptySet
<1>3. Level(g, n) = IF n <= m - 1 THEN n ELSE m - 1
  <2>1. {n, m - 1} \in SUBSET Int /\ IsFiniteSet({n, m - 1}) /\ {n, m - 1} # {}
    <3>1. IsFiniteSet({}) /\ IsFiniteSet({} \cup {n}) /\ IsFiniteSet(({} \cup {n}) \cup {m - 1})
      BY FS_EmptySet, FS_AddElement
    <3>2. ({} \cup {n}) \cup {m - 1} = {n, m - 1}
      OBVIOUS
    <3>. QED
      BY <1>2, <3>1, <3>2
  <2>2. Min({n, m - 1}) \in {n, m - 1} /\ \A y \in {n, m - 1} : Min({n, m - 1}) <= y
    BY <2>1, SmallestLargest
  <2>. QED
    BY <1>2, <2>2 DEF Level
<1>4. Level(g, n) \in 0 .. m - 1
  BY <1>2, <1>3
<1>5. \E p \in P : Cardinality(Above(P, p)) = Level(g, n)
  BY <1>1, <1>4, Ranked
<1>6. TargetPriority(g, n) \in P /\ Cardinality(Above(P, TargetPriority(g, n))) = Level(g, n)
  BY <1>5 DEF TargetPriority, Above
<1>. QED
  BY <1>2, <1>3, <1>6

\* The channel of a draw has the priority asked for.
LEMMA DrawnPriority ==
    ASSUME TypeInv, NEW g, NEW n \in Nat, NEW c \in RandomSatisfied(g, n), c # None
    PROVE  Priority[c] = TargetPriority(g, n) /\ c \in Candidates(g)
<1>1. c \in Candidates(g) /\ Candidates(g) # {}
  BY DrawnFrom
<1>2. CASE Cardinality(Candidates(g)) = 1
  <2>1. Candidates(g) = {c}
    <3>1. IsFiniteSet(Candidates(g))
      BY SelectSets, FS_Subset DEF Candidates, TypeInv
    <3>2. IsFiniteSet({c}) /\ Cardinality({c}) = 1 /\ {c} \subseteq Candidates(g)
      BY <1>1, FS_Singleton
    <3>. QED
      BY <1>2, <3>1, <3>2, FS_Subset
  <2>2. TargetPriority(g, n) \in {Priority[c]}
    BY <1>1, <2>1, TargetRank DEF Priorities
  <2>. QED
    BY <1>1, <2>2
<1>3. CASE Cardinality(Candidates(g)) # 1
  <2>1. c \in Target(g, n)
    BY <1>1, <1>3 DEF RandomSatisfied, Picks
  <2>. QED
    BY <1>1, <2>1 DEF Target
<1>. QED
  BY <1>2, <1>3

\* One more retry asks for the next lower priority.
LEMMA NextTarget ==
    ASSUME TypeInv, NEW g, Candidates(g) # {}, NEW n \in Nat
    PROVE  TargetPriority(g, n + 1) = NextLower(g, TargetPriority(g, n))
<1> DEFINE P == Priorities(g)
           m == Cardinality(P)
           p == TargetPriority(g, n)
           q == TargetPriority(g, n + 1)
           below == {x \in P : x < p}
<1>1. P \in SUBSET Int /\ IsFiniteSet(P)
  BY PrioritySet
<1>2. /\ p \in P /\ Cardinality(Above(P, p)) = (IF n <= m - 1 THEN n ELSE m - 1)
      /\ q \in P /\ Cardinality(Above(P, q)) = (IF n + 1 <= m - 1 THEN n + 1 ELSE m - 1)
      /\ m \in Nat
  <2>1. n + 1 \in Nat
    OBVIOUS
  <2>. QED
    BY <2>1, TargetRank
<1>3. NextLower(g, p) = IF below = {} THEN p ELSE Max(below)
  BY DEF NextLower
<1> HIDE DEF P, p, q, m
<1>4. ASSUME NEW x \in P PROVE Cardinality(Above(P, x)) \in Nat /\ Cardinality(Above(P, x)) <= m - 1
  BY <1>1, <1>2, AboveRange DEF m
<1>5. CASE n <= m - 2
  <2>1. Cardinality(Above(P, p)) = n /\ Cardinality(Above(P, q)) = n + 1
    BY <1>2, <1>5
  <2>2. q < p
    <3>1. p # q
      BY <2>1
    <3>2. ~(p < q)
      BY <1>1, <1>2, <2>1, AboveLess
    <3>. QED
      BY <1>1, <1>2, <3>1, <3>2
  <2>3. ASSUME NEW x \in below PROVE x <= q
    <3>1. x \in P /\ x < p /\ x \in Int /\ q \in Int
      BY <1>1, <1>2
    <3>2. CASE q < x
      <4>1. Cardinality(Above(P, x)) + 1 <= Cardinality(Above(P, q))
        BY <1>1, <1>2, <3>1, <3>2, AboveLess
      <4>2. Cardinality(Above(P, p)) + 1 <= Cardinality(Above(P, x))
        BY <1>1, <1>2, <3>1, AboveLess
      <4>3. Cardinality(Above(P, x)) \in Nat
        BY <1>4, <3>1
      <4>. QED
        BY <2>1, <4>1, <4>2, <4>3
    <3>. QED
      BY <3>1, <3>2
  <2>4. q \in below
    BY <1>2, <2>2
  <2>5. Max(below) = q
    <3>0. below \subseteq P
      OBVIOUS
    <3> HIDE DEF below
    <3>1. below \in SUBSET Int /\ IsFiniteSet(below) /\ below # {}
      <4>1. P \subseteq Int
        BY <1>1
      <4>. QED
        BY <1>1, <2>4, <3>0, <4>1, FS_Subset
    <3>2. Max(below) \in below /\ \A y \in below : y <= Max(below)
      BY <3>1, SmallestLargest
    <3>3. Max(below) <= q /\ q <= Max(below) /\ q \in Int /\ Max(below) \in Int
      BY <2>3, <2>4, <3>1, <3>2
    <3>. QED
      BY <3>3
  <2>. QED
    BY <1>3, <2>4, <2>5 DEF q, p
<1>6. CASE ~(n <= m - 2)
  <2>1. Cardinality(Above(P, p)) = m - 1 /\ Cardinality(Above(P, q)) = m - 1
    BY <1>2, <1>6
  <2>2. below = {}
    <3> SUFFICES ASSUME NEW x \in P, x < p PROVE FALSE
      OBVIOUS
    <3>1. Cardinality(Above(P, p)) + 1 <= Cardinality(Above(P, x))
      BY <1>1, <1>2, AboveLess
    <3>. QED
      BY <1>2, <1>4, <2>1, <3>1
  <2>3. q = p
    <3>1. ~(q < p)
      BY <1>2, <2>2
    <3>2. ~(p < q)
      BY <1>1, <1>2, <2>1, AboveLess
    <3>. QED
      BY <1>1, <1>2, <3>1, <3>2
  <2>. QED
    BY <1>3, <2>2, <2>3 DEF p, q
<1>. QED
  BY <1>2, <1>5, <1>6

\* The groups a request has left do not hold the one it is in.
Passed(r) == \A j \in r.idx .. Len(AutoGroups) : AutoGroups[j] # r.auto

\* The priority every retry asks for, and the groups that have a channel, in this list.
Targets == [g \in Named |-> [n \in Nat |-> TargetPriority(g, n)]]
Offered == {g \in Named : Candidates(g) # {}}

\* The channel has the priority that was asked for, in the group at idx: the counter has
\* moved on when the channel failed.
Asked(r) == IF r.pc = "loop" /\ r.meta = TRUE THEN r.retry - 1 ELSE r.retry

Current(r) ==
    /\ r.idx \in 1 .. Len(AutoGroups) /\ r.auto = AutoGroups[r.idx] /\ r.reset = FALSE
    /\ Asked(r) \in Nat /\ r.auto \in Offered /\ Priority[r.chan] = Targets[r.auto][Asked(r)]

Descends(r) == Walks(r) /\ r.pc \in {"priced", "loop", "breaker"} => Passed(r) \/ Current(r)
Descent == changed = FALSE /\ refused = FALSE => Descends(req)

DistinctGroups ==
    \A i, j \in 1 .. Len(AutoGroups) : AutoGroups[i] = AutoGroups[j] => i = j

\* After a selection the request is in the group at its position, or has left it behind.
LEMMA FoundDescends ==
    ASSUME TypeInv, DistinctGroups, NEW q \in Request, NEW r, NEW g, Walks(q),
           q.reset = FALSE, Found(q, r, g)
    PROVE  \/ Passed(r)
           \/ /\ r.idx \in 1 .. Len(AutoGroups) /\ r.auto = AutoGroups[r.idx] /\ r.reset = FALSE
              /\ r.retry \in Nat /\ r.auto \in Offered
              /\ Priority[r.chan] = Targets[r.auto][r.retry]
              /\ r.retry = Entered(q, r.idx)
<1> DEFINE i == Min(Open(q))
           n == Entered(q, i)
<1>1. Open(q) # {} /\ From(q, r, i) /\ r.chan # None
  BY DEF Found
<1>2. q.idx \in Position /\ q.retry \in Nat /\ Len(AutoGroups) \in Nat
  BY SelectSets DEF Request
<1>3. i \in q.idx .. Len(AutoGroups) /\ Candidates(AutoGroups[i]) # {}
  BY <1>1, <1>2, OpenGroup
<1>4. i \in 1 .. Len(AutoGroups) /\ n \in Nat
  BY <1>2, <1>3 DEF Position, Entered
<1> HIDE DEF i
<1>5. CASE Exhausted(q, n)
  <2>1. r.auto = AutoGroups[i] /\ r.idx = i + 1
    BY <1>1, <1>5 DEF From
  <2>2. ASSUME NEW j \in r.idx .. Len(AutoGroups) PROVE AutoGroups[j] # r.auto
    <3>1. j \in 1 .. Len(AutoGroups) /\ j # i
      BY <1>2, <1>4, <2>1
    <3>. QED
      BY <1>4, <2>1, <3>1 DEF DistinctGroups
  <2>. QED
    BY <2>2 DEF Passed
<1>6. CASE ~Exhausted(q, n)
  <2>1. r.auto = AutoGroups[i] /\ r.idx = i /\ r.retry = n /\ r.reset = FALSE
        /\ r.chan \in RandomSatisfied(AutoGroups[i], n)
    BY <1>1, <1>6 DEF From
  <2>2. Priority[r.chan] = TargetPriority(AutoGroups[i], n)
    BY <1>1, <1>4, <2>1, DrawnPriority
  <2>3. AutoGroups[i] \in Offered /\ Targets[AutoGroups[i]][n] = TargetPriority(AutoGroups[i], n)
    BY <1>3, <1>4, NamedGroups DEF Offered, Targets
  <2>. QED
    BY <1>4, <2>1, <2>2, <2>3
<1>. QED
  BY <1>5, <1>6

\* While the list stays as it is the same priorities are asked for.
LEMMA SameList ==
    ASSUME listed' = listed
    PROVE  Targets' = Targets /\ Offered' = Offered
<1>1. ASSUME NEW g PROVE Candidates(g)' = Candidates(g)
  BY DEF Candidates
<1>2. ASSUME NEW g PROVE Priorities(g)' = Priorities(g)
  BY <1>1 DEF Priorities
<1>3. ASSUME NEW g, NEW n PROVE TargetPriority(g, n)' = TargetPriority(g, n)
  BY <1>2 DEF TargetPriority, Level
<1>. QED
  BY <1>1, <1>3 DEF Targets, Offered

\* A selection starts the descent anew, whatever it was before.
LEMMA SelectionDescends ==
    ASSUME TypeInv, Paced(req), DistinctGroups, NEW g, NEW r, Found(req, r, g), listed' = listed,
           req' \in Request, req'.kind = req.kind, req'.chan = r.chan, req'.idx = r.idx,
           req'.auto = r.auto, req.pc \in {"new", "loop"}, req.pc = "loop" => req.meta = TRUE,
           req'.pc \in {"priced", "breaker", "failed"},
           \/ req'.retry = r.retry /\ req'.reset = r.reset
           \/ req.pc = "new" /\ req'.retry = 0 /\ req'.reset = FALSE
    PROVE  Descends(req)'
<1> SUFFICES ASSUME Walks(req'), req'.pc \in {"priced", "breaker"}
             PROVE  Passed(req') \/ Current(req)'
  BY DEF Descends
<1>1. req \in Request /\ Walks(req) /\ req.reset = FALSE
  BY DEF TypeInv, Walks, Paced, Walking, OneGroup
<1>2. \/ Passed(r)
      \/ /\ r.idx \in 1 .. Len(AutoGroups) /\ r.auto = AutoGroups[r.idx] /\ r.reset = FALSE
         /\ r.retry \in Nat /\ r.auto \in Offered
         /\ Priority[r.chan] = Targets[r.auto][r.retry]
         /\ r.retry = Entered(req, r.idx)
  BY <1>1, FoundDescends
<1>3. Targets' = Targets /\ Offered' = Offered
  BY SameList
<1>4. req.pc = "new" => req.retry = 0
  BY DEF Paced, OneGroup
<1>5. CASE Passed(r)
  BY <1>5 DEF Passed
<1>6. CASE /\ r.idx \in 1 .. Len(AutoGroups) /\ r.auto = AutoGroups[r.idx] /\ r.reset = FALSE
           /\ r.retry \in Nat /\ r.auto \in Offered
           /\ Priority[r.chan] = Targets[r.auto][r.retry]
           /\ r.retry = Entered(req, r.idx)
  <2>1. req'.retry = r.retry /\ req'.reset = FALSE
    BY <1>4, <1>6 DEF Entered
  <2>2. Asked(req') = req'.retry
    BY DEF Asked
  <2>. QED
    BY <1>3, <1>6, <2>1, <2>2 DEF Current
<1>. QED
  BY <1>2, <1>5, <1>6

\* The next channel of the same group has the next lower priority.
LEMMA NextPriority ==
    ASSUME TypeInv, DistinctGroups, Descends(req), Walks(req), req.meta = TRUE,
           GetChannel \/ NoKey, req'.pc = "breaker", req'.auto = req.auto
    PROVE  Priority[req'.chan] = NextLower(req.auto, Priority[req.chan])
<1> DEFINE i == Min(Open(req))
<1>1. req.pc = "loop" /\ Found(req, req', RetriedGroup)
  BY LoopEffect
<1>2. Open(req) # {} /\ From(req, req', i) /\ req'.chan # None
  BY <1>1 DEF Found
<1>3. req.idx \in Position /\ req.retry \in Nat /\ Len(AutoGroups) \in Nat
  BY SelectSets DEF TypeInv, Request
<1>4. i \in req.idx .. Len(AutoGroups) /\ i \in 1 .. Len(AutoGroups)
  <2>1. i \in req.idx .. Len(AutoGroups)
    BY <1>2, <1>3, OpenGroup
  <2>. QED
    BY <1>3, <2>1 DEF Position
<1> HIDE DEF i
<1>5. req.auto = AutoGroups[i] /\ req'.chan \in RandomSatisfied(req.auto, Entered(req, i))
  BY <1>2 DEF From
<1>6. Current(req)
  BY <1>1, <1>4, <1>5 DEF Descends, Passed
<1>7. i = req.idx
  BY <1>4, <1>5, <1>6 DEF Current, DistinctGroups
<1>8. /\ req.retry - 1 \in Nat /\ (req.retry - 1) + 1 = req.retry /\ Candidates(req.auto) # {}
      /\ req.auto \in Named /\ Priority[req.chan] = Targets[req.auto][req.retry - 1]
  BY <1>1, <1>3, <1>6 DEF Current, Asked, Offered
<1>9. Priority[req.chan] = TargetPriority(req.auto, req.retry - 1)
  BY <1>8 DEF Targets
<1>10. Priority[req'.chan] = TargetPriority(req.auto, req.retry)
  BY <1>2, <1>3, <1>5, <1>7, DrawnPriority DEF Entered
<1>11. TargetPriority(req.auto, (req.retry - 1) + 1)
          = NextLower(req.auto, TargetPriority(req.auto, req.retry - 1))
  BY <1>8, NextTarget
<1>. QED
  BY <1>8, <1>9, <1>10, <1>11

Flags == changed \in BOOLEAN /\ refused \in BOOLEAN

\* The channel of a request has the priority the request asked for.
LEMMA DescentStep ==
    ASSUME TypeInv, Paced(req), Flags, Descent, DistinctGroups, [Next]_vars
    PROVE  Flags' /\ Descent'
<1>0. req \in Request /\ req.meta \in BOOLEAN
  BY DEF TypeInv, Request
<1>1. CASE Distribute
  <2>1. listed' = listed /\ changed' = FALSE /\ refused' = refused
    BY <1>1, Zenon DEF Distribute, env
  <2>2. Descends(req)'
    <3>1. /\ req' \in Request /\ req'.kind = req.kind /\ req.pc = "new"
          /\ \/ req'.pc = "rejected"
             \/ req'.pc = "priced" /\ req.kind = "specific"
             \/ /\ req'.pc = "priced" /\ req'.retry = 0 /\ req'.reset = FALSE
                /\ \E r \in Select(req, TokenGroup) :
                      Found(req, r, TokenGroup) /\ req'.auto = r.auto /\ req'.idx = r.idx
                         /\ req'.chan = r.chan
      BY <1>1, DistributeEffect
    <3>2. CASE req'.pc = "rejected" \/ req.kind = "specific"
      BY <3>1, <3>2 DEF Descends, Walks
    <3>3. CASE /\ req'.pc = "priced" /\ req'.retry = 0 /\ req'.reset = FALSE
               /\ \E r \in Select(req, TokenGroup) :
                     Found(req, r, TokenGroup) /\ req'.auto = r.auto /\ req'.idx = r.idx
                        /\ req'.chan = r.chan
      <4>1. PICK r : /\ Found(req, r, TokenGroup) /\ req'.auto = r.auto /\ req'.idx = r.idx
                     /\ req'.chan = r.chan
        BY <3>3
      <4>. QED
        BY <2>1, <3>1, <3>3, <4>1, SelectionDescends
    <3>. QED
      BY <3>1, <3>2, <3>3
  <2>. QED
    BY <2>1, <2>2 DEF Flags, Descent
<1>2. CASE GetChannel \/ NoKey
  <2>1. listed' = listed /\ refused' = refused
    BY <1>2, Zenon DEF GetChannel, NoKey, env
  <2>2. req.pc = "loop" /\ req' \in Request /\ req'.kind = req.kind /\ req'.meta = req.meta
    BY <1>2, LoopEffect
  <2>3. CASE req.meta = FALSE
    <3>1. changed' = changed
      BY <1>2, <2>3, Zenon DEF GetChannel, NoKey
    <3>2. /\ req'.pc \in {"breaker", "failed"}
          /\ req'.pc = "breaker" =>
                /\ req'.chan = req.chan /\ req'.auto = req.auto /\ req'.idx = req.idx
                /\ req'.retry = req.retry /\ req'.reset = req.reset
      BY <1>2, <2>3, LoopEffect
    <3>3. Descends(req) => Descends(req)'
      <4>1. Targets' = Targets /\ Offered' = Offered
        BY <2>1, SameList
      <4>2. Asked(req) = req.retry /\ Asked(req') = req'.retry
        BY <2>2, <2>3 DEF Asked
      <4>3. req'.pc = "breaker" => (Passed(req') <=> Passed(req))
        BY <3>2 DEF Passed
      <4>4. Current(req) /\ req'.pc = "breaker" => Current(req)'
        BY <3>2, <4>1, <4>2 DEF Current
      <4>. QED
        BY <2>2, <3>2, <4>3, <4>4 DEF Descends, Walks
    <3>. QED
      BY <2>1, <3>1, <3>3 DEF Flags, Descent
  <2>4. CASE req.meta = TRUE
    <3>1. changed' = FALSE
      BY <1>2, <2>4, Zenon DEF GetChannel, NoKey
    <3>2. CASE req'.pc = "failed"
      BY <2>1, <3>1, <3>2 DEF Flags, Descent, Descends
    <3>3. CASE req'.pc = "breaker" /\ Found(req, req', RetriedGroup)
      <4>1. Descends(req)'
        BY <2>1, <2>2, <2>4, <3>3, SelectionDescends
      <4>. QED
        BY <2>1, <3>1, <4>1 DEF Flags, Descent
    <3>. QED
      BY <1>2, <2>4, <3>2, <3>3, LoopEffect
  <2>. QED
    BY <1>0, <2>3, <2>4
<1>3. CASE Price
  <2>1. listed' = listed /\ changed' = changed /\ refused' = refused
    BY <1>3, Zenon DEF Price, env
  <2>2. /\ req.pc = "priced" /\ req'.pc = "loop" /\ req'.kind = req.kind /\ req'.chan = req.chan
        /\ req'.idx = req.idx /\ req'.auto = req.auto /\ req'.retry = req.retry
        /\ req'.reset = req.reset /\ req'.meta = req.meta
    BY <1>3, PriceEffect
  <2>3. req.meta = FALSE
    BY <2>2 DEF Paced
  <2>4. Descends(req) => Descends(req)'
    <3>1. Targets' = Targets /\ Offered' = Offered
      BY <2>1, SameList
    <3>2. Asked(req) = req.retry /\ Asked(req') = req'.retry
      BY <2>2, <2>3 DEF Asked
    <3>3. Passed(req') <=> Passed(req)
      BY <2>2 DEF Passed
    <3>4. Current(req) => Current(req)'
      BY <2>2, <3>1, <3>2 DEF Current
    <3>. QED
      BY <2>2, <3>3, <3>4 DEF Descends, Walks
  <2>. QED
    BY <2>1, <2>4 DEF Flags, Descent
<1>4. CASE BreakerRefuses \/ BodyUnreadable \/ Served \/ Fails
  <2>1. listed' = listed /\ changed' = changed
    BY <1>4, Zenon DEF BreakerRefuses, BodyUnreadable, Served, Fails, env
  <2>2. /\ refused' \in BOOLEAN /\ (refused' = FALSE => refused = FALSE)
        /\ BreakerRefuses /\ refused' = FALSE => req.meta = TRUE
    <3>1. CASE BreakerRefuses
      <4>1. refused' = (refused \/ ~req.meta)
        BY <3>1, Zenon DEF BreakerRefuses
      <4>. QED
        BY <1>0, <4>1 DEF Flags
    <3>2. CASE ~BreakerRefuses
      <4>1. refused' = refused
        BY <1>4, <3>2, Zenon DEF BodyUnreadable, Served, Fails
      <4>. QED
        BY <3>2, <4>1 DEF Flags
    <3>. QED
      BY <3>1, <3>2
  <2>3. /\ req' \in Request /\ req.pc = "breaker" /\ req'.kind = req.kind /\ req'.chan = req.chan
        /\ req'.idx = req.idx /\ req'.auto = req.auto
        /\ \/ req'.pc \in {"failed", "served", "unserved"}
           \/ /\ req'.pc = "loop" /\ ((BreakerRefuses /\ req'.meta = req.meta) \/ req'.meta = TRUE)
              /\ req'.reset = FALSE
              /\ req.reset => req'.retry = req.retry
              /\ ~req.reset => req'.retry = req.retry + 1
    BY <1>4, RoundEffect
  <2>4. ASSUME refused' = FALSE, Descends(req) PROVE Descends(req)'
    <3>1. CASE req'.pc \in {"failed", "served", "unserved"}
      BY <3>1 DEF Descends
    <3>2. CASE req'.pc = "loop"
      <4>1. /\ req'.meta = TRUE /\ req'.reset = FALSE
            /\ ~req.reset => req'.retry = req.retry + 1
        BY <2>2, <2>3, <2>4, <3>2
      <4>2. Targets' = Targets /\ Offered' = Offered
        BY <2>1, SameList
      <4>3. Passed(req') <=> Passed(req)
        BY <2>3 DEF Passed
      <4>4. Current(req) => Current(req)'
        <5>1. Asked(req) = req.retry /\ Asked(req') = req'.retry - 1
          BY <2>3, <3>2, <4>1 DEF Asked
        <5>2. req.reset = FALSE => Asked(req') = Asked(req)
          BY <1>0, <4>1, <5>1 DEF Request
        <5>. QED
          BY <2>3, <4>1, <4>2, <5>2 DEF Current
      <4>. QED
        BY <2>3, <2>4, <4>3, <4>4 DEF Descends, Walks
    <3>. QED
      BY <2>3, <3>1, <3>2
  <2>. QED
    BY <2>1, <2>2, <2>4 DEF Flags, Descent
<1>5. CASE OtherOutcome \/ Decay \/ UNCHANGED vars
  <2>1. listed' = listed /\ changed' = changed /\ refused' = refused /\ req' = req
    BY <1>5, Zenon DEF OtherOutcome, Decay, vars, env
  <2>2. Targets' = Targets /\ Offered' = Offered
    BY <2>1, SameList
  <2>3. Current(req) => Current(req)'
    BY <2>1, <2>2 DEF Current
  <2>. QED
    BY <2>1, <2>3 DEF Flags, Descent, Descends
<1>6. CASE ListChanges
  <2>1. changed' = TRUE /\ refused' = refused
    BY <1>6, Zenon DEF ListChanges
  <2>. QED
    BY <2>1 DEF Flags, Descent
<1>. QED
  BY <1>1, <1>2, <1>3, <1>4, <1>5, <1>6, Zenon DEF Next, Loop

\* Unless the list changes in between, or the first channel is refused by its breaker, the
\* retries of a request walk down the priorities of a group one by one: for a user whose
\* automatic groups are pairwise distinct.
THEOREM PriorityOrder ==
    ASSUME DistinctGroups
    PROVE  Spec => NoPrioritySkipped
<1> DEFINE Inv == Flags /\ Descent
<1>1. Init => Inv
  BY DEF Init, Flags, Descent, Descends
<1>2. TypeInv /\ Paced(req) /\ Inv /\ [Next]_vars => Inv'
  BY DescentStep
<1>3. TypeInv /\ Inv /\ [Next]_vars
        => [req.meta /\ req.pc = "loop" /\ req'.pc = "breaker" /\ IsAuto
              /\ req'.auto = req.auto /\ ~changed /\ ~refused
            => Priority[req'.chan] = NextLower(req.auto, Priority[req.chan])]_vars
  <2> SUFFICES ASSUME TypeInv, Inv, [Next]_vars, req.meta, req.pc = "loop", req'.pc = "breaker",
                      IsAuto, req'.auto = req.auto, ~changed, ~refused
               PROVE  Priority[req'.chan] = NextLower(req.auto, Priority[req.chan])
    OBVIOUS
  <2>1. req.meta = TRUE /\ changed = FALSE /\ refused = FALSE
    <3>1. req.meta \in BOOLEAN
      BY DEF TypeInv, Request
    <3>. QED
      BY <3>1 DEF Flags
  <2>2. Descends(req) /\ Walks(req)
    BY <2>1 DEF Descent, IsAuto, Walks
  <2>3. GetChannel \/ NoKey
    <3>1. Distribute => req.pc = "new"
      BY DistributeEffect
    <3>2. Price => req.pc = "priced"
      BY PriceEffect
    <3>3. BreakerRefuses \/ BodyUnreadable \/ Served \/ Fails => req.pc = "breaker"
      BY RoundEffect
    <3>4. req' # req
      OBVIOUS
    <3>. QED
      BY <3>1, <3>2, <3>3, <3>4, Meanwhile DEF Loop
  <2>. QED
    BY <2>1, <2>2, <2>3, NextPriority
<1>. QED
  BY <1>1, <1>2, <1>3, Typed, Paces, PTL DEF Spec, NoPrioritySkipped
=============================================================================
