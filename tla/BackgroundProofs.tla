-------------------------- MODULE BackgroundProofs --------------------------
(***************************************************************************)
(* Theorems about what jobs in the background repair or reset: the pools   *)
(* of channels with their reaper (ChannelPool), and the daily quota with   *)
(* its cron job (DailyQuota).                                              *)
(***************************************************************************)
EXTENDS ChannelPool, DailyQuota, TLAPS, FiniteSetTheorems

-----------------------------------------------------------------------------
(* Pools of keys: for any keys, pools, failing requests and edits.          *)

\* The rows of the channel table, as far as they are modelled.
Statuses == {"on", "auto", "manual"}
Row == [status : Statuses, keys : Pools, size : Nat,
        st : [Positions -> Statuses], cool : [Positions -> Nat]]

-----------------------------------------------------------------------------
(* Keys and their positions.                                                *)

\* The lists of keys are sequences that fit the positions.
LEMMA PoolsAreLists ==
    ASSUME NEW keys \in Pools
    PROVE  /\ keys \in Seq(Keys) /\ Len(keys) \in Positions /\ keys # << >>
           /\ DOMAIN keys = 1..Len(keys) /\ 1..Len(keys) \subseteq Positions
<1>1. PICK n \in Positions : keys \in [1..n -> Keys]
  BY DEF Pools
<1>2. n \in Nat /\ n >= 1 /\ n <= MaxKeys /\ MaxKeys \in Nat
  BY PoolSets DEF Positions
<1>3. keys \in Seq(Keys) /\ Len(keys) = n
  BY <1>1, <1>2
<1>. QED
  BY <1>1, <1>2, <1>3 DEF Positions

\* A list of keys that is short enough is one of them.
LEMMA ListsArePools ==
    ASSUME NEW keys \in Seq(Keys), keys # << >>, Len(keys) <= MaxKeys
    PROVE  keys \in Pools
<1>1. Len(keys) \in Positions /\ keys \in [1..Len(keys) -> Keys]
  BY PoolSets DEF Positions
<1>. QED
  BY <1>1 DEF Pools

\* Every rank among some positions is the rank of one of them.
LEMMA NthIsThere ==
    ASSUME NEW m \in Nat, NEW kept \in SUBSET (1..m), NEW n \in 1..Cardinality(kept)
    PROVE  Nth(kept, n) \in kept /\ Cardinality({j \in kept : j <= Nth(kept, n)}) = n
<1> DEFINE Below(i) == {j \in kept : j <= i}
           rank == [i \in kept |-> Cardinality(Below(i))]
           size == Cardinality(kept)
<1>1. IsFiniteSet(kept) /\ size \in Nat
  <2>1. IsFiniteSet(1..m)
    BY FS_Interval
  <2>2. IsFiniteSet(kept)
    BY <2>1, FS_Subset
  <2>. QED
    BY <2>2, FS_CardinalityType
<1>2. ASSUME NEW i \in kept
      PROVE  IsFiniteSet(Below(i)) /\ Cardinality(Below(i)) \in 1..size
  <2>1. IsFiniteSet(Below(i)) /\ Cardinality(Below(i)) <= size
    BY <1>1, FS_Subset
  <2>2. Cardinality(Below(i)) \in Nat
    BY <2>1, FS_CardinalityType
  <2>3. i \in Below(i)
    OBVIOUS
  <2>4. Cardinality(Below(i)) # 0
    BY <2>1, <2>3, FS_EmptySet
  <2>. QED
    BY <1>1, <2>1, <2>2, <2>4
<1>3. ASSUME NEW i \in kept, NEW j \in kept, i < j PROVE rank[i] # rank[j]
  <2>4. \A x \in kept : x \in Int
    OBVIOUS
  <2>1. Below(i) \in SUBSET Below(j) /\ j \in Below(j) /\ j \notin Below(i)
    <3>1. \A x \in kept : x <= i => x <= j
      BY <1>3, <2>4
    <3>2. ~(j <= i) /\ j <= j
      BY <1>3, <2>4
    <3>. QED
      BY <3>1, <3>2
  <2>2. IsFiniteSet(Below(j))
    BY <1>2
  <2>3. Cardinality(Below(j)) = Cardinality(Below(i)) => Below(j) = Below(i)
    BY <2>1, <2>2, FS_Subset
  <2>. QED
    BY <2>1, <2>3
<1>4. rank \in Injection(kept, 1..size)
  <2>1. rank \in [kept -> 1..size]
    BY <1>2
  <2>2. ASSUME NEW i \in kept, NEW j \in kept, rank[i] = rank[j] PROVE i = j
    <3>1. ~(i < j) /\ ~(j < i)
      BY <1>3, <2>2
    <3>. QED
      BY <3>1
  <2>. QED
    BY <2>1, <2>2 DEF Injection, IsInjective
<1>5. IsFiniteSet(1..size) /\ Cardinality(1..size) = size
  BY <1>1, FS_Interval
<1>6. rank \in Surjection(kept, 1..size)
  BY <1>4, <1>5, FS_Injection
<1>7. PICK i \in kept : rank[i] = n
  BY <1>6 DEF Surjection
<1>8. Cardinality(Below(i)) = n
  BY <1>7
<1>. QED
  BY <1>8 DEF Nth

\* The search for a key ends at its first position.
LEMMA IndexOf ==
    ASSUME NEW r \in Row, NEW k, Has(r, k)
    PROVE  Index(r, k) \in 1..Len(r.keys) /\ Index(r, k) \in Positions /\ r.keys[Index(r, k)] = k
<1> DEFINE m == Len(r.keys)
           kept == {i \in 1..m : r.keys[i] = k}
           first == Nth(kept, 1)
<1>1. r.keys \in Seq(Keys) /\ m \in Nat /\ 1..m \subseteq Positions
  BY PoolsAreLists DEF Row
<1>2. kept # {} /\ kept \in SUBSET (1..m)
  BY DEF Has
<1>3. IsFiniteSet(kept) /\ Cardinality(kept) \in Nat
  <2>1. IsFiniteSet(1..m)
    BY <1>1, FS_Interval
  <2>2. IsFiniteSet(kept)
    BY <1>2, <2>1, FS_Subset
  <2>. QED
    BY <2>2, FS_CardinalityType
<1>4. 1 \in 1..Cardinality(kept)
  BY <1>2, <1>3, FS_EmptySet
<1>5. first \in kept /\ Cardinality({j \in kept : j <= first}) = 1
  BY <1>1, <1>2, <1>4, NthIsThere
<1> HIDE DEF first
<1>6. \A j \in kept : j <= first => j = first
  <2>1. IsFiniteSet({j \in kept : j <= first})
    BY <1>3, FS_Subset
  <2>2. PICK x : {j \in kept : j <= first} = {x}
    BY <1>5, <2>1, FS_Singleton
  <2>3. first \in {j \in kept : j <= first}
    BY <1>1, <1>5
  <2>. QED
    BY <2>2, <2>3
<1>7. first \in 1..m /\ r.keys[first] = k /\ \A j \in 1..first-1 : r.keys[j] # k
  BY <1>1, <1>5, <1>6
<1>8. Index(r, k) \in 1..m /\ r.keys[Index(r, k)] = k
  BY <1>7 DEF Index
<1>. QED
  BY <1>1, <1>8

-----------------------------------------------------------------------------
(* What the writers make of a copy of the row.                              *)

\* Closing the channel with its last key touches its status alone.
LEMMA CloseKeeps ==
    ASSUME NEW r \in Row
    PROVE  /\ CloseIfAllDown(r) \in Row /\ CloseIfAllDown(r).keys = r.keys
           /\ CloseIfAllDown(r).st = r.st /\ CloseIfAllDown(r).cool = r.cool
BY DEF Row, CloseIfAllDown, Statuses

\* A failed or tested key changes the status of its own position only, or, when it is
\* not in the pool and not cooled, that of the first one; only a cooldown sets a deadline.
LEMMA ChangeKeeps ==
    ASSUME NEW r \in Row, NEW t, t.op \in {"ban", "cool", "enable"}, t.until \in Nat
    PROVE  /\ Change(r, t) \in Row /\ Change(r, t).keys = r.keys
           /\ \A i \in Positions : Change(r, t).st[i] # r.st[i] =>
                 /\ i = IndexOrFirst(r, t.key)
                 /\ t.op = "cool" => Has(r, t.key)
                 /\ Change(r, t).st[i] = IF t.op = "enable" THEN "on" ELSE "auto"
           /\ \A i \in Positions : Change(r, t).cool[i] # r.cool[i] =>
                 t.op = "cool" /\ Has(r, t.key) /\ i = Index(r, t.key)
<1>1. ASSUME NEW p, NEW s \in Statuses
      PROVE  /\ [r EXCEPT !.st[p] = s] \in Row /\ [r EXCEPT !.st[p] = s].keys = r.keys
             /\ [r EXCEPT !.st[p] = s].cool = r.cool
             /\ \A i \in Positions : [r EXCEPT !.st[p] = s].st[i] = IF i = p THEN s ELSE r.st[i]
  BY DEF Row
<1>3. CASE t.op \in {"ban", "enable"}
  <2> DEFINE p == IndexOrFirst(r, t.key)
             x == IF t.op = "enable" THEN "on" ELSE "auto"
             c == [r EXCEPT !.st[p] = x]
  <2>1. Change(r, t) = CloseIfAllDown(c)
    BY <1>3 DEF Change, HandlerMultiKeyUpdate
  <2> HIDE DEF p
  <2>2. x \in Statuses
    BY DEF Statuses
  <2> HIDE DEF x
  <2>3. /\ c \in Row /\ c.keys = r.keys /\ c.cool = r.cool
        /\ \A i \in Positions : c.st[i] = IF i = p THEN x ELSE r.st[i]
    BY <1>1, <2>2
  <2> HIDE DEF c
  <2>4. /\ Change(r, t) \in Row /\ Change(r, t).keys = c.keys
        /\ Change(r, t).st = c.st /\ Change(r, t).cool = c.cool
    BY <2>1, <2>3, CloseKeeps
  <2>5. \A i \in Positions : c.st[i] # r.st[i] => i = p /\ c.st[i] = x
    BY <2>3
  <2>. QED
    BY <1>3, <2>3, <2>4, <2>5 DEF p, x
<1>4. CASE t.op = "cool"
  <2>1. Change(r, t) = ApplyCooldown(r, t.key, t.until)
    BY <1>4 DEF Change
  <2>2. CASE ~Has(r, t.key)
    BY <2>1, <2>2 DEF ApplyCooldown
  <2>3. CASE Has(r, t.key)
    <3> DEFINE p == Index(r, t.key)
               u == t.until
               c == [r EXCEPT !.st[p] = "auto", !.cool[p] = u]
    <3>1. Change(r, t) = CloseIfAllDown(c)
      BY <2>1, <2>3 DEF ApplyCooldown
    <3>2. IndexOrFirst(r, t.key) = p /\ u \in Nat
      BY <2>3 DEF IndexOrFirst
    <3> HIDE DEF p, u
    <3>3. /\ c \in Row /\ c.keys = r.keys
          /\ \A i \in Positions : i # p => c.cool[i] = r.cool[i]
          /\ \A i \in Positions : c.st[i] = IF i = p THEN "auto" ELSE r.st[i]
      BY <3>2 DEF Row, Statuses
    <3> HIDE DEF c
    <3>4. /\ Change(r, t) \in Row /\ Change(r, t).keys = c.keys
          /\ Change(r, t).st = c.st /\ Change(r, t).cool = c.cool
      BY <3>1, <3>3, CloseKeeps
    <3>5. \A i \in Positions : c.st[i] # r.st[i] => i = p /\ c.st[i] = "auto"
      BY <3>3
    <3>6. \A i \in Positions : c.cool[i] # r.cool[i] => i = p
      BY <3>3
    <3>. QED
      BY <1>4, <2>3, <3>2, <3>3, <3>4, <3>5, <3>6 DEF p
  <2>. QED
    BY <2>2, <2>3
<1>. QED
  BY <1>3, <1>4

\* The reaper switches positions on whose deadline has passed, nothing else.
LEMMA RecoveredKeeps ==
    ASSUME NEW r \in Row
    PROVE  /\ Recovered(r) \in Row /\ Recovered(r).keys = r.keys
           /\ \A i \in Positions : Recovered(r).st[i] # r.st[i] =>
                 i \in Expired(r) /\ Recovered(r).st[i] = "on"
           /\ \A i \in Positions : Recovered(r).cool[i] # r.cool[i] => i \in Expired(r)
<1> DEFINE st == [i \in Positions |-> IF i \in Expired(r) THEN "on" ELSE r.st[i]]
           cool == [i \in Positions |-> IF i \in Expired(r) THEN 0 ELSE r.cool[i]]
           c == [r EXCEPT !.st = st, !.cool = cool]
<1>1. st \in [Positions -> Statuses] /\ cool \in [Positions -> Nat]
  BY DEF Row, Statuses
<1>2. /\ \A i \in Positions : st[i] # r.st[i] => i \in Expired(r) /\ st[i] = "on"
      /\ \A i \in Positions : cool[i] # r.cool[i] => i \in Expired(r)
  OBVIOUS
<1>3. Recovered(r) = IF c.status = "auto" /\ Cardinality(Down(c)) < c.size
                     THEN [c EXCEPT !.status = "on"] ELSE c
  BY DEF Recovered
<1> HIDE DEF st, cool
<1>4. c \in Row /\ c.keys = r.keys /\ c.st = st /\ c.cool = cool
  BY <1>1 DEF Row
<1> HIDE DEF c
<1>5. /\ [c EXCEPT !.status = "on"] \in Row /\ [c EXCEPT !.status = "on"].keys = c.keys
      /\ [c EXCEPT !.status = "on"].st = c.st /\ [c EXCEPT !.status = "on"].cool = c.cool
  BY <1>4 DEF Row, Statuses
<1>. QED
  BY <1>2, <1>3, <1>4, <1>5

\* What an edit submits: a row, or one without keys.
Form == [status : Statuses, keys : Pools \cup {<< >>}, size : Nat,
         st : [Positions -> Statuses], cool : [Positions -> Nat]]

\* Every status "auto" in s is the one its key has in r already.
Blames(r, s) ==
    \A n \in 1..Len(s.keys) : s.st[n] = "auto" =>
        \E i \in 1..Len(r.keys) : r.keys[i] = s.keys[n] /\ r.st[i] = "auto"

\* What Channel.Update writes is a row, and it disables no key the form does not.
LEMMA CountedKeeps ==
    ASSUME db \in Row, NEW s \in Form
    PROVE  /\ Counted(s) \in Row
           /\ Counted(s).keys = IF s.keys = << >> THEN db.keys ELSE s.keys
           /\ \A n \in 1..Len(Counted(s).keys) : Counted(s).st[n] = s.st[n]
<1> DEFINE keys == IF s.keys = << >> THEN db.keys ELSE s.keys
           st == [i \in Positions |-> IF i <= Len(keys) THEN s.st[i] ELSE "on"]
           c == [s EXCEPT !.keys = keys, !.size = Len(keys), !.st = st]
<1>1. Counted(s) = c
  BY DEF Counted
<1>2. keys \in Pools
  BY DEF Form, Row
<1> HIDE DEF keys
<1>3. Len(keys) \in Nat /\ 1..Len(keys) \subseteq Positions
  BY <1>2, PoolsAreLists DEF Positions
<1>4. st \in [Positions -> Statuses] /\ \A n \in 1..Len(keys) : st[n] = s.st[n]
  <2>1. s.st \in [Positions -> Statuses] /\ "on" \in Statuses
    BY DEF Form, Statuses
  <2>2. ASSUME NEW n \in 1..Len(keys) PROVE n \in Positions /\ n <= Len(keys)
    BY <1>3
  <2>. QED
    BY <2>1, <2>2
<1> HIDE DEF st
<1>5. c \in Row /\ c.keys = keys /\ c.st = st
  BY <1>2, <1>3, <1>4 DEF Form, Row
<1>. QED
  BY <1>1, <1>4, <1>5 DEF keys

\* An edit of statuses that switches no key off automatically blames nobody.
LEMMA StatusEdit ==
    ASSUME NEW r \in Row, NEW st \in [Positions -> Statuses],
           \A i \in Positions : st[i] = "auto" => r.st[i] = "auto"
    PROVE  /\ [r EXCEPT !.st = st] \in Row /\ [r EXCEPT !.st = st].keys = r.keys
           /\ Blames(r, [r EXCEPT !.st = st])
<1> DEFINE s == [r EXCEPT !.st = st]
<1>1. s \in Row /\ s.keys = r.keys /\ s.st = st
  BY DEF Row
<1>2. 1..Len(r.keys) \subseteq Positions
  BY PoolsAreLists DEF Row
<1> HIDE DEF s
<1>3. Blames(r, s)
  BY <1>1, <1>2 DEF Blames
<1>. QED
  BY <1>1, <1>3 DEF s

\* Deleting keys moves the statuses of the others with them; with the last one the
\* statuses are gone as well.
LEMMA WithoutKeeps ==
    ASSUME NEW r \in Row, NEW gone
    PROVE  /\ Without(r, gone) \in Form /\ Blames(r, Without(r, gone))
           /\ Without(r, gone).keys = << >> => \A n \in Positions : Without(r, gone).st[n] = "on"
<1> DEFINE m == Len(r.keys)
           kept == (1..m) \ gone
           size == Cardinality(kept)
           keys == [n \in 1..size |-> r.keys[Nth(kept, n)]]
           st == [n \in Positions |-> IF n <= size THEN r.st[Nth(kept, n)] ELSE "on"]
           s == [r EXCEPT !.keys = keys, !.size = size, !.st = st]
<1>1. r.keys \in Seq(Keys) /\ m \in Nat /\ 1..m \subseteq Positions /\ m <= MaxKeys
  BY PoolsAreLists, PoolSets DEF Row, Positions
<1>2. size \in Nat /\ size <= m
  <2>1. IsFiniteSet(1..m) /\ Cardinality(1..m) = m
    BY <1>1, FS_Interval
  <2>2. kept \in SUBSET (1..m)
    OBVIOUS
  <2>3. IsFiniteSet(kept) /\ size <= m
    BY <2>1, <2>2, FS_Subset
  <2>. QED
    BY <2>3, FS_CardinalityType
<1>3. \A n \in 1..size : Nth(kept, n) \in kept
  BY <1>1, NthIsThere
<1>4. Without(r, gone) = s
  BY DEF Without
<1> HIDE DEF kept, size
<1>5. \A n \in 1..size : Nth(kept, n) \in 1..m
  BY <1>3 DEF kept
<1>6. keys \in Seq(Keys) /\ Len(keys) = size
  <2>1. keys \in [1..size -> Keys]
    BY <1>1, <1>5
  <2>. QED
    BY <1>2, <2>1
<1>7. keys \in Pools \cup {<< >>}
  BY <1>1, <1>2, <1>6, ListsArePools, PoolSets
<1>8. 1..size \subseteq Positions
  BY <1>1, <1>2
<1>9. st \in [Positions -> Statuses]
  <2>1. r.st \in [Positions -> Statuses] /\ "on" \in Statuses
    BY DEF Row, Statuses
  <2>2. ASSUME NEW n \in Positions, n <= size PROVE Nth(kept, n) \in Positions
    <3>1. n \in 1..size
      BY <1>2, <2>2 DEF Positions
    <3>. QED
      BY <1>1, <1>5, <3>1
  <2>. QED
    BY <2>1, <2>2
<1>10. \A n \in 1..size : st[n] = r.st[Nth(kept, n)] /\ keys[n] = r.keys[Nth(kept, n)]
  BY <1>2, <1>8
<1>11. size = 0 => \A n \in Positions : st[n] = "on"
  BY DEF Positions
<1> HIDE DEF keys, st
<1>12. s \in Form /\ s.keys = keys /\ s.st = st
  BY <1>2, <1>7, <1>9 DEF Row, Form
<1> HIDE DEF s
<1>13. Blames(r, s)
  BY <1>5, <1>6, <1>10, <1>12 DEF Blames
<1>14. s.keys = << >> => size = 0
  BY <1>6, <1>12
<1>. QED
  BY <1>4, <1>11, <1>12, <1>13, <1>14

\* No edit of ManageMultiKeys blames a key anew.
LEMMA ManagedKeeps ==
    ASSUME NEW r \in Row, NEW s \in Managed(r)
    PROVE  /\ s \in Form /\ Blames(r, s)
           /\ s.keys = << >> => \A n \in Positions : s.st[n] = "on"
<1>0. r.st \in [Positions -> Statuses] /\ r.keys # << >>
  BY PoolsAreLists DEF Row
<1>1. ASSUME NEW st \in [Positions -> Statuses], s = [r EXCEPT !.st = st],
             \A i \in Positions : st[i] = "auto" => r.st[i] = "auto"
      PROVE  s \in Form /\ Blames(r, s) /\ s.keys # << >>
  <2>1. s \in Row /\ s.keys = r.keys /\ Blames(r, s)
    BY <1>1, StatusEdit
  <2>. QED
    BY <1>0, <2>1 DEF Row, Form
<1>2. ASSUME NEW i, NEW x \in {"manual", "on"}, s = [r EXCEPT !.st[i] = x]
      PROVE  s \in Form /\ Blames(r, s) /\ s.keys # << >>
  <2> DEFINE st == [r.st EXCEPT ![i] = x]
  <2>1. s = [r EXCEPT !.st = st]
    BY <1>2
  <2>2. st \in [Positions -> Statuses]
    BY <1>0 DEF Statuses
  <2>3. \A j \in Positions : st[j] = "auto" => r.st[j] = "auto"
    BY <1>0
  <2> HIDE DEF st
  <2>. QED
    BY <2>1, <2>2, <2>3, <1>1
<1>3. ASSUME s = [r EXCEPT !.st = AllOn]
      PROVE  s \in Form /\ Blames(r, s) /\ s.keys # << >>
  <2>1. AllOn \in [Positions -> Statuses] /\ \A j \in Positions : AllOn[j] # "auto"
    BY DEF AllOn, Statuses
  <2>. QED
    BY <1>3, <2>1, <1>1
<1>4. ASSUME s = [r EXCEPT !.st = [i \in Positions |-> IF i <= r.size /\ @[i] = "on"
                                                     THEN "manual" ELSE @[i]]]
      PROVE  s \in Form /\ Blames(r, s) /\ s.keys # << >>
  <2> DEFINE st == [i \in Positions |-> IF i <= r.size /\ r.st[i] = "on" THEN "manual" ELSE r.st[i]]
  <2>1. s = [r EXCEPT !.st = st]
    BY <1>4
  <2>2. st \in [Positions -> Statuses] /\ \A j \in Positions : st[j] = "auto" => r.st[j] = "auto"
    BY <1>0 DEF Statuses
  <2> HIDE DEF st
  <2>. QED
    BY <2>1, <2>2, <1>1
<1>5. ASSUME NEW gone, s = Without(r, gone)
      PROVE  /\ s \in Form /\ Blames(r, s)
             /\ s.keys = << >> => \A n \in Positions : s.st[n] = "on"
  BY <1>5, WithoutKeeps
<1>6. \/ \E i \in 1..r.size, x \in {"manual", "on"} : s = [r EXCEPT !.st[i] = x]
      \/ s = [r EXCEPT !.st = AllOn]
      \/ s = [r EXCEPT !.st = [i \in Positions |-> IF i <= r.size /\ @[i] = "on"
                                                   THEN "manual" ELSE @[i]]]
      \/ \E gone : s = Without(r, gone)
  BY DEF Managed
<1>. QED
  BY <1>2, <1>3, <1>4, <1>5, <1>6

\* A submitted form keeps the statuses and the cooldowns where they are.
LEMMA SubmittedKeeps ==
    ASSUME db \in Row, NEW keys \in Lists(db), NEW x \in {db.status, "on", "manual"}
    PROVE  /\ [db EXCEPT !.keys = keys, !.status = x] \in Form
           /\ [db EXCEPT !.keys = keys, !.status = x].st = db.st
<1>1. keys \in Pools \cup {<< >>}
  <2>1. ASSUME NEW new \in Pools, keys = db.keys \o new, Len(keys) <= MaxKeys PROVE keys \in Pools
    <3>1. db.keys \in Seq(Keys) /\ db.keys # << >> /\ new \in Seq(Keys)
      BY PoolsAreLists DEF Row
    <3>2. keys \in Seq(Keys) /\ keys # << >>
      BY <2>1, <3>1
    <3>. QED
      BY <2>1, <3>2, ListsArePools
  <2>. QED
    BY <2>1 DEF Appended, Lists
<1>2. x \in Statuses
  BY DEF Row, Statuses
<1>. QED
  BY <1>1, <1>2 DEF Row, Form

-----------------------------------------------------------------------------
(* The inductive invariant.                                                 *)

\* What the goroutines of requests are about to do, and that a key they blame has failed.
Goroutines ==
    /\ DOMAIN task = Handlers
    /\ \A h \in Handlers :
          /\ DOMAIN task[h] = {"pc", "op", "key", "until", "row"}
          /\ task[h].pc \in {"queued", "save"} =>
                /\ task[h].op \in {"ban", "cool", "enable"} /\ task[h].until \in Nat
                /\ task[h].op # "enable" => task[h].key \in failed \cup {NoKey}

\* A position that is disabled automatically holds a key that has failed.
Deserved == \A i \in 1..Len(db.keys) : db.st[i] = "auto" => db.keys[i] \in failed

\* A position an administrator has disabled waits for no deadline the reaper could pass.
Barred == \A i \in barred : db.st[i] # "on" /\ db.cool[i] = 0

\* A write that undoes another one may leave anything behind; up to then every copy
\* that is written goes back to the row it was read from.
PoolInv ==
    /\ now \in Nat /\ lost \in BOOLEAN /\ orphan \in BOOLEAN
    /\ Goroutines
    /\ ~lost => db \in Row /\ barred \subseteq Positions /\ Barred
    /\ ~lost /\ ~orphan => Deserved

\* SaveWithoutKey writes a row whose keys are still the same as it is.
LEMMA WriteBack ==
    ASSUME NEW r \in Row, NEW keys, r.keys = keys
    PROVE  [r EXCEPT !.keys = keys] = r
BY DEF Row

\* Every action of the goroutines, the reaper and the administrators keeps the invariant.
LEMMA PoolInductive == Spec => []PoolInv
<1>1. Init => PoolInv
  <2> SUFFICES ASSUME Init PROVE PoolInv
    OBVIOUS
  <2>1. PICK pool \in InitPools :
           db = [status |-> "on", keys |-> pool, size |-> Len(pool), st |-> AllOn, cool |-> NoCool]
    BY DEF Init
  <2>2. pool \in Pools /\ Len(pool) \in Nat /\ 1..Len(pool) \subseteq Positions
    BY PoolSets, PoolsAreLists DEF Positions
  <2>3. AllOn \in [Positions -> Statuses] /\ NoCool \in [Positions -> Nat] /\ "on" \in Statuses
    BY DEF AllOn, NoCool, Statuses
  <2>4. db \in Row /\ db.keys = pool /\ db.st = AllOn
    BY <2>1, <2>2, <2>3 DEF Row
  <2>5. Deserved
    BY <2>2, <2>4 DEF Deserved, AllOn
  <2>6. Goroutines
    BY DEF Init, Goroutines, Unused
  <2>7. Barred
    BY DEF Init, Barred
  <2>. QED
    BY <2>4, <2>5, <2>6, <2>7 DEF Init, PoolInv
<1>2. PoolInv /\ [Next]_vars => PoolInv'
  <2> SUFFICES ASSUME PoolInv, [Next]_vars PROVE PoolInv'
    OBVIOUS
  <2>0. /\ now \in Nat /\ lost \in BOOLEAN /\ orphan \in BOOLEAN
        /\ Goroutines
        /\ ~lost => db \in Row /\ barred \subseteq Positions /\ Barred
        /\ ~lost /\ ~orphan => Deserved
    BY DEF PoolInv
  <2>1. ASSUME NEW h \in Handlers, NEW op \in {"ban", "cool", "enable"}, NEW k, Queue(h, op, k)
        PROVE  PoolInv'
    <3>1. UNCHANGED <<db, now, lost, orphan, barred>> /\ failed \subseteq failed'
      BY <2>1 DEF Queue
    <3>2. /\ task' = [task EXCEPT ![h] = task'[h]] /\ DOMAIN task'[h] = {"pc", "op", "key", "until", "row"}
          /\ task'[h].op = op /\ task'[h].key = k /\ task'[h].until \in Nat
      BY <2>0, <2>1 DEF Queue, Goroutines
    <3>3. op # "enable" => k \in failed' \cup {NoKey}
      BY <2>1 DEF Queue
    <3>4. Goroutines'
      BY <2>0, <3>1, <3>2, <3>3 DEF Goroutines
    <3>. QED
      BY <2>0, <3>1, <3>4 DEF PoolInv, Deserved, Barred
  <2>2. ASSUME NEW h \in Handlers, UpdateCache(h) PROVE PoolInv'
    <3>1. UNCHANGED <<db, now, lost, orphan, failed, barred>>
      BY <2>2 DEF UpdateCache, history
    <3>2. \/ task' = [task EXCEPT ![h] = Ended]
          \/ task[h].pc = "queued" /\ task' = [task EXCEPT ![h] = [task[h] EXCEPT !.pc = "save", !.row = db]]
      BY <2>2 DEF UpdateCache
    <3>3. Goroutines'
      <4>1. CASE task' = [task EXCEPT ![h] = Ended]
        BY <2>0, <3>1, <4>1 DEF Goroutines, Ended, Unused
      <4> DEFINE t == [task[h] EXCEPT !.pc = "save", !.row = db]
      <4>2. CASE task[h].pc = "queued" /\ task' = [task EXCEPT ![h] = t]
        <5>1. /\ DOMAIN t = {"pc", "op", "key", "until", "row"}
              /\ t.op = task[h].op /\ t.key = task[h].key /\ t.until = task[h].until
          BY <2>0 DEF Goroutines
        <5> HIDE DEF t
        <5>. QED
          BY <2>0, <3>1, <4>2, <5>1 DEF Goroutines
      <4>. QED
        BY <3>2, <4>1, <4>2
    <3>. QED
      BY <2>0, <3>1, <3>3 DEF PoolInv, Deserved, Barred
  <2>3. ASSUME NEW h \in Handlers, SaveRow(h) PROVE PoolInv'
    <3> DEFINE t == task[h]
    <3>1. /\ t.pc = "save" /\ db' = [Change(t.row, t) EXCEPT !.keys = db.keys]
          /\ lost' = (lost \/ t.row # db)
          /\ orphan' = (orphan \/ (t.op # "cool" /\ ~Has(t.row, t.key)))
          /\ barred' = barred \ Freed(t)
          /\ task' = [task EXCEPT ![h] = Ended] /\ UNCHANGED <<now, failed>>
      BY <2>3 DEF SaveRow, SaveWithoutKey, Undoes
    <3>2. t.op \in {"ban", "cool", "enable"} /\ t.until \in Nat /\ (t.op # "enable" => t.key \in failed \cup {NoKey})
      BY <2>0, <3>1 DEF Goroutines
    <3>3. Goroutines'
      BY <2>0, <3>1 DEF Goroutines, Ended, Unused
    <3> HIDE DEF t
    <3>4. ASSUME ~lost' PROVE ~lost /\ t.row = db /\ db \in Row /\ barred \subseteq Positions /\ Barred
      BY <2>0, <3>1, <3>4
    <3>5. ASSUME ~lost' PROVE db' = Change(db, t) /\ db' \in Row /\ db'.keys = db.keys
      BY <3>1, <3>2, <3>4, <3>5, ChangeKeeps, WriteBack
    <3>6. ASSUME ~lost' PROVE Barred'
      <4>1. ASSUME NEW i \in barred, i \notin Freed(t) PROVE db'.st[i] # "on" /\ db'.cool[i] = 0
        <5>1. i \in Positions /\ db.st[i] # "on" /\ db.cool[i] = 0
          BY <3>4, <3>6 DEF Barred
        <5>2. db'.st[i] = "on" => t.op = "enable" /\ i = IndexOrFirst(db, t.key)
          BY <3>2, <3>4, <3>5, <3>6, <5>1, ChangeKeeps
        <5>3. db'.cool[i] # db.cool[i] => t.op = "cool" /\ Has(db, t.key) /\ i = Index(db, t.key)
          BY <3>2, <3>4, <3>5, <3>6, <5>1, ChangeKeeps
        <5>4. t.row = db
          BY <3>4, <3>6
        <5>. QED
          BY <4>1, <5>1, <5>2, <5>3, <5>4 DEF Freed
      <4>. QED
        BY <3>1, <4>1 DEF Barred
    <3>7. ASSUME ~lost', ~orphan' PROVE Deserved'
      <4>1. t.row = db /\ db \in Row /\ Deserved
        BY <2>0, <3>1, <3>4, <3>7
      <4>2. t.op # "cool" => Has(db, t.key)
        BY <3>1, <3>7, <4>1
      <4>3. ASSUME NEW i \in 1..Len(db.keys), db'.st[i] = "auto", db.st[i] # "auto"
            PROVE  db.keys[i] \in failed
        <5>1. i \in Positions
          BY <4>1, PoolsAreLists DEF Row
        <5>2. t.op # "enable" /\ Has(db, t.key) /\ i = Index(db, t.key)
          BY <3>2, <3>5, <3>7, <4>1, <4>2, <4>3, <5>1, ChangeKeeps DEF IndexOrFirst
        <5>3. db.keys[i] = t.key
          BY <4>1, <5>2, IndexOf
        <5>4. t.key \in Keys
          <6>1. db.keys \in Seq(Keys)
            BY <4>1, PoolsAreLists DEF Row
          <6>. QED
            BY <5>3, <6>1
        <5>. QED
          BY <3>2, <5>2, <5>3, <5>4, PoolSets
      <4>. QED
        BY <3>1, <3>5, <3>7, <4>1, <4>3 DEF Deserved
    <3>8. orphan' \in BOOLEAN /\ lost' \in BOOLEAN
      BY <2>0, <3>1
    <3>. QED
      BY <2>0, <3>1, <3>3, <3>4, <3>5, <3>6, <3>7, <3>8 DEF PoolInv
  <2>4. ASSUME ReapSave PROVE PoolInv'
    <3>1. /\ db' = [Recovered(reaper.row) EXCEPT !.keys = db.keys] /\ lost' = (lost \/ reaper.row # db)
          /\ UNCHANGED <<task, now, failed, orphan, barred>>
      BY <2>4 DEF ReapSave, SaveWithoutKey, Undoes
    <3>2. Goroutines'
      BY <2>0, <3>1 DEF Goroutines
    <3>3. ASSUME ~lost' PROVE ~lost /\ reaper.row = db /\ db \in Row /\ barred \subseteq Positions /\ Barred
      BY <2>0, <3>1, <3>3
    <3>4. ASSUME ~lost' PROVE db' = Recovered(db) /\ db' \in Row /\ db'.keys = db.keys
      BY <3>1, <3>3, <3>4, RecoveredKeeps, WriteBack
    <3>5. ASSUME ~lost' PROVE Barred'
      <4>1. ASSUME NEW i \in barred PROVE db'.st[i] # "on" /\ db'.cool[i] = 0
        <5>1. i \in Positions /\ db.st[i] # "on" /\ db.cool[i] = 0
          BY <3>3, <3>5 DEF Barred
        <5>2. i \notin Expired(db)
          BY <5>1 DEF Expired
        <5>. QED
          BY <3>3, <3>4, <3>5, <5>1, <5>2, RecoveredKeeps
      <4>. QED
        BY <3>1, <4>1 DEF Barred
    <3>6. ASSUME ~lost', ~orphan' PROVE Deserved'
      <4>1. db \in Row /\ Deserved
        BY <2>0, <3>1, <3>3, <3>6
      <4>2. 1..Len(db.keys) \subseteq Positions
        BY <4>1, PoolsAreLists DEF Row
      <4>3. \A i \in 1..Len(db.keys) : db'.st[i] = "auto" => db.st[i] = "auto"
        BY <3>4, <3>6, <4>1, <4>2, RecoveredKeeps
      <4>. QED
        BY <3>1, <3>4, <3>6, <4>1, <4>3 DEF Deserved
    <3>. QED
      BY <2>0, <3>1, <3>2, <3>3, <3>4, <3>5, <3>6 DEF PoolInv
  <2>5. ASSUME AdminWrite PROVE PoolInv'
    <3>1. PICK s : /\ db' = Counted(s)
                   /\ \/ s \in Managed(admin.row) /\ orphan' = orphan
                      \/ /\ \E keys \in Lists(admin.row), x \in {db.status, "on", "manual"} :
                               s = [admin.row EXCEPT !.keys = keys, !.status = x]
                         /\ orphan' = (orphan \/ Shifted(admin.row, db'))
      <4>1. CASE \E r \in Managed(admin.row) : db' = Counted(r) /\ orphan' = orphan
        BY <4>1
      <4>2. ASSUME NEW keys \in Lists(admin.row), NEW x \in {db.status, "on", "manual"},
                   db' = Counted([admin.row EXCEPT !.keys = keys, !.status = x]),
                   orphan' = (orphan \/ Shifted(admin.row, db'))
            PROVE  \E r : /\ db' = Counted(r)
                          /\ \E l \in Lists(admin.row), y \in {db.status, "on", "manual"} :
                                r = [admin.row EXCEPT !.keys = l, !.status = y]
                          /\ orphan' = (orphan \/ Shifted(admin.row, db'))
        BY <4>2
      <4>3. \/ \E r \in Managed(admin.row) : db' = Counted(r) /\ orphan' = orphan
            \/ /\ \E keys \in Lists(admin.row), x \in {db.status, "on", "manual"} :
                     db' = Counted([admin.row EXCEPT !.keys = keys, !.status = x])
               /\ orphan' = (orphan \/ Shifted(admin.row, db'))
        BY <2>5 DEF AdminWrite
      <4>. QED
        BY <4>1, <4>2, <4>3
    <3>2. /\ lost' = (lost \/ admin.row # db) /\ UNCHANGED <<task, now, failed>>
          /\ barred' = {i \in DOMAIN db'.keys : db'.st[i] = "manual" /\ db'.cool[i] = 0}
      BY <2>5 DEF AdminWrite, Undoes
    <3>3. Goroutines'
      BY <2>0, <3>2 DEF Goroutines
    <3>4. ASSUME ~lost' PROVE ~lost /\ admin.row = db /\ db \in Row
      BY <2>0, <3>2, <3>4
    <3>5. ASSUME ~lost'
          PROVE  s \in Form /\ db' \in Row /\ (s \in Managed(db) \/ s.st = db.st)
      <4>1. admin.row = db /\ db \in Row
        BY <3>4, <3>5
      <4>2. CASE s \in Managed(db)
        BY <3>1, <4>1, <4>2, ManagedKeeps, CountedKeeps
      <4>3. CASE \E keys \in Lists(db), x \in {db.status, "on", "manual"} :
                    s = [db EXCEPT !.keys = keys, !.status = x]
        <5>1. s \in Form /\ s.st = db.st
          <6>1. ASSUME NEW keys \in Lists(db), NEW x \in {db.status, "on", "manual"},
                       s = [db EXCEPT !.keys = keys, !.status = x]
                PROVE  s \in Form /\ s.st = db.st
            <7>1. /\ [db EXCEPT !.keys = keys, !.status = x] \in Form
                  /\ [db EXCEPT !.keys = keys, !.status = x].st = db.st
              BY <4>1, SubmittedKeeps
            <7>. QED
              BY <6>1, <7>1, Zenon
          <6>. QED
            BY <4>3, <6>1, Zenon
        <5>. QED
          BY <3>1, <4>1, <5>1, CountedKeeps
      <4>. QED
        BY <3>1, <4>1, <4>2, <4>3
    <3>6. Barred'
      BY <3>2 DEF Barred
    <3>7. ASSUME ~lost', ~orphan' PROVE Deserved'
      <4>1. admin.row = db /\ db \in Row /\ Deserved /\ s \in Form
        BY <2>0, <3>1, <3>4, <3>5, <3>7
      <4>2. /\ db'.keys = IF s.keys = << >> THEN db.keys ELSE s.keys
            /\ \A n \in 1..Len(db'.keys) : db'.st[n] = s.st[n]
        BY <3>1, <4>1, CountedKeeps
      <4>3. 1..Len(db.keys) \subseteq Positions /\ DOMAIN db.keys = 1..Len(db.keys)
        BY <4>1, PoolsAreLists DEF Row
      <4>4. DOMAIN db'.keys = 1..Len(db'.keys)
        BY <3>5, <3>7, PoolsAreLists DEF Row
      <4>5. CASE s \in Managed(db)
        <5>1. Blames(db, s) /\ (s.keys = << >> => \A n \in Positions : s.st[n] = "on")
          BY <4>1, <4>5, ManagedKeeps
        <5>2. CASE s.keys = << >>
          BY <4>2, <4>3, <5>1, <5>2 DEF Deserved
        <5>3. CASE s.keys # << >>
          <6>1. ASSUME NEW n \in 1..Len(s.keys), s.st[n] = "auto" PROVE s.keys[n] \in failed
            BY <4>1, <5>1, <6>1 DEF Blames, Deserved
          <6>. QED
            BY <3>2, <4>2, <5>3, <6>1 DEF Deserved
        <5>. QED
          BY <5>2, <5>3
      <4>6. CASE s.st = db.st /\ ~Shifted(db, db')
        <5>2. ASSUME NEW n \in 1..Len(db'.keys), db'.st[n] = "auto" PROVE db'.keys[n] \in failed
          <6>1. n \in 1..Len(db.keys) /\ db'.keys[n] = db.keys[n]
            BY <4>3, <4>4, <4>6, <5>2 DEF Shifted
          <6>2. db.st[n] = "auto"
            BY <4>2, <4>6, <5>2
          <6>. QED
            BY <4>1, <6>1, <6>2 DEF Deserved
        <5>. QED
          BY <3>2, <5>2 DEF Deserved
      <4>. QED
        BY <3>1, <3>5, <3>7, <4>1, <4>5, <4>6
    <3>8. orphan' \in BOOLEAN /\ lost' \in BOOLEAN
      BY <2>0, <3>1, <3>2 DEF Shifted
    <3>9. ASSUME ~lost' PROVE barred' \subseteq Positions
      BY <3>2, <3>5, <3>9, PoolsAreLists DEF Row
    <3>. QED
      BY <2>0, <3>2, <3>3, <3>5, <3>6, <3>7, <3>8, <3>9 DEF PoolInv
  <2>6. ASSUME UNCHANGED <<db, task, failed, lost, orphan, barred>>, now' \in Nat PROVE PoolInv'
    <3>1. Goroutines'
      BY <2>0, <2>6 DEF Goroutines
    <3>. QED
      BY <2>0, <2>6, <3>1 DEF PoolInv, Deserved, Barred
  <2>7. ASSUME NEW h \in Handlers, Fail(h) PROVE PoolInv'
    <3>1. PICK op \in {"ban", "cool", "enable"} : \E k : Queue(h, op, k)
      BY <2>7 DEF Fail, Unauthorized, SentWithoutKey, RateLimited, TestSucceeds
    <3>. QED
      BY <2>1, <3>1
  <2>8. ASSUME ReapRead \/ AdminRead \/ SyncRead \/ SyncSwap \/ Tick \/ UNCHANGED vars
        PROVE  UNCHANGED <<db, task, failed, lost, orphan, barred>> /\ now' \in Nat
    BY <2>0, <2>8 DEF ReapRead, AdminRead, SyncRead, SyncSwap, Tick, history, vars
  <2>. QED
    BY <2>2, <2>3, <2>4, <2>5, <2>6, <2>7, <2>8 DEF Next, Handle, Reap, Sync
<1>. QED
  BY <1>1, <1>2, PTL DEF Spec

\* A key that UpdateChannelStatus or a cooldown disables has failed, whatever keys the
\* administrator appends or deletes: positions and keys stay together, but for a form that
\* puts another key at a disabled position.
THEOREM BlamedKeysFailed == Spec => []BlameOnlyFailed
<1>1. PoolInv => BlameOnlyFailed
  <2> SUFFICES ASSUME PoolInv, ~lost, ~orphan, NEW i \in DOMAIN db.keys, db.st[i] = "auto"
               PROVE  db.keys[i] \in failed
    BY DEF BlameOnlyFailed
  <2>1. db \in Row /\ Deserved
    BY DEF PoolInv
  <2>2. i \in 1..Len(db.keys)
    BY <2>1, PoolsAreLists DEF Row
  <2>. QED
    BY <2>1, <2>2 DEF Deserved
<1>. QED
  BY <1>1, PoolInductive, PTL

\* A key an administrator has left disabled stays off until the next edit, a test that
\* answers or a rate limit at its position: no deadline is set for it that the reaper could
\* find passed, and a ban keeps it off.
THEOREM ManualStays == Spec => []ManualSticks
<1>1. PoolInv => ManualSticks
  BY DEF PoolInv, Barred, ManualSticks
<1>. QED
  BY <1>1, PoolInductive, PTL

-----------------------------------------------------------------------------
(* The daily quota: for any number of pods and requests, any quota.         *)

\* A request on its way to the fallback group that no reset has overtaken has seen
\* the day's quota used up, and it still is, unless an older copy of the row was saved.
SawExhaustion ==
    \A r \in Requests : req[r] \in {"switch", "write"} => left = 0 \/ r \in overtaken \/ excused

\* A counter that was reset since midnight carries the time of that reset.
TimeOfReset == handedOut => lastReset = "today" \/ setBack

DailyInv == DailyTypeOK /\ SawExhaustion /\ TimeOfReset /\ DemotedOnlyByRace

\* The cron job, the requests, the clock and the handlers keep the invariant.
LEMMA DailyInductive == DailySpec => []DailyInv
<1> USE DailyBounds
<1>1. DailyInit => DailyInv
  <2> SUFFICES ASSUME DailyInit PROVE DailyInv
    OBVIOUS
  <2>1. DailyTypeOK
    <3>1. DailyQuota \in 0 .. DailyQuota /\ 0 \in 0 .. DailyQuota
          /\ 0 \in 0 .. MaxFaults /\ 0 \in 0 .. MaxWrites
      OBVIOUS
    <3>. QED
      BY <3>1 DEF DailyInit, DailyTypeOK, Groups, Times, NoCopy
  <2>2. SawExhaustion /\ TimeOfReset /\ DemotedOnlyByRace
    BY DEF DailyInit, SawExhaustion, TimeOfReset, DemotedOnlyByRace
  <2>. QED
    BY <2>1, <2>2 DEF DailyInv
<1>2. DailyInv /\ [DailyNext]_dailyVars => DailyInv'
  <2> SUFFICES ASSUME DailyInv, [DailyNext]_dailyVars PROVE DailyInv'
    OBVIOUS
  <2> USE DEF DailyInv, DailyTypeOK, Groups, Times, SawExhaustion, TimeOfReset,
              DemotedOnlyByRace, Restoring, row, day, hist, Fault
  <2>1. CASE Midnight
    <3>1. copy' \in [left : 0 .. DailyQuota, lastReset : Times, group : Groups] \cup {NoCopy}
      <4>1. CASE copy = NoCopy
        BY <2>1, <4>1 DEF Midnight, Past, NoCopy
      <4>2. CASE copy # NoCopy
        BY <2>1, <4>2 DEF Midnight, Past
      <4>. QED
        BY <4>1, <4>2
    <3>. QED
      BY <2>1, <3>1 DEF Midnight, Past
  <2>2. CASE SetGroup
    <3>1. excused' \in BOOLEAN /\ (excused => excused') /\ (group' = "fallback" => excused')
      BY <2>2 DEF SetGroup
    <3>. QED
      BY <2>2, <3>1 DEF SetGroup
  <2>3. CASE ReadSelf
    BY <2>3 DEF ReadSelf, NoCopy
  <2>4. CASE Update
    <3>1. /\ UNCHANGED <<cron, req, faults, writes, overtaken, handedOut>>
          /\ copy' = NoCopy
          /\ excused' = (excused \/ row' # row) /\ setBack' = (setBack \/ row' # row)
      BY <2>4 DEF Update
    <3>2. left' \in 0 .. DailyQuota /\ lastReset' \in Times /\ group' \in Groups
      BY <2>4 DEF Update
    <3>4. DailyTypeOK'
      BY <3>1, <3>2
    <3>5. CASE row' = row
      BY <3>1, <3>4, <3>5
    <3>6. CASE row' # row
      BY <3>1, <3>4, <3>6
    <3>. QED
      BY <3>5, <3>6
  <2>5. ASSUME NEW p \in Pods, FindUser(p) PROVE DailyInv'
    BY <2>5 DEF FindUser
  <2>6. ASSUME NEW p \in Pods, ResetDailyQuota(p) PROVE DailyInv'
    <3>0. UNCHANGED <<group, req, copy, writes>>
      BY <2>6 DEF ResetDailyQuota
    <3>1. CASE Reset /\ UNCHANGED faults /\ cron' = [cron EXCEPT ![p] = "restore"]
      <4>1. CASE lastReset = "today"
        BY <3>0, <3>1, <4>1 DEF Reset, NeedsReset
      <4>2. CASE lastReset # "today"
        <5>1. /\ left' = DailyQuota /\ lastReset' = "today" /\ excused' = FALSE
              /\ overtaken' = {r \in Requests : req[r] \in {"switch", "write"}}
              /\ handedOut' = TRUE /\ UNCHANGED setBack
          BY <3>1, <4>2 DEF Reset, NeedsReset, Exhausting
        <5>2. DailyQuota \in 0 .. DailyQuota
          OBVIOUS
        <5>. QED
          BY <3>0, <3>1, <5>1, <5>2
      <4>. QED
        BY <4>1, <4>2
    <3>2. CASE /\ Fault /\ UNCHANGED <<left, lastReset, hist>>
               /\ cron' = [cron EXCEPT ![p] = "idle"]
      <4>1. Restoring => Restoring'
        BY <2>6, <3>2 DEF ResetDailyQuota
      <4>. QED
        BY <3>0, <3>2, <4>1
    <3>. QED
      BY <2>6, <3>1, <3>2 DEF ResetDailyQuota
  <2>7. ASSUME NEW p \in Pods, RestoreRead(p) PROVE DailyInv'
    <3>1. UNCHANGED <<row, req, copy, writes, overtaken, day>>
      BY <2>7 DEF RestoreRead
    <3>2. CASE group # "base" /\ cron' = [cron EXCEPT ![p] = "write"] /\ UNCHANGED <<faults, excused>>
      BY <2>7, <3>1, <3>2
    <3>3. CASE group = "base" /\ cron' = [cron EXCEPT ![p] = "idle"] /\ UNCHANGED <<faults, excused>>
      BY <2>7, <3>1, <3>3
    <3>4. CASE Fault /\ cron' = [cron EXCEPT ![p] = "idle"] /\ excused' = TRUE
      BY <2>7, <3>1, <3>4
    <3>. QED
      BY <2>7, <3>2, <3>3, <3>4 DEF RestoreRead, Restorable
  <2>8. ASSUME NEW p \in Pods, RestoreWrite(p) PROVE DailyInv'
    <3>1. /\ cron' = [cron EXCEPT ![p] = "idle"]
          /\ UNCHANGED <<left, lastReset, req, copy, writes, overtaken, day>>
      BY <2>8 DEF RestoreWrite
    <3>2. CASE group' = "base" /\ UNCHANGED <<faults, excused>>
      BY <3>1, <3>2
    <3>3. CASE Fault /\ excused' = TRUE /\ UNCHANGED group
      BY <3>1, <3>3
    <3>. QED
      BY <2>8, <3>2, <3>3 DEF RestoreWrite
  <2>9. ASSUME NEW p \in Pods, Crash(p) PROVE DailyInv'
    <3>1. /\ cron' = [cron EXCEPT ![p] = "idle"] /\ cron[p] # "idle"
          /\ UNCHANGED <<row, req, copy, writes, overtaken, day>>
      BY <2>9 DEF Crash
    <3>2. excused' \in BOOLEAN /\ (excused => excused') /\ (cron[p] # "reset" => excused')
      BY <2>9 DEF Crash
    <3>3. DailyTypeOK'
      BY <2>9, <3>1, <3>2 DEF Crash
    <3>4. Restoring => Restoring' \/ cron[p] # "reset"
      BY <3>1
    <3>. QED
      BY <3>1, <3>2, <3>3, <3>4
  <2>10. ASSUME NEW r \in Requests, IncreaseDailyUsed(r) PROVE DailyInv'
    BY <2>10 DEF IncreaseDailyUsed, Goto
  <2>11. ASSUME NEW r \in Requests, CheckExhausted(r) PROVE DailyInv'
    BY <2>11 DEF CheckExhausted, Goto, Exhausted
  <2>12. ASSUME NEW r \in Requests, SwitchRead(r) PROVE DailyInv'
    BY <2>12 DEF SwitchRead, Goto
  <2>13. ASSUME NEW r \in Requests, SwitchWrite(r) PROVE DailyInv'
    <3>1. /\ req[r] = "write" /\ req' = [req EXCEPT ![r] = "idle"] /\ group' = "fallback"
          /\ UNCHANGED <<left, lastReset, cron, copy, faults, writes, overtaken, day>>
      BY <2>13 DEF SwitchWrite, Goto
    <3>2. excused' \in BOOLEAN /\ (excused => excused') /\ (r \in overtaken => excused')
      BY <2>13 DEF SwitchWrite
    <3>3. DailyTypeOK'
      BY <3>1, <3>2
    <3>4. left = 0 \/ excused'
      BY <3>1, <3>2
    <3>. QED
      BY <3>1, <3>2, <3>3, <3>4
  <2>14. ASSUME NEW r \in Requests, ConsumeFails(r) PROVE DailyInv'
    BY <2>14 DEF ConsumeFails, Goto
  <2>15. CASE UNCHANGED dailyVars
    BY <2>15 DEF dailyVars
  <2>. QED
    BY <2>1, <2>2, <2>3, <2>4, <2>5, <2>6, <2>7, <2>8, <2>9, <2>10, <2>11, <2>12, <2>13,
       <2>14, <2>15
       DEF DailyNext, Round, PostConsume
<1>. QED
  BY <1>1, <1>2, PTL DEF DailySpec

\* A user whose counter was reset today and who has quota left is put or kept in the
\* fallback group only by a fault, an overtaken request, an edit of the group or a save
\* of an older copy of the row: not by the cron job of any pod, nor by a request of
\* PostConsumeDailyQuota that no reset has overtaken.
THEOREM DemotedByRace == DailySpec => []DemotedOnlyByRace
<1>1. DailyInv => DemotedOnlyByRace
  BY DEF DailyInv
<1>. QED
  BY <1>1, DailyInductive, PTL

\* ResetDailyQuota's condition on the time of the last reset makes a pod that comes late
\* change nothing, and no other statement gives any of the day's quota back, on a day on
\* which User.Update overwrites the row with no older copy of it.
THEOREM OneResetADay == DailySpec => ResetOncePerDay
<1> USE DailyBounds
<1>1. DailyInv /\ [DailyNext]_dailyVars => [left' > left => ~handedOut \/ setBack']_dailyVars
  <2> SUFFICES ASSUME DailyInv, [DailyNext]_dailyVars, handedOut, ~setBack'
               PROVE  ~(left' > left)
    OBVIOUS
  <2>1. left \in Nat
    BY DEF DailyInv, DailyTypeOK
  <2>2. ASSUME NEW r \in Requests, IncreaseDailyUsed(r) PROVE ~(left' > left)
    <3>1. PICK a \in Amounts : left' = IF a < left THEN left - a ELSE 0
      BY <2>2 DEF IncreaseDailyUsed
    <3>2. a \in Nat
      OBVIOUS
    <3>. QED
      BY <2>1, <3>1, <3>2
  <2>3. ASSUME NEW p \in Pods, ResetDailyQuota(p) PROVE left' = left
    <3>1. setBack' = setBack
      BY <2>3 DEF ResetDailyQuota, Reset, hist, day
    <3>2. lastReset = "today"
      BY <3>1 DEF DailyInv, TimeOfReset
    <3>. QED
      BY <2>3, <3>2 DEF ResetDailyQuota, Reset, NeedsReset
  <2>4. ASSUME Update PROVE left' = left
    BY <2>4 DEF Update, row
  <2>5. ASSUME ~\E r \in Requests : IncreaseDailyUsed(r),
               ~\E p \in Pods : ResetDailyQuota(p), ~Update
        PROVE  left' = left
    BY <2>5 DEF DailyNext, Midnight, SetGroup, ReadSelf, Round, FindUser, RestoreRead,
       RestoreWrite, Crash, PostConsume, CheckExhausted, SwitchRead, SwitchWrite,
       ConsumeFails, row, dailyVars
  <2>. QED
    BY <2>1, <2>2, <2>3, <2>4, <2>5
<1>. QED
  BY <1>1, DailyInductive, PTL DEF DailySpec, ResetOncePerDay
=============================================================================
