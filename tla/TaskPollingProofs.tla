-------------------------- MODULE TaskPollingProofs -------------------------
(* Theorems about TaskPolling, for any number of tasks, faults and fetches: *)
(* types, refunds paid once, and finished tasks settled.                     *)
EXTENDS TaskPolling, TLAPS

Waiting(t) == \E s \in todo \cup answered : s.task = t

\* A task is in one place of the poller at most.
Apart ==
    /\ \A a, b \in todo : a.task = b.task => a = b
    /\ \A a, b \in answered : a.task = b.task => a = b
    /\ \A a \in todo, b \in answered : a.task # b.task
    /\ work # Nothing => \A s \in todo \cup answered : s.task # work.task

\* Poller and clients know submitted tasks only.
Submitted ==
    \A t \in Tasks : submission[t] = "new" =>
        row[t] = Absent /\ ~Waiting(t) /\ ~InWork(t) /\ viewed[t] = Nothing

Places == Apart /\ Submitted

\* The refund of a video task comes last: its row says failure by then, and
\* nothing of it is left with the poller.
VideoOnce(t) ==
    /\ refunds[t] <= 1
    /\ refunds[t] = 1 => row[t].status = "failure" /\ ~Waiting(t) /\ ~InWork(t)
    /\ InWork(t) /\ work.steps = <<"pay">> => row[t].status = "failure"

\* The refund of a Suno task comes first: the finished row is saved, or about to be.
SunoOnce(t) ==
    /\ refunds[t] <= 1
    /\ refunds[t] = 1 =>
          /\ ~Waiting(t)
          /\ IF InWork(t) THEN work.steps = <<"save">> /\ work.row.full ELSE row[t].full

Once ==
    /\ \A t \in Video \ Watched : VideoOnce(t)
    /\ \A t \in Suno \ Faulty : SunoOnce(t)

\* What the steps of the row in work say of the row that is to be saved.
StepsInOrder ==
    work # Nothing =>
        /\ work.steps = <<"pay", "save">> =>
              /\ work.row.quota + work.pay \in Nat
              /\ IF work.task \in Suno THEN work.row.full ELSE work.row.status = "success"
        /\ work.steps = <<"save", "pay">> => work.row.status = "failure"
        /\ work.steps = <<"pay">> => work.row.status = "failure"
        /\ work.task \in Suno => work.steps \in {<<"save">>, <<"pay", "save">>}

Typed == TypeOK /\ StepsInOrder

-----------------------------------------------------------------------------
(* Typing.                                                                   *)

\* A row changed by an answer is a row.
LEMMA UpdatedType ==
    ASSUME NEW old \in RowType, NEW a \in Answers
    PROVE  /\ Updated(old, a) \in RowType
           /\ Updated(old, a).quota = old.quota
           /\ a = "success" => Updated(old, a).status = "success"
           /\ a = "failure" => Updated(old, a).status = "failure"
           /\ a # "running" => Updated(old, a).full
  BY DEF Updated, RowType, Answers

\* A row failed in bulk is a row.
LEMMA FailedType ==
    ASSUME NEW old \in RowType
    PROVE  /\ [old EXCEPT !.status = "failure", !.full = TRUE] \in RowType
           /\ [old EXCEPT !.status = "failure", !.full = TRUE].status = "failure"
           /\ [old EXCEPT !.status = "failure", !.full = TRUE].full
  BY DEF RowType

\* The steps of a row go on to the next one, or the row is done.
LEMMA RestType ==
    ASSUME NEW w \in WorkType
    PROVE  /\ w.steps = <<"save">> => Rest(w) = Nothing
           /\ w.steps = <<"pay">> => Rest(w) = Nothing
           /\ w.steps = <<"pay", "save">> =>
                 Rest(w) = [task |-> w.task, row |-> w.row, pay |-> w.pay, steps |-> <<"save">>]
           /\ w.steps = <<"save", "pay">> =>
                 Rest(w) = [task |-> w.task, row |-> w.row, pay |-> w.pay, steps |-> <<"pay">>]
<1>1. Len(<<"save">>) = 1 /\ Len(<<"pay">>) = 1
  OBVIOUS
<1>2. Len(<<"pay", "save">>) = 2 /\ Len(<<"save", "pay">>) = 2
  OBVIOUS
<1>3. Tail(<<"pay", "save">>) = <<"save">> /\ Tail(<<"save", "pay">>) = <<"pay">>
  OBVIOUS
<1>4. w = [task |-> w.task, row |-> w.row, pay |-> w.pay, steps |-> w.steps]
  BY DEF WorkType
<1>5. \A u : [w EXCEPT !.steps = u] = [task |-> w.task, row |-> w.row, pay |-> w.pay, steps |-> u]
  BY <1>4
<1>6. CASE Len(w.steps) = 1
  BY <1>2, <1>6 DEF Rest
<1>7. CASE Len(w.steps) # 1
  <2>1. Rest(w) = [task |-> w.task, row |-> w.row, pay |-> w.pay, steps |-> Tail(w.steps)]
    BY <1>5, <1>7 DEF Rest
  <2>. QED
    BY <1>1, <1>3, <1>7, <2>1
<1>. QED
  BY <1>6, <1>7

\* The kinds of steps, by their first and their number.
LEMMA StepKinds ==
    /\ Head(<<"pay">>) = "pay" /\ Head(<<"save">>) = "save"
    /\ Head(<<"pay", "save">>) = "pay" /\ Head(<<"save", "pay">>) = "save"
    /\ \A s, u \in Steps : s = u \/ s # u
    /\ <<"pay">> # <<"save">> /\ <<"pay">> # <<"pay", "save">> /\ <<"pay">> # <<"save", "pay">>
    /\ <<"save">> # <<"pay", "save">> /\ <<"save">> # <<"save", "pay">>
    /\ <<"pay", "save">> # <<"save", "pay">>
  OBVIOUS

\* The row in work keeps its type and its discipline after the first step.
LEMMA RestTyped ==
    ASSUME NEW w \in WorkType
    PROVE  /\ Rest(w) \in {Nothing} \cup WorkType
           /\ Rest(w) # Nothing => Rest(w).task = w.task /\ Rest(w).row = w.row
           /\ Rest(w) # Nothing /\ w.steps = <<"pay", "save">> => Rest(w).steps = <<"save">>
           /\ Rest(w) # Nothing /\ w.steps # <<"pay", "save">> =>
                 Rest(w).steps = <<"pay">> /\ w.steps = <<"save", "pay">>
<1>1. w.steps \in Steps /\ w.task \in Tasks /\ w.row \in RowType /\ w.pay \in Int
  BY DEF WorkType
<1>2. <<"save">> \in Steps /\ <<"pay">> \in Steps
  BY DEF Steps
<1>3. CASE w.steps = <<"pay", "save">>
  BY <1>1, <1>2, <1>3, RestType DEF WorkType
<1>4. CASE w.steps = <<"save", "pay">>
  BY <1>1, <1>2, <1>4, RestType, StepKinds DEF WorkType
<1>5. CASE w.steps \in {<<"save">>, <<"pay">>}
  BY <1>5, RestType
<1>. QED
  BY <1>1, <1>3, <1>4, <1>5 DEF Steps

\* The row an action puts in work.
LEMMA WorkShape ==
    ASSUME NEW t \in Tasks, NEW r \in RowType, NEW p \in Int, NEW st \in Steps
    PROVE  [task |-> t, row |-> r, pay |-> p, steps |-> st] \in WorkType
  BY DEF WorkType

\* A price written into a row in work changes nothing else.
LEMMA RepricedType ==
    ASSUME NEW w \in WorkType, NEW q \in Nat
    PROVE  /\ [w EXCEPT !.row.quota = q] \in WorkType
           /\ [w EXCEPT !.row.quota = q].task = w.task
           /\ [w EXCEPT !.row.quota = q].steps = w.steps
           /\ [w EXCEPT !.row.quota = q].row = [w.row EXCEPT !.quota = q]
<1>1. w.steps \in Steps /\ w.task \in Tasks /\ w.row \in RowType /\ w.pay \in Int
  BY DEF WorkType
<1>2. [w.row EXCEPT !.quota = q] \in RowType
  BY <1>1 DEF RowType
<1>3. w = [task |-> w.task, row |-> w.row, pay |-> w.pay, steps |-> w.steps]
  BY DEF WorkType
<1>4. [w EXCEPT !.row.quota = q] =
         [task |-> w.task, row |-> [w.row EXCEPT !.quota = q], pay |-> w.pay, steps |-> w.steps]
  BY <1>3
<1>. QED
  BY <1>1, <1>2, <1>4, WorkShape

\* The row in work after a first step of two.
LEMMA RestSome ==
    ASSUME NEW w \in WorkType, w.steps = <<"pay", "save">>
    PROVE  Rest(w) # Nothing
<1>1. Rest(w).steps = <<"save">> /\ DOMAIN Rest(w) = {"task", "row", "pay", "steps"}
  BY RestType
<1>2. DOMAIN Nothing = {"task"}
  BY DEF Nothing
<1>. QED
  BY <1>1, <1>2

\* What the poller does with the answer to a Suno row.
LEMMA TakeSunoEffect ==
    ASSUME Typed, NEW s \in answered, TakeSuno(s)
    PROVE  work' \in WorkType /\ StepsInOrder' /\ work'.task = s.task /\ s.task \in Suno
<1> USE TaskSets, Prices, Bounds DEF Typed, TypeOK
<1>1. s.task \in Suno /\ s.row \in RowType /\ s.answer \in Answers /\ s.row.quota \in Nat
  BY DEF RowType
<1>2. <<"save">> \in Steps /\ <<"pay", "save">> \in Steps
  BY DEF Steps
<1> DEFINE refund == s.answer \in {"failure", "broken"} /\ s.row.quota # 0 /\ ~err
           p == IF refund THEN - s.row.quota ELSE 0
           st == IF refund THEN <<"pay", "save">> ELSE <<"save">>
           r == Updated(s.row, s.answer)
<1>3. p \in Int /\ st \in Steps /\ s.task \in Tasks
  BY <1>1, <1>2
<1>4. r \in RowType /\ r.quota = s.row.quota /\ (refund => r.full)
  BY <1>1, UpdatedType
<1>5. work' = [task |-> s.task, row |-> r, pay |-> p, steps |-> st]
  BY DEF TakeSuno
<1>6. /\ st \in {<<"save">>, <<"pay", "save">>}
      /\ st = <<"pay", "save">> => refund /\ r.quota + p \in Nat /\ r.full
  BY <1>1, <1>4, StepKinds
<1> HIDE DEF p, st, r, refund
<1>7. work' \in WorkType
  BY <1>3, <1>4, <1>5, WorkShape
<1>8. StepsInOrder'
  BY <1>1, <1>5, <1>6, StepKinds DEF StepsInOrder
<1>. QED
  BY <1>1, <1>5, <1>7, <1>8

\* What the poller does with the answer to a video row.
LEMMA TakeVideoEffect ==
    ASSUME Typed, NEW s \in todo, TakeVideo(s)
    PROVE  /\ work' \in WorkType /\ StepsInOrder' /\ work'.task = s.task
           /\ s.task \in Video /\ work'.steps # <<"pay">>
<1> USE TaskSets, Prices, Bounds DEF Video, Typed, TypeOK
<1>1. s.task \in Tasks \ Suno /\ s.row \in RowType /\ s.row.quota \in Nat /\ actual[s.task] \in Nat
  BY DEF TakeVideo, SunoTodo, RowType
<1>2. <<"save">> \in Steps /\ <<"pay", "save">> \in Steps /\ RefundLast \in Steps
  BY DEF Steps, RefundLast
<1> DEFINE delta == QuotaDelta(s.task, s.row.quota)
           p(a) == CASE a = "success" -> delta
                     [] a = "failure" -> - s.row.quota
                     [] OTHER -> 0
           st(a) == CASE a = "success" /\ delta # 0 -> <<"pay", "save">>
                      [] a = "failure" /\ s.row.quota # 0 -> RefundLast
                      [] OTHER -> <<"save">>
<1>3. PICK a \in Answers :
         work' = [task |-> s.task, row |-> Updated(s.row, a), pay |-> p(a), steps |-> st(a)]
  BY Zenon DEF TakeVideo
<1>4. /\ a = "success" => p(a) = delta
      /\ a = "failure" => p(a) = - s.row.quota
      /\ a \notin {"success", "failure"} => p(a) = 0
  BY Zenon
<1>5. /\ a = "success" /\ delta # 0 => st(a) = <<"pay", "save">>
      /\ a = "failure" /\ s.row.quota # 0 => st(a) = RefundLast
      /\ ~(a = "success" /\ delta # 0) /\ ~(a = "failure" /\ s.row.quota # 0) => st(a) = <<"save">>
  BY Zenon
<1> HIDE DEF p, st
<1>6. delta \in Int /\ s.row.quota + delta \in Nat
  BY <1>1 DEF QuotaDelta
<1> HIDE DEF delta
<1>7. p(a) \in Int /\ st(a) \in Steps
  BY <1>1, <1>2, <1>4, <1>5, <1>6
<1>8. /\ Updated(s.row, a) \in RowType /\ Updated(s.row, a).quota = s.row.quota
      /\ a = "success" => Updated(s.row, a).status = "success"
      /\ a = "failure" => Updated(s.row, a).status = "failure"
  BY <1>1, UpdatedType
<1>9. work' \in WorkType
  BY <1>1, <1>3, <1>7, <1>8, WorkShape
<1>10. /\ st(a) = <<"pay", "save">> => a = "success" /\ p(a) = delta
       /\ st(a) = <<"save", "pay">> => a = "failure"
       /\ st(a) # <<"pay">>
  BY <1>4, <1>5, StepKinds DEF RefundLast
<1>11. StepsInOrder'
  BY <1>1, <1>3, <1>6, <1>8, <1>10 DEF StepsInOrder
<1>. QED
  BY <1>1, <1>3, <1>9, <1>10, <1>11

\* What is left to do after a payment.
LEMMA PayEffect ==
    ASSUME Typed, Pay
    PROVE  /\ work \in WorkType /\ work # Nothing
           /\ work' \in {Nothing} \cup WorkType /\ StepsInOrder'
           /\ \/ work.steps = <<"pay">> /\ work' = Nothing
              \/ /\ work.steps = <<"pay", "save">> /\ work' # Nothing
                 /\ work'.task = work.task /\ work'.steps = <<"save">>
                 /\ work'.row.full = work.row.full /\ work'.row.status = work.row.status
<1> USE TaskSets, Prices, Bounds DEF Typed, TypeOK
<1>1. work \in WorkType /\ work # Nothing /\ work.steps \in Steps
  BY DEF Pay, WorkType
<1>2. work.steps \in {<<"pay">>, <<"pay", "save">>}
  BY <1>1, StepKinds DEF Pay, Steps
<1> DEFINE repriced == IF work.row.status = "success" THEN work.row.quota + work.pay
                                                      ELSE work.row.quota
           w == [work EXCEPT !.row.quota = repriced]
<1>3. work.task \in Tasks /\ work.row \in RowType /\ work.pay \in Int /\ work.row.quota \in Nat
  BY <1>1 DEF WorkType, RowType
<1>4. repriced \in Nat
  BY <1>1, <1>2, <1>3, StepKinds DEF StepsInOrder
<1>5. w \in WorkType /\ w.task = work.task /\ w.steps = work.steps
  BY <1>1, <1>4, RepricedType
<1>6. work' = Rest(work) \/ work' = Rest(w)
  BY DEF Pay
<1>7. work' \in {Nothing} \cup WorkType
  BY <1>1, <1>5, <1>6, RestTyped
<1>8. work' # Nothing => work'.steps = <<"save">>
  BY <1>1, <1>2, <1>5, <1>6, RestTyped, StepKinds
<1>9. StepsInOrder'
  BY <1>8, StepKinds DEF StepsInOrder
<1>10. w.row = [work.row EXCEPT !.quota = repriced]
  BY <1>1, <1>4, RepricedType
<1>11. w.row.full = work.row.full /\ w.row.status = work.row.status
  BY <1>3, <1>10 DEF RowType
<1> HIDE DEF w
<1>12. work.steps = <<"pay">> => work' = Nothing
  BY <1>1, <1>5, <1>6, RestType
<1>13. ASSUME work.steps = <<"pay", "save">>
       PROVE  /\ work' # Nothing /\ work'.task = work.task /\ work'.steps = <<"save">>
              /\ work'.row.full = work.row.full /\ work'.row.status = work.row.status
  <2>1. work' = [task |-> work.task, row |-> work.row, pay |-> work.pay, steps |-> <<"save">>]
        \/ work' = [task |-> w.task, row |-> w.row, pay |-> w.pay, steps |-> <<"save">>]
    BY <1>1, <1>5, <1>6, <1>13, RestType
  <2>2. work' # Nothing
    BY <1>1, <1>5, <1>6, <1>13, RestSome
  <2>. QED
    BY <1>5, <1>11, <2>1, <2>2
<1>. QED
  BY <1>1, <1>2, <1>7, <1>9, <1>12, <1>13

\* What is left to do after a row is saved, or cannot be.
LEMMA SaveEffect ==
    ASSUME Typed, Save
    PROVE  /\ work \in WorkType /\ work # Nothing
           /\ work' \in {Nothing} \cup WorkType /\ StepsInOrder'
           /\ work.steps \in {<<"save">>, <<"save", "pay">>}
           /\ work.steps = <<"save">> => work' = Nothing
           /\ work' # Nothing => /\ work.steps = <<"save", "pay">> /\ work'.steps = <<"pay">>
                                 /\ work'.task = work.task /\ work'.row = work.row
                                 /\ work'.pay = work.pay
<1> USE TaskSets, Prices, Bounds DEF Typed, TypeOK
<1>1. work \in WorkType /\ work # Nothing /\ work.steps \in Steps /\ work.row \in RowType
  BY DEF Save, WorkType
<1>2. work.steps \in {<<"save">>, <<"save", "pay">>}
  BY <1>1, StepKinds DEF Save, Steps
<1>3. work' = Rest(work) \/ work' = Nothing
  BY DEF Save
<1>4. work' \in {Nothing} \cup WorkType
  BY <1>1, <1>3, RestTyped
<1>5. work' # Nothing => /\ work'.steps = <<"pay">> /\ work.steps = <<"save", "pay">>
                         /\ work'.row = work.row /\ work'.task = work.task
  BY <1>1, <1>2, <1>3, RestTyped, StepKinds
<1>6. StepsInOrder'
  BY <1>1, <1>5, StepKinds DEF StepsInOrder
<1>7. work.steps = <<"save">> => work' = Nothing
  BY <1>1, <1>3, RestType
<1>8. work' # Nothing => work'.pay = work.pay
  BY <1>1, <1>3, <1>5, RestType
<1>. QED
  BY <1>1, <1>2, <1>4, <1>5, <1>6, <1>7, <1>8

\* Every step keeps the types, and the steps of a row in their order.
LEMMA TypedInvariant == Spec => []Typed
<1>1. Init => Typed
  <2> SUFFICES ASSUME Init PROVE Typed
    OBVIOUS
  <2>1. Absent \in RowType
    BY DEF Absent, RowType
  <2>2. err \in BOOLEAN
    BY Zenon DEF Init
  <2>. QED
    BY <2>1, <2>2, Prices, Bounds DEF Init, Typed, TypeOK, StepsInOrder
<1>2. Typed /\ [Next]_vars => Typed'
  <2> SUFFICES ASSUME Typed, [Next]_vars PROVE Typed'
    OBVIOUS
  <2> USE TaskSets, Prices, Bounds DEF Typed, TypeOK, job, ledger, poller, client
  <2>1. ASSUME NEW t \in Tasks, Submit(t) PROVE Typed'
    <3>1. [status |-> "running", full |-> FALSE, quota |-> Price] \in RowType
      BY DEF RowType
    <3>. QED
      BY <2>1, <3>1 DEF Submit, StepsInOrder
  <2>2. ASSUME NEW t \in Tasks, Charge(t) PROVE Typed'
    BY <2>2 DEF Charge, Fault, StepsInOrder
  <2>3. ASSUME NEW t \in Tasks, UpstreamEnds(t) PROVE Typed'
    BY <2>3 DEF UpstreamEnds, StepsInOrder
  <2>4. CASE Poll
    <3>1. ASSUME NEW s \in todo' PROVE s \in [task : Tasks, row : RowType]
      <4>1. PICK t \in Tasks : s = [task |-> t, row |-> row[t]]
        BY <2>4 DEF Poll
      <4>. QED
        BY <4>1
    <3>2. todo' \in SUBSET [task : Tasks, row : RowType]
      BY <3>1
    <3>3. StepsInOrder'
      BY <2>4 DEF Poll, StepsInOrder
    <3>. QED
      BY <2>4, <3>2, <3>3 DEF Poll
  <2>5. CASE FetchSuno
    <3>1. todo' \in SUBSET [task : Tasks, row : RowType]
      BY <2>5 DEF FetchSuno
    <3>2. answered' \in SUBSET [task : Suno, row : RowType, answer : Answers]
      <4>1. CASE answered' = answered
        BY <4>1
      <4>2. ASSUME NEW a \in [SunoTodo -> Answers],
                   answered' = {[task |-> s.task, row |-> s.row, answer |-> a[s]] : s \in SunoTodo}
            PROVE  answered' \in SUBSET [task : Suno, row : RowType, answer : Answers]
        <5>1. ASSUME NEW s \in SunoTodo
              PROVE  [task |-> s.task, row |-> s.row, answer |-> a[s]]
                        \in [task : Suno, row : RowType, answer : Answers]
          BY DEF SunoTodo
        <5>. QED
          BY <4>2, <5>1
      <4>. QED
        BY <2>5, <4>1, <4>2 DEF FetchSuno
    <3>3. err' \in BOOLEAN
      BY <2>5, Zenon DEF FetchSuno
    <3>. QED
      BY <2>5, <3>1, <3>2, <3>3 DEF FetchSuno, Fault, StepsInOrder
  <2>6. ASSUME NEW S \in SUBSET todo, ChannelGone(S) PROVE Typed'
    <3> DEFINE failed(t) == [row[t] EXCEPT !.status = "failure", !.full = TRUE]
    <3>1. ASSUME NEW t \in Tasks PROVE failed(t) \in RowType
      BY FailedType
    <3>2. row' = [t \in Tasks |-> IF \E s \in S : s.task = t THEN failed(t) ELSE row[t]]
      BY <2>6, Zenon DEF ChannelGone
    <3> HIDE DEF failed
    <3>3. row' \in [Tasks -> RowType]
      BY <3>1, <3>2
    <3>4. faults < MaxFaults /\ faults' = faults + 1
      BY <2>6, Zenon DEF ChannelGone, Fault
    <3>5. faults' \in 0 .. MaxFaults
      BY <3>4
    <3>. QED
      BY <2>6, <3>3, <3>5 DEF ChannelGone, StepsInOrder
  <2>7. ASSUME NEW s \in answered, TakeSuno(s) PROVE Typed'
    <3>1. work' \in WorkType /\ StepsInOrder'
      BY TakeSunoEffect, <2>7
    <3>. QED
      BY <2>7, <3>1 DEF TakeSuno
  <2>8. ASSUME NEW s \in todo, TakeVideo(s) PROVE Typed'
    <3>1. work' \in WorkType /\ StepsInOrder'
      BY TakeVideoEffect, <2>8
    <3>. QED
      BY <2>8, <3>1 DEF TakeVideo
  <2>9. ASSUME NEW s \in todo, SkipVideo(s) PROVE Typed'
    BY <2>9 DEF SkipVideo, Fault, StepsInOrder
  <2>10. CASE Pay
    <3>1. work \in WorkType /\ work' \in {Nothing} \cup WorkType /\ StepsInOrder'
      BY PayEffect, <2>10
    <3>2. work.task \in Tasks /\ work.pay \in Int
      BY <3>1 DEF WorkType
    <3>3. paid' \in [Tasks -> Int] /\ refunds' \in [Tasks -> 0 .. 2] /\ faults' \in 0 .. MaxFaults
      BY <2>10, <3>2 DEF Pay, Fault
    <3>. QED
      BY <2>10, <3>1, <3>3 DEF Pay
  <2>11. CASE Save
    <3>1. work \in WorkType /\ work' \in {Nothing} \cup WorkType /\ StepsInOrder'
      BY SaveEffect, <2>11
    <3>2. work.row \in RowType
      BY <3>1 DEF WorkType
    <3>3. row' \in [Tasks -> RowType] /\ faults' \in 0 .. MaxFaults
      BY <2>11, <3>2 DEF Save, Fault
    <3>4. err' \in BOOLEAN
      BY <2>11, Zenon DEF Save
    <3>. QED
      BY <2>11, <3>1, <3>3, <3>4 DEF Save
  <2>12. CASE Restart
    <3>1. err' \in BOOLEAN
      BY <2>12, Zenon DEF Restart
    <3>. QED
      BY <2>12, <3>1 DEF Restart, Fault, StepsInOrder
  <2>13. ASSUME NEW t \in Watched, ReadRow(t) PROVE Typed'
    <3>1. [row |-> row[t], answer |-> "none"] \in ViewType
      BY DEF ViewType
    <3>. QED
      BY <2>13, <3>1 DEF ReadRow, StepsInOrder
  <2>14. ASSUME NEW t \in Watched, AskUpstream(t) PROVE Typed'
    <3>1. viewed[t] \in ViewType
      BY <2>14 DEF AskUpstream
    <3>2. PICK a \in Answers : viewed' = [viewed EXCEPT ![t].answer = a]
      BY <2>14 DEF AskUpstream
    <3>3. [viewed[t] EXCEPT !.answer = a] \in ViewType
      BY <3>1 DEF ViewType
    <3>4. viewed' = [viewed EXCEPT ![t] = [viewed[t] EXCEPT !.answer = a]]
      BY <3>2
    <3>5. viewed' \in [Tasks -> {Nothing} \cup ViewType]
      BY <3>3, <3>4
    <3>. QED
      BY <2>14, <3>5 DEF AskUpstream, StepsInOrder
  <2>15. ASSUME NEW t \in Watched, WriteRow(t) PROVE Typed'
    <3>1. viewed[t] \in ViewType
      BY <2>15 DEF WriteRow
    <3>2. viewed[t].row \in RowType /\ viewed[t].answer \in Answers
      BY <2>15, <3>1 DEF WriteRow, ViewType
    <3>3. Updated(viewed[t].row, viewed[t].answer) \in RowType
      BY <3>2, UpdatedType
    <3>. QED
      BY <2>15, <3>3 DEF WriteRow, StepsInOrder
  <2>16. CASE UNCHANGED vars
    BY <2>16 DEF vars, StepsInOrder
  <2>. QED
    BY <2>1, <2>2, <2>3, <2>4, <2>5, <2>6, <2>7, <2>8, <2>9, <2>10, <2>11, <2>12, <2>13,
       <2>14, <2>15, <2>16 DEF Next, Poller, Client, Terminated
<1>. QED
  BY <1>1, <1>2, PTL DEF Spec

\* The variables of submissions, poller and clients keep their types; a recomputed
\* price is never negative.
THEOREM Typing == Spec => []TypeOK
<1>1. Typed => TypeOK
  BY DEF Typed
<1>. QED
  BY <1>1, TypedInvariant, PTL
-----------------------------------------------------------------------------
(* Refunds.                                                                  *)

\* A row the poller works on stands nowhere else, and belongs to a submitted task.
LEMMA PlacesInvariant == Spec => []Places
<1>1. Init => Places
  BY DEF Init, Places, Apart, Submitted, Waiting, InWork
<1>2. Typed /\ Places /\ [Next]_vars => Places'
  <2> SUFFICES ASSUME Typed, Places, [Next]_vars PROVE Places'
    OBVIOUS
  <2> USE TaskSets DEF Typed, TypeOK, job, ledger, poller, client
  <2>1. ASSUME NEW t \in Tasks, Submit(t) PROVE Places'
    BY <2>1 DEF Submit, Places, Apart, Submitted, Waiting, InWork
  <2>2. ASSUME NEW t \in Tasks, Charge(t) PROVE Places'
    BY <2>2 DEF Charge, Places, Apart, Submitted, Waiting, InWork
  <2>3. ASSUME NEW t \in Tasks, UpstreamEnds(t) PROVE Places'
    BY <2>3 DEF UpstreamEnds, Places, Apart, Submitted, Waiting, InWork
  <2>4. CASE Poll
    <3>1. \A a, b \in todo' : a.task = b.task => a = b
      BY <2>4 DEF Poll
    <3>2. answered' = {} /\ work' = Nothing
      BY <2>4 DEF Poll
    <3>3. ASSUME NEW t \in Tasks, Waiting(t)' PROVE row[t] # Absent
      BY <2>4, <3>2, <3>3 DEF Poll, Waiting, Unfinished, Absent
    <3>4. Submitted'
      BY <2>4, <3>2, <3>3 DEF Poll, Places, Submitted, InWork
    <3>. QED
      BY <3>1, <3>2, <3>4 DEF Places, Apart
  <2>5. CASE FetchSuno
    <3>1. /\ work = Nothing /\ work' = Nothing /\ todo' = todo \ SunoTodo
          /\ UNCHANGED <<row, submission, viewed>>
      BY <2>5 DEF FetchSuno
    <3>2. \/ answered' = answered
          \/ /\ \A b \in answered' : \E s \in SunoTodo : s.task = b.task
             /\ \A a, b \in answered' : a.task = b.task => a = b
      <4>1. ASSUME NEW f \in [SunoTodo -> Answers],
                   answered' = {[task |-> s.task, row |-> s.row, answer |-> f[s]] : s \in SunoTodo}
            PROVE  /\ \A b \in answered' : \E s \in SunoTodo : s.task = b.task
                   /\ \A a, b \in answered' : a.task = b.task => a = b
        <5>1. ASSUME NEW a \in answered'
              PROVE  \E s \in SunoTodo : a = [task |-> s.task, row |-> s.row, answer |-> f[s]]
          BY <4>1
        <5>2. ASSUME NEW a \in answered', NEW b \in answered', a.task = b.task PROVE a = b
          <6>1. PICK s \in SunoTodo : a = [task |-> s.task, row |-> s.row, answer |-> f[s]]
            BY <5>1
          <6>2. PICK u \in SunoTodo : b = [task |-> u.task, row |-> u.row, answer |-> f[u]]
            BY <5>1
          <6>3. s = u
            BY <5>2, <6>1, <6>2 DEF SunoTodo, Places, Apart
          <6>. QED
            BY <6>1, <6>2, <6>3
        <5>. QED
          BY <5>1, <5>2
      <4>. QED
        BY <2>5, <4>1 DEF FetchSuno
    <3>3. Apart'
      BY <3>1, <3>2 DEF Places, Apart, SunoTodo
    <3>4. ASSUME NEW t, Waiting(t)' PROVE Waiting(t)
      BY <3>1, <3>2, <3>4 DEF Waiting, SunoTodo
    <3>. QED
      BY <3>1, <3>3, <3>4 DEF Places, Submitted, InWork
  <2>6. ASSUME NEW S \in SUBSET todo, ChannelGone(S) PROVE Places'
    <3>1. work' = work /\ todo' = todo \ S /\ UNCHANGED <<answered, submission, viewed>>
      BY <2>6, Zenon DEF ChannelGone, job, client
    <3>2. ASSUME NEW t \in Tasks, submission[t] = "new" PROVE row'[t] = row[t]
      <4>1. ~ \E s \in S : s.task = t
        BY <3>2 DEF Places, Submitted, Waiting
      <4>. QED
        BY <2>6, <4>1, Zenon DEF ChannelGone
    <3>. QED
      BY <3>1, <3>2 DEF Places, Apart, Submitted, Waiting, InWork
  <2>7. ASSUME NEW s \in answered, TakeSuno(s) PROVE Places'
    <3>1. work'.task = s.task
      BY <2>7, TakeSunoEffect
    <3>2. answered' = answered \ {s} /\ UNCHANGED <<row, submission, todo, viewed>>
      BY <2>7 DEF TakeSuno
    <3>. QED
      BY <3>1, <3>2 DEF Places, Apart, Submitted, Waiting, InWork
  <2>8. ASSUME NEW s \in todo, TakeVideo(s) PROVE Places'
    <3>1. work'.task = s.task
      BY <2>8, TakeVideoEffect
    <3>2. todo' = todo \ {s} /\ UNCHANGED <<row, submission, answered, viewed>>
      BY <2>8, Zenon DEF TakeVideo, job, client
    <3>. QED
      BY <3>1, <3>2 DEF Places, Apart, Submitted, Waiting, InWork
  <2>9. ASSUME NEW s \in todo, SkipVideo(s) PROVE Places'
    BY <2>9 DEF SkipVideo, Places, Apart, Submitted, Waiting, InWork
  <2>10. CASE Pay
    <3>1. work # Nothing /\ (work' # Nothing => work'.task = work.task)
      BY <2>10, PayEffect
    <3>2. UNCHANGED <<row, submission, todo, answered, viewed>>
      BY <2>10, Zenon DEF Pay, job, client
    <3>. QED
      BY <3>1, <3>2 DEF Places, Apart, Submitted, Waiting, InWork
  <2>11. CASE Save
    <3>1. work # Nothing /\ (work' # Nothing => work'.task = work.task)
      BY <2>11, SaveEffect
    <3>2. UNCHANGED <<submission, todo, answered, viewed>>
      BY <2>11, Zenon DEF Save, job, client
    <3>3. \A t \in Tasks : t # work.task => row'[t] = row[t]
      BY <2>11 DEF Save
    <3>. QED
      BY <3>1, <3>2, <3>3 DEF Places, Apart, Submitted, Waiting, InWork
  <2>12. CASE Restart
    BY <2>12 DEF Restart, Places, Apart, Submitted, Waiting, InWork
  <2>13. ASSUME NEW t \in Watched, ReadRow(t) PROVE Places'
    BY <2>13 DEF ReadRow, Places, Apart, Submitted, Waiting, InWork
  <2>14. ASSUME NEW t \in Watched, AskUpstream(t) PROVE Places'
    <3>1. UNCHANGED <<row, submission, todo, answered, work>>
      BY <2>14, Zenon DEF AskUpstream, job, poller
    <3>2. \A u \in Tasks : viewed[u] = Nothing => viewed'[u] = Nothing
      <4>1. PICK a \in Answers : viewed' = [viewed EXCEPT ![t].answer = a]
        BY <2>14, Zenon DEF AskUpstream
      <4>2. viewed[t] # Nothing
        BY <2>14, Zenon DEF AskUpstream
      <4>. QED
        BY <4>1, <4>2
    <3>. QED
      BY <3>1, <3>2 DEF Places, Apart, Submitted, Waiting, InWork
  <2>15. ASSUME NEW t \in Watched, WriteRow(t) PROVE Places'
    BY <2>15 DEF WriteRow, Places, Apart, Submitted, Waiting, InWork
  <2>16. CASE UNCHANGED vars
    BY <2>16 DEF vars, Places, Apart, Submitted, Waiting, InWork
  <2>. QED
    BY <2>1, <2>2, <2>3, <2>4, <2>5, <2>6, <2>7, <2>8, <2>9, <2>10, <2>11, <2>12, <2>13,
       <2>14, <2>15, <2>16 DEF Next, Poller, Client, Terminated
<1>. QED
  BY <1>1, <1>2, TypedInvariant, PTL DEF Spec

\* Asking for the Suno rows moves them, and brings no new ones.
LEMMA FetchWaiting ==
    ASSUME FetchSuno, NEW t, Waiting(t)'
    PROVE  Waiting(t)
<1>1. PICK b \in todo' \cup answered' : b.task = t
  BY DEF Waiting
<1>2. CASE b \in todo' \/ b \in answered
  BY <1>1, <1>2 DEF FetchSuno, Waiting
<1>3. CASE b \in answered' /\ b \notin answered
  <2>1. PICK s \in SunoTodo : b.task = s.task
    BY <1>3 DEF FetchSuno
  <2>. QED
    BY <1>1, <2>1 DEF Waiting, SunoTodo
<1>. QED
  BY <1>2, <1>3

\* A refund leaves nothing behind that could bring a second one.
LEMMA OnceInvariant == Spec => []Once
<1>1. Init => Once
  BY TaskSets DEF Init, Once, VideoOnce, SunoOnce, Waiting, InWork, Video
<1>2. Typed /\ Places /\ Once /\ [Next]_vars => Once'
  <2> SUFFICES ASSUME Typed, Places, Once, [Next]_vars PROVE Once'
    OBVIOUS
  <2> USE TaskSets DEF Typed, TypeOK, job, ledger, poller, client
  <2>1. ASSUME NEW t \in Tasks, Submit(t) PROVE Once'
    <3>1. t \in (Video \ Watched) \cup (Suno \ Faulty) => refunds[t] # 1
      BY <2>1 DEF Submit, Places, Submitted, Absent, Once, VideoOnce, SunoOnce, Waiting, InWork, Video
    <3>2. UNCHANGED <<refunds, todo, answered, work>> /\ \A u \in Tasks : u # t => row'[u] = row[u]
      BY <2>1 DEF Submit
    <3>3. ~InWork(t)
      BY <2>1 DEF Submit, Places, Submitted
    <3>. QED
      BY <3>1, <3>2, <3>3 DEF Once, VideoOnce, SunoOnce, Waiting, InWork, Video
  <2>2. ASSUME NEW t \in Tasks, Charge(t) PROVE Once'
    BY <2>2 DEF Charge, Once, VideoOnce, SunoOnce, Waiting, InWork, Video
  <2>3. ASSUME NEW t \in Tasks, UpstreamEnds(t) PROVE Once'
    BY <2>3 DEF UpstreamEnds, Once, VideoOnce, SunoOnce, Waiting, InWork, Video
  <2>4. CASE Poll
    <3>1. UNCHANGED <<row, refunds>> /\ work' = Nothing /\ work = Nothing /\ answered' = {}
      BY <2>4 DEF Poll
    <3>2. ASSUME NEW t, Waiting(t)' PROVE row[t].status = "running" /\ ~row[t].full
      BY <2>4, <3>1, <3>2 DEF Poll, Waiting, Unfinished
    <3>. QED
      BY <3>1, <3>2 DEF Once, VideoOnce, SunoOnce, InWork
  <2>5. CASE FetchSuno
    <3>1. UNCHANGED <<row, refunds, work>>
      BY <2>5 DEF FetchSuno
    <3>2. ASSUME NEW t, Waiting(t)' PROVE Waiting(t)
      BY <2>5, <3>2, FetchWaiting
    <3>. QED
      BY <3>1, <3>2 DEF Once, VideoOnce, SunoOnce, InWork
  <2>6. ASSUME NEW S \in SUBSET todo, ChannelGone(S) PROVE Once'
    <3>1. work' = work /\ todo' = todo \ S /\ UNCHANGED <<answered, refunds>>
      BY <2>6, Zenon DEF ChannelGone, ledger
    <3>2. ASSUME NEW t \in Tasks, ~Waiting(t) PROVE row'[t] = row[t]
      <4>1. ~ \E s \in S : s.task = t
        BY <3>2 DEF Waiting
      <4>. QED
        BY <2>6, <4>1, Zenon DEF ChannelGone
    <3>3. ASSUME NEW t, Waiting(t)' PROVE Waiting(t)
      BY <3>1, <3>3 DEF Waiting
    <3>4. work = Nothing
      BY <2>6, Zenon DEF ChannelGone
    <3>. QED
      BY <3>1, <3>2, <3>3, <3>4 DEF Once, VideoOnce, SunoOnce, InWork, Video
  <2>7. ASSUME NEW s \in answered, TakeSuno(s) PROVE Once'
    <3>1. work'.task = s.task /\ s.task \in Suno
      BY <2>7, TakeSunoEffect
    <3>2. answered' = answered \ {s} /\ UNCHANGED <<row, refunds, todo>> /\ work = Nothing
      BY <2>7, Zenon DEF TakeSuno, ledger
    <3>. QED
      BY <3>1, <3>2 DEF Once, VideoOnce, SunoOnce, Waiting, InWork, Video
  <2>8. ASSUME NEW s \in todo, TakeVideo(s) PROVE Once'
    <3>1. work'.task = s.task /\ s.task \in Video /\ work'.steps # <<"pay">>
      BY <2>8, TakeVideoEffect
    <3>2. todo' = todo \ {s} /\ UNCHANGED <<row, refunds, answered>> /\ work = Nothing
      BY <2>8, Zenon DEF TakeVideo, ledger
    <3>. QED
      BY <3>1, <3>2 DEF Once, VideoOnce, SunoOnce, Waiting, InWork, Video
  <2>9. ASSUME NEW s \in todo, SkipVideo(s) PROVE Once'
    BY <2>9 DEF SkipVideo, Once, VideoOnce, SunoOnce, Waiting, InWork, Video
  <2>10. CASE Pay
    <3> DEFINE t == work.task
    <3>1. /\ work \in WorkType /\ work # Nothing
          /\ \/ work.steps = <<"pay">> /\ work' = Nothing
             \/ /\ work.steps = <<"pay", "save">> /\ work' # Nothing
                /\ work'.task = t /\ work'.steps = <<"save">>
                /\ work'.row.full = work.row.full
      BY <2>10, PayEffect
    <3>2. UNCHANGED <<row, todo, answered>> /\ t \in Tasks /\ ~Waiting(t)
      BY <2>10, <3>1 DEF Pay, WorkType, Places, Apart, Waiting
    <3>3. /\ \A u \in Tasks : u # t => refunds'[u] = refunds[u]
          /\ \/ refunds'[t] = refunds[t] /\ t \in Faulty
             \/ refunds'[t] = IF work.row.status # "success" /\ refunds[t] < 2
                              THEN refunds[t] + 1 ELSE refunds[t]
      BY <2>10, <3>2 DEF Pay, Fault
    <3>4. ASSUME NEW u \in Video \ Watched PROVE VideoOnce(u)'
      <4>1. CASE u # t
        BY <3>1, <3>2, <3>3, <4>1 DEF Once, VideoOnce, Waiting, InWork, Video
      <4>2. CASE u = t
        <5>1. refunds[t] = 0
          BY <3>1, <4>2 DEF Once, VideoOnce, InWork, Video
        <5>2. CASE work.steps = <<"pay">>
          BY <3>1, <3>2, <3>3, <4>2, <5>1, <5>2, StepKinds DEF Once, VideoOnce, Waiting, InWork
        <5>3. CASE work.steps = <<"pay", "save">>
          <6>1. work.row.status = "success"
            BY <3>1, <4>2, <5>3 DEF StepsInOrder, Video
          <6>. QED
            BY <3>1, <3>3, <4>2, <5>1, <5>3, <6>1, StepKinds DEF VideoOnce
        <5>. QED
          BY <3>1, <5>2, <5>3
      <4>. QED
        BY <4>1, <4>2
    <3>5. ASSUME NEW u \in Suno \ Faulty PROVE SunoOnce(u)'
      <4>1. CASE u # t
        BY <3>1, <3>2, <3>3, <4>1 DEF Once, SunoOnce, Waiting, InWork
      <4>2. CASE u = t
        <5>1. work.steps = <<"pay", "save">> /\ work.row.full
          BY <3>1, <4>2, StepKinds DEF StepsInOrder
        <5>2. refunds[t] = 0
          BY <3>1, <4>2, <5>1, StepKinds DEF Once, SunoOnce, InWork
        <5>3. work' # Nothing /\ work'.task = u /\ work'.steps = <<"save">> /\ work'.row.full
          BY <3>1, <4>2, <5>1, StepKinds
        <5>4. refunds'[u] <= 1
          BY <3>2, <3>3, <4>2, <5>2
        <5>5. ~Waiting(u)'
          BY <3>2, <4>2 DEF Waiting
        <5>. QED
          BY <5>3, <5>4, <5>5, Zenon DEF SunoOnce, InWork
      <4>. QED
        BY <4>1, <4>2
    <3>. QED
      BY <3>4, <3>5 DEF Once
  <2>11. CASE Save
    <3> DEFINE t == work.task
    <3>1. /\ work \in WorkType /\ work # Nothing
          /\ work.steps \in {<<"save">>, <<"save", "pay">>}
          /\ work.steps = <<"save">> => work' = Nothing
          /\ work' # Nothing => work.steps = <<"save", "pay">> /\ work'.task = t
      BY <2>11, SaveEffect
    <3>2. UNCHANGED <<refunds, todo, answered>> /\ t \in Tasks
      BY <2>11, <3>1 DEF Save, WorkType
    <3>3. /\ \A u \in Tasks : u # t => row'[u] = row[u]
          /\ row'[t] = work.row \/ (t \in Faulty /\ work' = Nothing)
      BY <2>11, <3>2 DEF Save, Fault
    <3>4. ASSUME NEW u \in Video \ Watched PROVE VideoOnce(u)'
      <4>1. CASE u # t
        BY <3>1, <3>2, <3>3, <4>1 DEF Once, VideoOnce, Waiting, InWork, Video
      <4>2. CASE u = t
        <5>1. refunds[t] = 0
          BY <3>1, <4>2 DEF Once, VideoOnce, InWork, Video
        <5>2. work' # Nothing => row'[t].status = "failure"
          BY <3>1, <3>3 DEF StepsInOrder
        <5>. QED
          BY <3>2, <4>2, <5>1, <5>2 DEF VideoOnce, InWork
      <4>. QED
        BY <4>1, <4>2
    <3>5. ASSUME NEW u \in Suno \ Faulty PROVE SunoOnce(u)'
      <4>1. CASE u # t
        BY <3>1, <3>2, <3>3, <4>1 DEF Once, SunoOnce, Waiting, InWork
      <4>2. CASE u = t
        <5>1. work.steps = <<"save">>
          BY <3>1, <4>2, StepKinds DEF StepsInOrder
        <5>. QED
          BY <3>1, <3>2, <3>3, <4>2, <5>1 DEF Once, SunoOnce, Waiting, InWork
      <4>. QED
        BY <4>1, <4>2
    <3>. QED
      BY <3>4, <3>5 DEF Once
  <2>12. CASE Restart
    <3>1. work # Nothing /\ work.task \in Faulty
      BY <2>12 DEF Restart, Fault
    <3>. QED
      BY <2>12, <3>1 DEF Restart, Once, VideoOnce, SunoOnce, Waiting, InWork, Video
  <2>13. ASSUME NEW t \in Watched, ReadRow(t) PROVE Once'
    BY <2>13 DEF ReadRow, Once, VideoOnce, SunoOnce, Waiting, InWork, Video
  <2>14. ASSUME NEW t \in Watched, AskUpstream(t) PROVE Once'
    <3>1. UNCHANGED <<row, refunds, todo, answered, work>>
      BY <2>14, Zenon DEF AskUpstream, ledger, poller
    <3>. QED
      BY <3>1 DEF Once, VideoOnce, SunoOnce, Waiting, InWork, Video
  <2>15. ASSUME NEW t \in Watched, WriteRow(t) PROVE Once'
    <3>1. UNCHANGED <<refunds, todo, answered, work>> /\ \A u \in Tasks : u # t => row'[u] = row[u]
      BY <2>15 DEF WriteRow
    <3>. QED
      BY <3>1 DEF Once, VideoOnce, SunoOnce, Waiting, InWork, Video
  <2>16. CASE UNCHANGED vars
    BY <2>16 DEF vars, Once, VideoOnce, SunoOnce, Waiting, InWork, Video
  <2>. QED
    BY <2>1, <2>2, <2>3, <2>4, <2>5, <2>6, <2>7, <2>8, <2>9, <2>10, <2>11, <2>12, <2>13,
       <2>14, <2>15, <2>16 DEF Next, Poller, Client, Terminated
<1>. QED
  BY <1>1, <1>2, TypedInvariant, PlacesInvariant, PTL DEF Spec

\* No video task that only the poller updates is refunded twice, or refunded
\* while its row does not say failure (task_video.go), and no Suno task that no
\* fault hits is refunded twice (task.go), whatever the tasks, bounds and faults.
THEOREM RefundOnce == Spec => []RefundedOnce
<1>1. Once => RefundedOnce
  BY DEF Once, VideoOnce, SunoOnce, RefundedOnce
<1>. QED
  BY <1>1, OnceInvariant, PTL

-----------------------------------------------------------------------------
(* Prices.                                                                   *)

\* What the poller has added to the charge of the submission.
Applied(t) == paid[t] - (IF submission[t] = "charged" THEN Price ELSE 0)

\* A row nobody has finished.
Fresh(r) == r.status = "running" /\ ~r.full /\ r.quota = Price

\* The ledger is as the finished row r says, or err has kept the refund back.
Final(t, r) ==
    /\ \/ Applied(t) = IF r.status = "success" THEN actual[t] - Price ELSE - Price
       \/ t \in Suno /\ Suno \cap Faulty # {} /\ Applied(t) = 0
    /\ r.status = "success" /\ t \in Video => upstream[t] = "success"

\* What the row in work is about to pay, and to write.
WorkSettles(t) ==
    /\ row[t].full <=> work.steps = <<"pay">>
    /\ work.steps = <<"save">> =>
          IF work.row.full THEN Final(t, work.row) ELSE Applied(t) = 0 /\ Fresh(work.row)
    /\ work.steps # <<"save">> => Applied(t) = 0 /\ work.row.full = TRUE
    /\ work.steps = <<"pay", "save">> =>
          IF t \in Suno
          THEN work.pay = - Price /\ work.row.status # "success"
          ELSE work.pay = actual[t] - Price /\ work.row.status = "success" /\ upstream[t] = "success"
    /\ work.steps \in {<<"save", "pay">>, <<"pay">>} =>
          work.pay = - Price /\ work.row.status = "failure"
    /\ work.steps = <<"pay">> => row[t].status = "failure"

Settles(t) ==
    /\ submission[t] # "uncharged"
    /\ t \in Suno => actual[t] = Price
    /\ row[t].full => Final(t, row[t]) \/ InWork(t)
    /\ ~row[t].full => row[t] = Absent \/ Fresh(row[t])
    /\ ~row[t].full /\ ~InWork(t) => Applied(t) = 0
    /\ \A s \in todo \cup answered : s.task = t => Fresh(s.row) /\ ~row[t].full
    /\ InWork(t) => WorkSettles(t)

Undisturbed == Tasks \ (Faulty \cup Watched)

SettleInv ==
    /\ err => Suno \cap Faulty # {}
    /\ \A t \in Undisturbed : Settles(t)

\* A task whose row, ledger and place with the poller a step leaves alone stays as it is.
LEMMA SettlesSame ==
    ASSUME NEW t \in Undisturbed, Settles(t),
           Applied(t)' = Applied(t), submission'[t] # "uncharged",
           actual'[t] = actual[t], row'[t] = row[t],
           upstream[t] = "success" => upstream'[t] = "success",
           InWork(t)' <=> InWork(t), InWork(t) => work' = work,
           \A s \in todo' \cup answered' : s.task = t =>
               \E u \in todo \cup answered : u.task = t /\ u.row = s.row
    PROVE  Settles(t)'
<1>1. \A r : Final(t, r) => Final(t, r)'
  BY DEF Final
<1>2. \A r : Fresh(r)' <=> Fresh(r)
  BY DEF Fresh
<1>3. InWork(t) /\ WorkSettles(t) => WorkSettles(t)'
  BY <1>1, <1>2 DEF WorkSettles
<1>. QED
  BY <1>1, <1>2, <1>3 DEF Settles

\* The answer to a Suno row is about to be applied as it should be.
LEMMA TakeSunoSettles ==
    ASSUME Typed, Places, SettleInv, NEW s \in answered, TakeSuno(s), s.task \in Undisturbed
    PROVE  Settles(s.task)'
<1> DEFINE t == s.task
           refund == s.answer \in {"failure", "broken"} /\ s.row.quota # 0 /\ ~err
           r == Updated(s.row, s.answer)
<1>1. /\ t \in Suno /\ s.row \in RowType /\ s.answer \in Answers /\ t \in Tasks
      /\ paid[t] \in Int /\ Applied(t) \in Int /\ Price \in Nat \ {0}
  BY TaskSets, Prices DEF Typed, TypeOK, Applied
<1>2. /\ Settles(t) /\ Fresh(s.row) /\ ~row[t].full /\ work = Nothing /\ ~InWork(t)
      /\ Applied(t) = 0 /\ actual[t] = Price
  BY <1>1 DEF SettleInv, Settles, TakeSuno, InWork
<1>3. /\ row' = row /\ todo' = todo /\ answered' = answered \ {s}
      /\ UNCHANGED <<submission, upstream, actual, paid>>
  BY DEF TakeSuno, job, ledger
<1>4. \A u \in todo' \cup answered' : u.task # t
  BY <1>3 DEF Places, Apart
<1>5. work'.task = t /\ work'.row = r /\ work' \in WorkType
  BY TakeSunoEffect DEF TakeSuno
<1>6. work' # Nothing
  BY <1>5 DEF WorkType, Nothing
<1>7. /\ refund => work'.pay = - Price /\ work'.steps = <<"pay", "save">>
      /\ ~refund => work'.steps = <<"save">>
  BY <1>2 DEF TakeSuno, Fresh
<1>8. /\ r \in RowType /\ r.quota = Price
      /\ s.answer = "success" => r.status = "success" /\ r.full
      /\ s.answer \in {"failure", "broken"} => r.status # "success" /\ r.full
      /\ s.answer = "running" => r.status = "running" /\ ~r.full
  BY <1>1, <1>2 DEF Updated, RowType, Fresh, Answers
<1>9. Applied(t)' = 0 /\ actual'[t] = Price
  BY <1>2, <1>3 DEF Applied
<1> HIDE DEF r
<1>10. WorkSettles(t)'
  <2>1. CASE refund
    BY <1>1, <1>2, <1>3, <1>5, <1>7, <1>8, <1>9, <2>1, StepKinds DEF WorkSettles, RowType
  <2>2. CASE s.answer = "success"
    BY <1>1, <1>2, <1>3, <1>5, <1>7, <1>8, <1>9, <2>2, StepKinds DEF WorkSettles, Final, Video
  <2>3. CASE s.answer = "running"
    BY <1>1, <1>2, <1>3, <1>5, <1>7, <1>8, <1>9, <2>3, StepKinds DEF WorkSettles, Fresh
  <2>4. CASE s.answer \in {"failure", "broken"} /\ ~refund
    <3>1. Suno \cap Faulty # {}
      BY <1>1, <1>2, <2>4 DEF Fresh, SettleInv
    <3>. QED
      BY <1>1, <1>2, <1>3, <1>5, <1>7, <1>8, <1>9, <2>4, <3>1, StepKinds DEF WorkSettles, Final, Video
  <2>. QED
    BY <1>1, <2>1, <2>2, <2>3, <2>4 DEF Answers
<1>11. InWork(t)'
  BY <1>5, <1>6 DEF InWork
<1>. QED
  BY <1>2, <1>3, <1>4, <1>9, <1>10, <1>11 DEF Settles, Fresh

\* So is the answer to a video row.
LEMMA TakeVideoSettles ==
    ASSUME Typed, Places, SettleInv, NEW s \in todo, TakeVideo(s), s.task \in Undisturbed
    PROVE  Settles(s.task)'
<1> DEFINE t == s.task
           delta == QuotaDelta(t, s.row.quota)
           p(a) == CASE a = "success" -> delta
                     [] a = "failure" -> - s.row.quota
                     [] OTHER -> 0
           st(a) == CASE a = "success" /\ delta # 0 -> <<"pay", "save">>
                      [] a = "failure" /\ s.row.quota # 0 -> RefundLast
                      [] OTHER -> <<"save">>
           r(a) == Updated(s.row, a)
<1>1. /\ t \in Video /\ t \notin Suno /\ t \notin Faulty /\ s.row \in RowType /\ t \in Tasks
      /\ paid[t] \in Int /\ Applied(t) \in Int /\ Price \in Nat \ {0} /\ actual[t] \in Nat
  BY TaskSets, Prices DEF Typed, TypeOK, Applied, TakeVideo, SunoTodo, Video, Undisturbed
<1>2. /\ Settles(t) /\ Fresh(s.row) /\ ~row[t].full /\ work = Nothing /\ ~InWork(t)
      /\ Applied(t) = 0
  <2>1. work = Nothing
    BY Zenon DEF TakeVideo
  <2>. QED
    BY <1>1, <2>1 DEF SettleInv, Settles, InWork
<1>3. /\ row' = row /\ todo' = todo \ {s} /\ answered' = answered
      /\ UNCHANGED <<submission, upstream, actual, paid>>
  BY Zenon DEF TakeVideo, job, ledger
<1>4. \A u \in todo' \cup answered' : u.task # t
  BY <1>3 DEF Places, Apart
<1>5. PICK a \in Answers :
         /\ MayAnswer(t, a)
         /\ work' = [task |-> t, row |-> r(a), pay |-> p(a), steps |-> st(a)]
  BY Zenon DEF TakeVideo
<1>6. /\ a = "success" => p(a) = delta
      /\ a = "failure" => p(a) = - s.row.quota
  BY Zenon
<1>7. /\ a = "success" /\ delta # 0 => st(a) = <<"pay", "save">>
      /\ a = "failure" /\ s.row.quota # 0 => st(a) = RefundLast
      /\ ~(a = "success" /\ delta # 0) /\ ~(a = "failure" /\ s.row.quota # 0) => st(a) = <<"save">>
  BY Zenon
<1> HIDE DEF p, st
<1>8. delta = actual[t] - Price /\ s.row.quota = Price
  BY <1>2 DEF QuotaDelta, Fresh
<1> HIDE DEF delta
<1>9. a = upstream[t] /\ a \in {"running", "success", "failure"}
  BY <1>1, <1>5 DEF MayAnswer, Typed, TypeOK
<1>10. /\ r(a) \in RowType /\ r(a).quota = Price
       /\ a \in {"success", "failure"} => r(a).status = a /\ r(a).full = TRUE
       /\ a = "running" => r(a).status = "running" /\ ~r(a).full
  BY <1>1, <1>2 DEF Updated, RowType, Fresh, Answers
<1> HIDE DEF r
<1>11. /\ work'.task = t /\ work'.row = r(a) /\ work'.pay = p(a) /\ work'.steps = st(a)
       /\ work' # Nothing
  <2>1. work'.task = t /\ work'.row = r(a) /\ work'.pay = p(a) /\ work'.steps = st(a)
    BY <1>5
  <2>2. DOMAIN work' # DOMAIN Nothing
    BY <1>5 DEF Nothing
  <2>. QED
    BY <2>1, <2>2
<1>12. Applied(t)' = 0
  BY <1>2, <1>3 DEF Applied
<1>13. WorkSettles(t)'
  <2>1. CASE a = "success" /\ delta # 0
    BY <1>1, <1>2, <1>3, <1>6, <1>7, <1>8, <1>9, <1>10, <1>11, <1>12, <2>1, StepKinds DEF WorkSettles
  <2>2. CASE a = "success" /\ delta = 0
    <3>1. work'.steps = <<"save">> /\ work'.row.full = TRUE /\ work'.row.status = "success"
      BY <1>7, <1>10, <1>11, <2>2
    <3>2. Final(t, work.row)'
      BY <1>1, <1>3, <1>8, <1>9, <1>12, <2>2, <3>1 DEF Final
    <3>. QED
      BY <1>2, <1>3, <3>1, <3>2, StepKinds DEF WorkSettles
  <2>3. CASE a = "failure"
    <3>1. work'.steps = <<"save", "pay">> /\ work'.pay = - Price
      BY <1>1, <1>6, <1>7, <1>8, <1>11, <2>3 DEF RefundLast
    <3>2. work'.row.full = TRUE /\ work'.row.status = "failure"
      BY <1>10, <1>11, <2>3
    <3>. QED
      BY <1>2, <1>3, <1>12, <3>1, <3>2, StepKinds DEF WorkSettles
  <2>4. CASE a = "running"
    <3>1. work'.steps = <<"save">> /\ Fresh(work'.row)
      BY <1>7, <1>10, <1>11, <2>4 DEF Fresh
    <3>. QED
      BY <1>2, <1>3, <1>12, <3>1, StepKinds DEF WorkSettles, Fresh
  <2>. QED
    BY <1>9, <2>1, <2>2, <2>3, <2>4
<1>14. InWork(t)'
  BY <1>11 DEF InWork
<1>. QED
  BY <1>1, <1>2, <1>3, <1>4, <1>12, <1>13, <1>14 DEF Settles, Fresh

\* A payment settles what is left to settle.
LEMMA PaySettles ==
    ASSUME Typed, Places, SettleInv, Pay, NEW t \in Undisturbed, work.task = t
    PROVE  Settles(t)'
<1>1. /\ t \in Tasks /\ t \notin Faulty /\ work \in WorkType /\ work # Nothing /\ work.pay \in Int
      /\ paid[t] \in Int /\ Applied(t) \in Int /\ Price \in Nat \ {0} /\ actual[t] \in Nat
  BY PayEffect, Prices DEF Typed, TypeOK, Applied, Undisturbed, WorkType
<1>2. Settles(t) /\ InWork(t) /\ WorkSettles(t)
  BY <1>1 DEF SettleInv, Settles, InWork
<1>3. /\ UNCHANGED <<row, submission, upstream, actual, todo, answered>>
      /\ paid' = [paid EXCEPT ![t] = @ + work.pay]
  <2>1. UNCHANGED <<row, submission, upstream, actual, todo, answered>>
    BY Zenon DEF Pay, job
  <2>. QED
    BY <1>1, <2>1 DEF Pay, Fault
<1>4. Applied(t)' = Applied(t) + work.pay
  BY <1>1, <1>3 DEF Applied, Typed, TypeOK
<1>5. \A u \in todo' \cup answered' : u.task # t
  BY <1>1, <1>3 DEF Places, Apart
<1>6. CASE work.steps = <<"pay">> /\ work' = Nothing
  <2>1. /\ row[t].full /\ row[t].status = "failure" /\ Applied(t) = 0 /\ work.pay = - Price
    BY <1>2, <1>6, StepKinds DEF WorkSettles
  <2>2. Applied(t)' = - Price
    BY <1>1, <1>4, <2>1
  <2>3. Final(t, row[t])'
    BY <1>3, <2>1, <2>2 DEF Final
  <2>4. ~InWork(t)'
    BY <1>6 DEF InWork
  <2>. QED
    BY <1>2, <1>3, <1>5, <2>1, <2>3, <2>4 DEF Settles
<1>7. CASE /\ work.steps = <<"pay", "save">> /\ work' # Nothing
           /\ work'.task = t /\ work'.steps = <<"save">>
           /\ work'.row.full = work.row.full /\ work'.row.status = work.row.status
  <2>1. work.row.full = TRUE /\ Applied(t) = 0 /\ ~row[t].full
    BY <1>2, <1>7, StepKinds DEF WorkSettles
  <2>2. Applied(t)' = work.pay
    BY <1>1, <1>4, <2>1
  <2>3. Final(t, work.row)'
    <3>1. CASE t \in Suno
      <4>1. work.pay = - Price /\ work'.row.status # "success"
        BY <1>2, <1>7, <3>1 DEF WorkSettles
      <4>. QED
        BY <2>2, <4>1 DEF Final
    <3>2. CASE t \notin Suno
      <4>1. work.pay = actual[t] - Price /\ work'.row.status = "success" /\ upstream[t] = "success"
        BY <1>2, <1>7, <3>2 DEF WorkSettles
      <4>. QED
        BY <1>3, <2>2, <4>1 DEF Final
    <3>. QED
      BY <3>1, <3>2
  <2>4. WorkSettles(t)'
    BY <1>3, <1>7, <2>1, <2>3, StepKinds DEF WorkSettles
  <2>5. InWork(t)'
    BY <1>7 DEF InWork
  <2>. QED
    BY <1>2, <1>3, <1>5, <2>1, <2>4, <2>5 DEF Settles, Fresh
<1>. QED
  BY <1>6, <1>7, PayEffect

\* A row is saved after its payment, or before its refund.
LEMMA SaveSettles ==
    ASSUME Typed, Places, SettleInv, Save, NEW t \in Undisturbed, work.task = t
    PROVE  Settles(t)'
<1>1. /\ t \in Tasks /\ t \notin Faulty /\ work \in WorkType /\ work # Nothing
      /\ work.steps \in {<<"save">>, <<"save", "pay">>}
  BY SaveEffect DEF Undisturbed
<1>2. Settles(t) /\ InWork(t) /\ WorkSettles(t)
  BY <1>1 DEF SettleInv, Settles, InWork
<1>3. /\ UNCHANGED <<submission, upstream, actual, paid, todo, answered>>
      /\ row' = [row EXCEPT ![t] = work.row] /\ work' = Rest(work)
  <2>1. UNCHANGED <<submission, upstream, actual, paid, todo, answered>>
    BY Zenon DEF Save, job, ledger
  <2>. QED
    BY <1>1, <2>1 DEF Save, Fault
<1>4. Applied(t)' = Applied(t) /\ row'[t] = work.row
  BY <1>1, <1>3 DEF Applied, Typed, TypeOK
<1>5. \A u \in todo' \cup answered' : u.task # t
  BY <1>1, <1>3 DEF Places, Apart
<1>6. CASE work.steps = <<"save">>
  <2>1. IF work.row.full THEN Final(t, work.row) ELSE Applied(t) = 0 /\ Fresh(work.row)
    BY <1>2, <1>6 DEF WorkSettles
  <2>2. ~InWork(t)'
    BY <1>6, SaveEffect DEF InWork
  <2>3. work.row.full => Final(t, row[t])'
    BY <1>3, <1>4, <2>1 DEF Final
  <2>4. ~work.row.full => Fresh(row[t])' /\ Applied(t)' = 0
    BY <1>3, <1>4, <2>1 DEF Fresh
  <2>. QED
    BY <1>2, <1>3, <1>4, <1>5, <2>2, <2>3, <2>4 DEF Settles
<1>7. CASE work.steps = <<"save", "pay">>
  <2>1. /\ work.row.full = TRUE /\ work.row.status = "failure" /\ Applied(t) = 0
        /\ work.pay = - Price
    BY <1>2, <1>7, StepKinds DEF WorkSettles
  <2>2. work' = [task |-> work.task, row |-> work.row, pay |-> work.pay, steps |-> <<"pay">>]
    BY <1>1, <1>3, <1>7, RestType
  <2>3. DOMAIN work' # DOMAIN Nothing
    BY <2>2 DEF Nothing
  <2>4. InWork(t)' /\ work'.steps = <<"pay">> /\ work'.pay = - Price /\ work'.row = work.row
    BY <2>1, <2>2, <2>3 DEF InWork
  <2>5. WorkSettles(t)'
    BY <1>4, <2>1, <2>4, StepKinds DEF WorkSettles
  <2>. QED
    BY <1>2, <1>3, <1>4, <1>5, <2>1, <2>4, <2>5 DEF Settles
<1>. QED
  BY <1>1, <1>6, <1>7

\* Every step keeps the ledger of every undisturbed task as its row and the poller say.
LEMMA SettleStep ==
    ASSUME Typed, Places, SettleInv, [Next]_vars
    PROVE  SettleInv'
<1> USE TaskSets DEF job, ledger, poller, client
<1>0. /\ err' => Suno \cap Faulty # {}
  <2>1. err' => err \/ Suno \cap Faulty # {}
    <3>1. CASE Save
      BY <3>1 DEF Save, Fault, Typed, TypeOK
    <3>2. ASSUME NEW s \in todo, TakeVideo(s) PROVE err' = err
      BY <3>2, Zenon DEF TakeVideo
    <3>3. ASSUME NEW S \in SUBSET todo, ChannelGone(S) PROVE err' = err
      BY <3>3, Zenon DEF ChannelGone
    <3>4. ASSUME NEW t \in Watched, Client(t) PROVE err' = err
      BY <3>4, Zenon DEF Client, ReadRow, AskUpstream, WriteRow, poller
    <3>5. CASE Pay
      BY <3>5, Zenon DEF Pay
    <3>. QED
      BY <3>1, <3>2, <3>3, <3>4, <3>5 DEF Next, Poller, Terminated, vars, Submit, Charge, UpstreamEnds,
         Poll, FetchSuno, TakeSuno, SkipVideo, Restart
  <2>. QED
    BY <2>1 DEF SettleInv
<1> SUFFICES ASSUME NEW t \in Undisturbed PROVE Settles(t)'
  BY <1>0 DEF SettleInv
<1>1. /\ Settles(t) /\ t \in Tasks /\ t \notin Faulty /\ t \notin Watched
      /\ Price \in Nat \ {0} /\ paid[t] \in Int /\ TypeOK
  BY Prices DEF SettleInv, Undisturbed, Typed, TypeOK
<1> DEFINE Same == /\ Applied(t)' = Applied(t) /\ submission'[t] # "uncharged"
                   /\ actual'[t] = actual[t] /\ row'[t] = row[t]
                   /\ upstream[t] = "success" => upstream'[t] = "success"
           Kept == \A s \in todo' \cup answered' : s.task = t =>
                      \E u \in todo \cup answered : u.task = t /\ u.row = s.row
<1>2. ASSUME UNCHANGED <<submission, upstream, actual, paid>>, row'[t] = row[t] PROVE Same
  BY <1>1, <1>2 DEF Applied, Settles
<1>3. ASSUME UNCHANGED <<todo, answered, work>> PROVE Kept /\ (InWork(t)' <=> InWork(t))
  BY <1>3 DEF InWork
<1>4. ASSUME NEW u \in Tasks, Submit(u) PROVE Settles(t)'
  <2>1. CASE u = t
    <3>1. row[t] = Absent /\ ~Waiting(t) /\ ~InWork(t)
      BY <1>4, <2>1 DEF Submit, Places, Submitted
    <3>2. ~row[t].full /\ Applied(t) = 0
      BY <1>1, <3>1 DEF Absent, Settles
    <3>3. Fresh(row[t])'
      BY <1>1, <1>4, <2>1 DEF Submit, Fresh, TypeOK
    <3>4. Applied(t)' = Applied(t) /\ submission'[t] = "inserted" /\ actual'[t] = actual[t]
      BY <1>1, <1>4, <2>1 DEF Submit, Applied, TypeOK
    <3>5. ~Waiting(t)' /\ ~InWork(t)'
      BY <1>4, <3>1 DEF Submit, Waiting, InWork
    <3>. QED
      BY <1>1, <3>2, <3>3, <3>4, <3>5 DEF Settles, Fresh, Waiting
  <2>2. CASE u # t
    <3>1. Same
      BY <1>1, <1>4, <2>2 DEF Submit, Applied, Settles, TypeOK
    <3>. QED
      BY <1>1, <1>3, <1>4, <3>1, SettlesSame DEF Submit
  <2>. QED
    BY <2>1, <2>2
<1>5. ASSUME NEW u \in Tasks, Charge(u) PROVE Settles(t)'
  <2>1. Same
    BY <1>1, <1>5 DEF Charge, Applied, Settles, Fault, TypeOK
  <2>. QED
    BY <1>1, <1>3, <1>5, <2>1, SettlesSame DEF Charge
<1>6. ASSUME NEW u \in Tasks, UpstreamEnds(u) PROVE Settles(t)'
  <2>1. CASE actual'[t] = actual[t]
    <3>1. Same
      BY <1>1, <1>6, <2>1 DEF UpstreamEnds, Applied, Settles, TypeOK
    <3>. QED
      BY <1>1, <1>3, <1>6, <3>1, SettlesSame DEF UpstreamEnds
  <2>2. CASE u = t /\ t \notin Suno
    <3>1. upstream[t] = "running" /\ t \in Video
      BY <1>1, <1>6, <2>2 DEF UpstreamEnds, Video
    <3>2. /\ UNCHANGED <<row, submission, paid, todo, answered, work>>
          /\ Applied(t)' = Applied(t)
      BY <1>6 DEF UpstreamEnds, Applied
    <3>3. \A r : Final(t, r) => Final(t, r)'
      BY <3>1, <3>2, <2>2 DEF Final
    <3>4. InWork(t) => WorkSettles(t)'
      BY <1>1, <2>2, <3>1, <3>2, <3>3 DEF Settles, WorkSettles, Fresh
    <3>. QED
      BY <1>1, <2>2, <3>2, <3>3, <3>4 DEF Settles, InWork, Fresh
  <2>3. CASE u = t /\ t \in Suno
    <3>1. actual'[t] = actual[t]
      BY <1>1, <1>6, <2>3 DEF UpstreamEnds, Settles, TypeOK
    <3>. QED
      BY <2>1, <3>1
  <2>4. CASE u # t
    <3>1. actual'[t] = actual[t]
      BY <1>1, <1>6, <2>4 DEF UpstreamEnds, TypeOK
    <3>. QED
      BY <2>1, <3>1
  <2>. QED
    BY <2>2, <2>3, <2>4
<1>7. CASE Poll
  <2>1. /\ UNCHANGED <<row, submission, upstream, actual, paid, answered, work>>
        /\ answered = {} /\ work = Nothing
    BY <1>7 DEF Poll
  <2>2. ASSUME NEW s \in todo', s.task = t PROVE Fresh(s.row) /\ ~row[t].full
    <3>1. s.row = row[t] /\ row[t].status = "running" /\ ~row[t].full
      BY <1>7, <2>2 DEF Poll, Unfinished
    <3>. QED
      BY <1>1, <3>1 DEF Settles, Absent
  <2>3. /\ \A r : Final(t, r)' <=> Final(t, r)
        /\ Applied(t)' = Applied(t) /\ \A r : Fresh(r)' <=> Fresh(r)
    BY <2>1 DEF Final, Applied, Fresh
  <2>4. ~InWork(t) /\ ~InWork(t)'
    BY <2>1 DEF InWork
  <2>. QED
    BY <1>1, <2>1, <2>2, <2>3, <2>4 DEF Settles
<1>8. CASE FetchSuno
  <2>1. UNCHANGED <<row, submission, upstream, actual, paid, work>> /\ todo' = todo \ SunoTodo
    BY <1>8 DEF FetchSuno
  <2>2. ASSUME NEW s \in answered', s \notin answered
        PROVE  \E u \in todo : u.task = s.task /\ u.row = s.row
    <3>1. PICK u \in SunoTodo : s.task = u.task /\ s.row = u.row
      BY <1>8, <2>2 DEF FetchSuno
    <3>. QED
      BY <3>1 DEF SunoTodo
  <2>3. Kept
    BY <2>1, <2>2
  <2>4. InWork(t)' <=> InWork(t)
    BY <2>1 DEF InWork
  <2>. QED
    BY <1>1, <1>2, <2>1, <2>3, <2>4, SettlesSame
<1>9. ASSUME NEW S \in SUBSET todo, ChannelGone(S) PROVE Settles(t)'
  <2>1. /\ UNCHANGED <<submission, upstream, actual, paid, work, answered>> /\ todo' = todo \ S
        /\ {s.task : s \in S} \subseteq Faulty
    BY <1>9, Zenon DEF ChannelGone, job, ledger, Fault
  <2>2. row'[t] = row[t]
    <3>1. ~ \E s \in S : s.task = t
      BY <1>1, <2>1
    <3>. QED
      BY <1>1, <1>9, <3>1, Zenon DEF ChannelGone
  <2>3. Kept /\ (InWork(t)' <=> InWork(t))
    BY <2>1 DEF InWork
  <2>. QED
    BY <1>1, <1>2, <2>1, <2>2, <2>3, SettlesSame
<1>10. ASSUME NEW s \in answered, TakeSuno(s) PROVE Settles(t)'
  <2>1. CASE s.task = t
    BY <1>10, <2>1, TakeSunoSettles
  <2>2. CASE s.task # t
    <3>1. /\ UNCHANGED <<row, submission, upstream, actual, paid, todo>> /\ work = Nothing
          /\ answered' = answered \ {s}
      BY <1>10 DEF TakeSuno
    <3>2. ~InWork(t) /\ ~InWork(t)'
      BY <1>10, <2>2, <3>1, TakeSunoEffect DEF InWork
    <3>. QED
      BY <1>1, <1>2, <3>1, <3>2, SettlesSame
  <2>. QED
    BY <2>1, <2>2
<1>11. ASSUME NEW s \in todo, TakeVideo(s) PROVE Settles(t)'
  <2>1. CASE s.task = t
    BY <1>11, <2>1, TakeVideoSettles
  <2>2. CASE s.task # t
    <3>1. /\ UNCHANGED <<row, submission, upstream, actual, paid, answered>> /\ work = Nothing
          /\ todo' = todo \ {s}
      BY <1>11, Zenon DEF TakeVideo, job, ledger
    <3>2. ~InWork(t) /\ ~InWork(t)'
      BY <1>11, <2>2, <3>1, TakeVideoEffect DEF InWork
    <3>. QED
      BY <1>1, <1>2, <3>1, <3>2, SettlesSame
  <2>. QED
    BY <2>1, <2>2
<1>12. ASSUME NEW s \in todo, SkipVideo(s) PROVE Settles(t)'
  <2>1. /\ UNCHANGED <<row, submission, upstream, actual, paid, answered, work>>
        /\ todo' = todo \ {s}
    BY <1>12 DEF SkipVideo
  <2>2. InWork(t)' <=> InWork(t)
    BY <2>1 DEF InWork
  <2>. QED
    BY <1>1, <1>2, <2>1, <2>2, SettlesSame
<1>13. CASE Pay
  <2>1. CASE work.task = t
    BY <1>13, <2>1, PaySettles
  <2>2. CASE work.task # t
    <3>1. UNCHANGED <<row, submission, upstream, actual, todo, answered>>
      BY <1>13, Zenon DEF Pay, job
    <3>2. paid'[t] = paid[t]
      BY <1>1, <1>13, <2>2 DEF Pay, TypeOK
    <3>3. ~InWork(t) /\ ~InWork(t)'
      BY <1>13, <2>2, PayEffect DEF InWork
    <3>4. Same
      BY <1>1, <3>1, <3>2 DEF Applied, Settles
    <3>. QED
      BY <1>1, <3>1, <3>3, <3>4, SettlesSame
  <2>. QED
    BY <2>1, <2>2
<1>14. CASE Save
  <2>1. CASE work.task = t
    BY <1>14, <2>1, SaveSettles
  <2>2. CASE work.task # t
    <3>1. UNCHANGED <<submission, upstream, actual, paid, todo, answered>>
      BY <1>14, Zenon DEF Save, job, ledger
    <3>2. row'[t] = row[t]
      BY <1>1, <1>14, <2>2 DEF Save, TypeOK
    <3>3. ~InWork(t) /\ ~InWork(t)'
      BY <1>14, <2>2, SaveEffect DEF InWork
    <3>. QED
      BY <1>1, <1>2, <3>1, <3>2, <3>3, SettlesSame
  <2>. QED
    BY <2>1, <2>2
<1>15. CASE Restart
  <2>1. /\ UNCHANGED <<row, submission, upstream, actual, paid>> /\ work.task \in Faulty
        /\ todo' = {} /\ answered' = {} /\ work' = Nothing
    BY <1>15 DEF Restart, Fault
  <2>2. ~InWork(t) /\ ~InWork(t)'
    BY <1>1, <2>1 DEF InWork
  <2>. QED
    BY <1>1, <1>2, <2>1, <2>2, SettlesSame
<1>16. ASSUME NEW u \in Watched, Client(u) PROVE Settles(t)'
  <2>1. UNCHANGED <<submission, upstream, actual, paid, todo, answered, work>>
    BY <1>16, Zenon DEF Client, ReadRow, AskUpstream, WriteRow, job, ledger, poller
  <2>2. row'[t] = row[t]
    <3>1. CASE ReadRow(u) \/ AskUpstream(u)
      BY <3>1, Zenon DEF ReadRow, AskUpstream
    <3>2. CASE WriteRow(u)
      BY <1>1, <3>2 DEF WriteRow, TypeOK
    <3>. QED
      BY <1>16, <3>1, <3>2 DEF Client
  <2>. QED
    BY <1>1, <1>2, <1>3, <2>1, <2>2, SettlesSame
<1>17. CASE UNCHANGED vars
  BY <1>1, <1>2, <1>3, <1>17, SettlesSame DEF vars
<1>. QED
  BY <1>4, <1>5, <1>6, <1>7, <1>8, <1>9, <1>10, <1>11, <1>12, <1>13, <1>14, <1>15, <1>16, <1>17
  DEF Next, Poller, Terminated

\* The poller (updateSunoTaskAll, updateVideoSingleTask) leaves every finished task that no
\* fault and no client touches with its price paid, or with nothing paid when it failed; only
\* a Suno task next to a faulty one can lose its refund.
THEOREM FinishedSettled == Spec => []FinishedMeansSettled
<1>1. Init => SettleInv
  <2> SUFFICES ASSUME Init PROVE SettleInv
    OBVIOUS
  <2>1. ASSUME NEW t \in Undisturbed PROVE Settles(t)
    <3>1. t \in Tasks
      BY DEF Undisturbed
    <3>2. Applied(t) = 0 /\ row[t] = Absent /\ ~row[t].full /\ actual[t] = Price
      BY <3>1 DEF Init, Applied, Absent
    <3>. QED
      BY <3>1, <3>2 DEF Init, Settles, InWork
  <2>. QED
    BY <2>1 DEF Init, SettleInv
<1>2. Typed /\ Places /\ SettleInv /\ [Next]_vars => SettleInv'
  BY SettleStep
<1>3. Typed /\ SettleInv => FinishedMeansSettled
  <2> SUFFICES ASSUME Typed, SettleInv, NEW t \in Tasks \ (Faulty \cup Watched),
                      submission[t] = "charged", row[t].full, ~InWork(t)
               PROVE  \/ paid[t] = IF row[t].status = "success" THEN actual[t] ELSE 0
                      \/ t \in Suno /\ Suno \cap Faulty # {} /\ paid[t] = Price
    BY DEF FinishedMeansSettled
  <2>1. Final(t, row[t]) /\ Applied(t) = paid[t] - Price
    BY DEF SettleInv, Settles, Undisturbed, Applied
  <2>2. paid[t] \in Int /\ actual[t] \in Nat /\ Price \in Nat
    BY Prices DEF Typed, TypeOK
  <2>. QED
    BY <2>1, <2>2 DEF Final
<1>. QED
  BY <1>1, <1>2, <1>3, TypedInvariant, PlacesInvariant, PTL DEF Spec
=============================================================================
