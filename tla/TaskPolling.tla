----------------------------- MODULE TaskPolling ----------------------------
(***************************************************************************)
(* Asynchronous tasks: a submission inserts a row and then charges the     *)
(* user, the poller of the master pod asks the upstreams for the           *)
(* unfinished rows every 15 s, a client that fetches a task may update its *)
(* row as well, and the quota of a failed task is given back.              *)
(*                                                                         *)
(* Every update writes the whole row from what was read earlier.  Suno     *)
(* tasks (adapter/handler/task.go) share one channel and are fetched       *)
(* together, each video task (task_video.go) is fetched by itself.         *)
(*                                                                         *)
(* Failed statements and calls, the death of the process and the removal   *)
(* of a channel hit the tasks in Faulty only.                              *)
(***************************************************************************)
EXTENDS Integers, Sequences

CONSTANTS
    Tasks,
    Suno,         \* the Suno tasks; the others are video tasks
    Watched,      \* the video tasks whose client fetches them (Gemini, Vertex)
    Faulty,
    Price,        \* the quota charged at submission
    Actuals,      \* the quotas a finished video may be priced at again
    MaxFetches,   \* bound: how often a client fetches a task
    MaxFaults     \* bound: how many faults happen

ASSUME TaskSets == Suno \subseteq Tasks /\ Watched \subseteq Tasks \ Suno /\ Faulty \subseteq Tasks
ASSUME Prices == Price \in Nat \ {0} /\ Actuals \subseteq Nat
ASSUME Bounds == MaxFetches \in Nat /\ MaxFaults \in Nat

VARIABLES
    row,          \* the tasks table: status, progress = "100%", quota
    submission,   \* how far RelayTaskSubmit has come
    upstream,     \* the upstream's state of the task
    actual,       \* the quota its success is worth
    paid,         \* ledger: what the user's quota has paid for the task
    refunds,      \* history: the refunds of the task, at most 2
    \* The poller: rows read and not asked for, Suno rows with their answers, the
    \* row in work, and the variable err that updateSunoTaskAll reuses.
    todo, answered, work, err,
    \* The clients: a row read, and the answer fetched for it.
    viewed, fetches,
    faults        \* the faults so far

poller == <<todo, answered, work, err>>
client == <<viewed, fetches>>
job    == <<submission, upstream, actual>>
ledger == <<paid, refunds>>
vars == <<row, job, ledger, poller, client, faults>>

Video    == Tasks \ Suno
Absent   == [status |-> "absent", full |-> FALSE, quota |-> 0]
Nothing  == [task |-> "none"]
Answers  == {"running", "success", "failure", "broken"}
RowType  == [status : {"absent", "running", "success", "failure"}, full : BOOLEAN, quota : Nat]
Steps    == {<<"pay">>, <<"save">>, <<"pay", "save">>, <<"save", "pay">>}
ViewType == [row : RowType, answer : Answers \cup {"none"}]
WorkType == [task : Tasks, row : RowType, pay : Int, steps : Steps]

TypeOK ==
    /\ row \in [Tasks -> RowType]
    /\ submission \in [Tasks -> {"new", "inserted", "charged", "uncharged"}]
    /\ upstream \in [Tasks -> {"running", "success", "failure"}]
    /\ actual \in [Tasks -> Nat]
    /\ paid \in [Tasks -> Int]
    /\ refunds \in [Tasks -> 0 .. 2]
    /\ todo \in SUBSET [task : Tasks, row : RowType]
    /\ answered \in SUBSET [task : Suno, row : RowType, answer : Answers]
    /\ work \in {Nothing} \cup WorkType
    /\ err \in BOOLEAN
    /\ viewed \in [Tasks -> {Nothing} \cup ViewType]
    /\ fetches \in [Tasks -> 0 .. MaxFetches]
    /\ faults \in 0 .. MaxFaults
-----------------------------------------------------------------------------
Init ==
    /\ row = [t \in Tasks |-> Absent]
    /\ submission = [t \in Tasks |-> "new"]
    /\ upstream = [t \in Tasks |-> "running"]
    /\ actual = [t \in Tasks |-> Price]
    /\ paid = [t \in Tasks |-> 0]
    /\ refunds = [t \in Tasks |-> 0]
    /\ todo = {} /\ answered = {} /\ work = Nothing /\ err = FALSE
    /\ viewed = [t \in Tasks |-> Nothing]
    /\ fetches = [t \in Tasks |-> 0]
    /\ faults = 0

\* A fault may hit all the tasks of S here.
Fault(S) == S \subseteq Faulty /\ faults < MaxFaults /\ faults' = faults + 1

-----------------------------------------------------------------------------
(* Submission, and the upstream.                                           *)

\* The upstream has accepted the task, its row is inserted.
Submit(t) ==
    /\ submission[t] = "new"
    /\ row' = [row EXCEPT ![t] = [status |-> "running", full |-> FALSE, quota |-> Price]]
    /\ submission' = [submission EXCEPT ![t] = "inserted"]
    /\ UNCHANGED <<upstream, actual, ledger, poller, client, faults>>

\* The deferred charge, which comes last.  Its failure is only logged, and it
\* never comes when the process dies before it.
Charge(t) ==
    /\ submission[t] = "inserted"
    /\ \/ /\ paid' = [paid EXCEPT ![t] = @ + Price]
          /\ submission' = [submission EXCEPT ![t] = "charged"]
          /\ UNCHANGED faults
       \/ /\ Fault({t}) /\ UNCHANGED paid
          /\ submission' = [submission EXCEPT ![t] = "uncharged"]
    /\ UNCHANGED <<row, upstream, actual, refunds, poller, client>>

UpstreamEnds(t) ==
    /\ submission[t] # "new" /\ upstream[t] = "running"
    /\ \/ /\ upstream' = [upstream EXCEPT ![t] = "success"]
          /\ \E q \in IF t \in Suno \cup Watched THEN {Price} ELSE Actuals :
                actual' = [actual EXCEPT ![t] = q]
       \/ /\ upstream' = [upstream EXCEPT ![t] = "failure"]
          /\ UNCHANGED actual
    /\ UNCHANGED <<row, submission, ledger, poller, client, faults>>

\* What the upstream may answer.  A Suno failure may come as a reason beside an
\* unfinished status ("broken"), an empty video status counts as a failure.
MayAnswer(t, a) ==
    \/ a = upstream[t]
    \/ a = "broken" /\ t \in Suno /\ upstream[t] = "failure"
    \/ a = "failure" /\ t \in Video \cap Faulty

-----------------------------------------------------------------------------
(* The poller.                                                             *)

\* The WHERE clause of GetAllUnFinishSyncTasks.
Unfinished(t) == row[t].status = "running" /\ ~row[t].full

Poll ==
    /\ todo = {} /\ answered = {} /\ work = Nothing
    /\ todo' = {[task |-> t, row |-> row[t]] : t \in {u \in Tasks : Unfinished(u)}}
    /\ todo' # {}
    /\ UNCHANGED <<row, job, ledger, answered, work, err, client, faults>>

SunoTodo == {s \in todo : s.task \in Suno}

\* One call for all the Suno rows; err is nil after it.
FetchSuno ==
    /\ work = Nothing /\ SunoTodo # {}
    /\ todo' = todo \ SunoTodo
    /\ err' = FALSE
    /\ \/ \E a \in [SunoTodo -> Answers] :
             /\ \A s \in SunoTodo : MayAnswer(s.task, a[s])
             /\ answered' = {[task |-> s.task, row |-> s.row, answer |-> a[s]] : s \in SunoTodo}
             /\ UNCHANGED faults
       \/ Fault({s.task : s \in SunoTodo}) /\ UNCHANGED answered
    /\ UNCHANGED <<row, job, ledger, work, client>>

\* The channel is gone: its rows are failed in bulk, and nothing is given back.
ChannelGone(S) ==
    /\ work = Nothing
    /\ S = SunoTodo \/ \E s \in todo \ SunoTodo : S = {s}
    /\ S # {} /\ Fault({s.task : s \in S})
    /\ row' = [t \in Tasks |-> IF \E s \in S : s.task = t
                               THEN [row[t] EXCEPT !.status = "failure", !.full = TRUE]
                               ELSE row[t]]
    /\ todo' = todo \ S
    /\ UNCHANGED <<job, ledger, answered, work, err, client>>

\* A plausible bug: the progress of a success is left alone.
SuccessUnfinished(old, a) ==
    [old EXCEPT !.status = IF a \in {"success", "failure"} THEN a ELSE @,
                !.full = a \in {"broken", "failure"}]
\* The row an answer makes of the row read.
Updated(old, a) ==
    [old EXCEPT !.status = IF a \in {"success", "failure"} THEN a ELSE @,
                !.full = a # "running"]

\* The refund of a failed Suno task is paid first, unless err is left over from
\* the row before.
TakeSuno(s) ==
    /\ work = Nothing /\ s \in answered
    /\ answered' = answered \ {s}
    /\ LET refund == s.answer \in {"failure", "broken"} /\ s.row.quota # 0 /\ ~err
       IN  work' = [task |-> s.task, row |-> Updated(s.row, s.answer),
                    pay |-> IF refund THEN - s.row.quota ELSE 0,
                    steps |-> IF refund THEN <<"pay", "save">> ELSE <<"save">>]
    /\ UNCHANGED <<row, job, ledger, todo, err, client, faults>>

\* A plausible bug: the whole recomputed price is charged again.
WholePrice(t, quota) == actual[t]
\* quotaDelta.
QuotaDelta(t, quota) == actual[t] - quota

\* A plausible bug: the refund is paid before the row is saved.
RefundFirst == <<"pay", "save">>
RefundLast  == <<"save", "pay">>

\* A video row: a success is priced again before it is saved, a failure is
\* refunded after; preStatus is never FAILURE in a row that Poll has read.
TakeVideo(s) ==
    /\ work = Nothing /\ s \in todo \ SunoTodo
    /\ todo' = todo \ {s}
    /\ \E a \in Answers :
          /\ MayAnswer(s.task, a)
          /\ LET delta == QuotaDelta(s.task, s.row.quota)
             IN  work' = [task |-> s.task, row |-> Updated(s.row, a),
                          pay |-> CASE a = "success" -> delta
                                    [] a = "failure" -> - s.row.quota
                                    [] OTHER -> 0,
                          steps |-> CASE a = "success" /\ delta # 0 -> <<"pay", "save">>
                                      [] a = "failure" /\ s.row.quota # 0 -> RefundLast
                                      [] OTHER -> <<"save">>]
    /\ UNCHANGED <<row, job, ledger, answered, err, client, faults>>

\* The fetch fails, or the status is unknown: the row is left alone.
SkipVideo(s) ==
    /\ work = Nothing /\ s \in todo \ SunoTodo /\ Fault({s.task})
    /\ todo' = todo \ {s}
    /\ UNCHANGED <<row, job, ledger, answered, work, err, client>>

Rest(w) == IF Len(w.steps) = 1 THEN Nothing ELSE [w EXCEPT !.steps = Tail(@)]

\* The user's quota changes; a video that was priced again keeps its new price.
Pay ==
    /\ work # Nothing /\ Head(work.steps) = "pay"
    /\ LET t == work.task
           repriced == IF work.row.status = "success" THEN work.row.quota + work.pay
                                                      ELSE work.row.quota
       IN  \/ /\ paid' = [paid EXCEPT ![t] = @ + work.pay]
              /\ refunds' = [refunds EXCEPT ![t] =
                     IF work.row.status # "success" /\ @ < 2 THEN @ + 1 ELSE @]
              /\ work' = Rest([work EXCEPT !.row.quota = repriced])
              /\ UNCHANGED faults
           \/ /\ Fault({t}) /\ UNCHANGED ledger
              /\ work' = Rest(work)
    /\ UNCHANGED <<row, job, todo, answered, err, client>>

\* task.Update().  Its failure cancels the refund of a video task; in the Suno
\* loop it stays in err.
Save ==
    /\ work # Nothing /\ Head(work.steps) = "save"
    /\ LET t == work.task
       IN  \/ /\ row' = [row EXCEPT ![t] = work.row]
              /\ err' = (err /\ t \in Video)
              /\ work' = Rest(work)
              /\ UNCHANGED faults
           \/ /\ Fault({t}) /\ UNCHANGED row
              /\ err' = (err \/ t \in Suno)
              /\ work' = Nothing
    /\ UNCHANGED <<job, ledger, todo, answered, client>>

\* The master restarts: what the poller holds is gone.
Restart ==
    /\ work # Nothing /\ Fault({work.task})
    /\ todo' = {} /\ answered' = {} /\ work' = Nothing /\ err' = FALSE
    /\ UNCHANGED <<row, job, ledger, client>>

-----------------------------------------------------------------------------
(* A client's fetch (videoFetchByIDRespBodyBuilder), on any pod.           *)

ReadRow(t) ==
    /\ viewed[t] = Nothing /\ row[t] # Absent /\ fetches[t] < MaxFetches
    /\ viewed' = [viewed EXCEPT ![t] = [row |-> row[t], answer |-> "none"]]
    /\ fetches' = [fetches EXCEPT ![t] = @ + 1]
    /\ UNCHANGED <<row, job, ledger, poller, faults>>

AskUpstream(t) ==
    /\ viewed[t] # Nothing /\ viewed[t].answer = "none"
    /\ \E a \in Answers :
          MayAnswer(t, a) /\ viewed' = [viewed EXCEPT ![t].answer = a]
    /\ UNCHANGED <<row, job, ledger, poller, fetches, faults>>

\* The whole row is written, finished or not, and no quota is given back.
WriteRow(t) ==
    /\ viewed[t] # Nothing /\ viewed[t].answer # "none"
    /\ row' = [row EXCEPT ![t] = Updated(viewed[t].row, viewed[t].answer)]
    /\ viewed' = [viewed EXCEPT ![t] = Nothing]
    /\ UNCHANGED <<job, ledger, poller, fetches, faults>>

Client(t) == ReadRow(t) \/ AskUpstream(t) \/ WriteRow(t)
-----------------------------------------------------------------------------
Poller ==
    \/ Poll
    \/ FetchSuno
    \/ \E S \in SUBSET todo : ChannelGone(S)
    \/ \E s \in answered : TakeSuno(s)
    \/ \E s \in todo : TakeVideo(s) \/ SkipVideo(s)
    \/ Pay
    \/ Save

Terminated ==
    /\ \A t \in Tasks : submission[t] \in {"charged", "uncharged"} /\ ~Unfinished(t)
    /\ todo = {} /\ answered = {} /\ work = Nothing
    /\ UNCHANGED vars

Next ==
    \/ \E t \in Tasks : Submit(t) \/ Charge(t) \/ UpstreamEnds(t)
    \/ Poller
    \/ Restart
    \/ \E t \in Watched : Client(t)
    \/ Terminated

\* The upstreams end their tasks, the 15 s ticker of the poller goes on, and a
\* client's request that has read a row comes to its end.
Fairness ==
    /\ \A t \in Tasks : WF_vars(Charge(t)) /\ WF_vars(UpstreamEnds(t))
    /\ \A t \in Watched : WF_vars(AskUpstream(t) \/ WriteRow(t))
    /\ WF_vars(Poller)

Spec == Init /\ [][Next]_vars
FairSpec == Spec /\ Fairness
-----------------------------------------------------------------------------
InWork(t) == work # Nothing /\ work.task = t

\* A finished task has cost its user its price, a failed one nothing, however
\* submission, poller and upstream interleave.  The exception is a Suno task
\* fetched together with one whose update failed: err keeps the refund back.
FinishedMeansSettled ==
    \A t \in Tasks \ (Faulty \cup Watched) :
        submission[t] = "charged" /\ row[t].full /\ ~InWork(t) =>
            \/ paid[t] = IF row[t].status = "success" THEN actual[t] ELSE 0
            \/ t \in Suno /\ Suno \cap Faulty # {} /\ paid[t] = Price

\* A failed statement or a restart can lose the refund of a video task, never
\* pay it twice or for a task that goes on; the refund of a Suno task, which
\* is paid before the row is saved, is single where no fault hits the task.
RefundedOnce ==
    /\ \A t \in Video \ Watched :
          refunds[t] <= 1 /\ (refunds[t] = 1 => row[t].status = "failure")
    /\ \A t \in Suno \ Faulty : refunds[t] <= 1

\* The poller finishes every task, although clients may write old rows back.
EveryTaskEnds == \A t \in Tasks \ Faulty : submission[t] # "new" ~> row[t].full
=============================================================================
