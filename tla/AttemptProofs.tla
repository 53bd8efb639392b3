---------------------------- MODULE AttemptProofs ---------------------------
(***************************************************************************)
(* Theorems about an attempt at a channel: the stream that relays its      *)
(* answer (Stream), the circuit breaker that admits the attempt (Breaker), *)
(* and the outbox that settles what the attempt could not (BillingOutbox). *)
(***************************************************************************)
EXTENDS Stream, Breaker, BillingOutbox, TLAPS, FiniteSetTheorems, SequenceTheorems

-----------------------------------------------------------------------------
(* The stream: whatever the upstream sends.                                 *)

\* Until the scanner has exited, nothing has told anybody to stop in a stream that is not
\* aborted, and the writer at work is the one the scanner waits for.
Undisturbed ==
    /\ ~Aborted /\ scanner # "gone" => stop = 0 /\ ~cancelled /\ ~closed /\ main = "wait"
    /\ ~Aborted /\ Writing => scanner = "await"

\* The signal of the scanner waits for the handler; only an aborted stream leaves a writer
\* behind.
Signalled ==
    /\ closed => main \in {"final", "answer", "returned"}
    /\ behind => Aborted
    /\ scanner = "gone" /\ main = "wait" => stop > 0 \/ stolen

Handover == stop \in Nat /\ Undisturbed /\ Signalled

\* Every step of the five goroutines and of the client keeps the invariant.
LEMMA HandoverInductive == Spec => []Handover
<1>1. Init => Handover
  BY DEF Init, Handover, Undisturbed, Signalled, Aborted, Writing
<1>2. Handover /\ [Next]_vars => Handover'
  <2> SUFFICES ASSUME Handover, [Next]_vars PROVE Handover'
    OBVIOUS
  <2> USE StreamBounds DEF Handover, Undisturbed, Signalled, Aborted, Writing, chans, output, given,
          Receive, SafeSendBool, Done, ToldToStop
  <2>1. CASE MainWakes
    BY <2>1 DEF MainWakes
  <2>2. CASE MainCancels
    BY <2>2 DEF MainCancels
  <2>3. CASE MainJoins
    BY <2>3 DEF MainJoins
  <2>4. CASE FinalResponse
    <3>1. /\ main = "final" /\ main' \in {"answer", "returned"} /\ behind' = Writing
          /\ UNCHANGED <<scanner, writer, chans, gone, timedOut, stolen>>
      BY <2>4 DEF FinalResponse
    <3>2. Writing => Aborted
      BY <3>1
    <3>. QED
      BY <3>1, <3>2
  <2>20. CASE MainSends \/ MainReturns
    BY <2>20 DEF MainSends, MainReturns
  <2>5. CASE ScanLine
    BY <2>5 DEF ScanLine
  <2>6. CASE ScanStops
    BY <2>6 DEF ScanStops
  <2>7. CASE ScanEnds
    BY <2>7 DEF ScanEnds, Unblocked
  <2>8. CASE Written
    BY <2>8 DEF Written
  <2>9. CASE AwaitEnds
    BY <2>9 DEF AwaitEnds
  <2>10. CASE ScannerExits
    BY <2>10 DEF ScannerExits, SignalsEnd
  <2>11. CASE WriterLocks
    BY <2>11 DEF WriterLocks
  <2>12. CASE DataHandler \/ WriterSends \/ HoldBack
    BY <2>12 DEF DataHandler, WriterSends, HoldBack
  <2>13. CASE PingTick
    BY <2>13 DEF PingTick
  <2>14. CASE Pinger
    BY <2>14 DEF Pinger, PingLocks, PingData
  <2>15. CASE PingSent
    BY <2>15 DEF PingSent
  <2>16. CASE PingGivesUp
    BY <2>16 DEF PingGivesUp
  <2>17. CASE PingStops
    <3>1. CASE Done /\ UNCHANGED <<stop, stolen>>
      BY <2>17, <3>1 DEF PingStops
    <3>2. CASE Receive /\ stolen' = (stolen \/ main = "wait") /\ main = "wait"
      <4>1. stolen' = TRUE
        BY <2>17, <3>2 DEF PingStops
      <4>2. stop' \in Nat
        BY <3>2
      <4>. QED
        BY <2>17, <3>2, <4>1, <4>2 DEF PingStops
    <3>3. CASE Receive /\ stolen' = (stolen \/ main = "wait") /\ main # "wait"
      BY <2>17, <3>3 DEF PingStops
    <3>. QED
      BY <2>17, <3>1, <3>2, <3>3 DEF PingStops
  <2>18. CASE ClientLeaves
    BY <2>18 DEF ClientLeaves
  <2>19. CASE UNCHANGED vars
    BY <2>19 DEF vars
  <2>. QED
    BY <2>1, <2>2, <2>3, <2>4, <2>5, <2>6, <2>7, <2>8, <2>9, <2>10, <2>11, <2>12, <2>13, <2>14,
       <2>15, <2>16, <2>17, <2>18, <2>19, <2>20 DEF Next, Main, Scanner, Writer, PingEnds
<1>. QED
  BY <1>1, <1>2, PTL DEF Spec

\* StreamScannerHandler hands over cleanly to the final response: whatever the goroutines do,
\* a stream that nobody aborts leaves no writer behind, and the scanner's signal in stopChan
\* waits for the handler unless the ping goroutine has taken it.
THEOREM HandsOverCleanly == Spec => []CleanHandover
<1>1. Handover => CleanHandover
  BY DEF Handover, Undisturbed, Signalled, CleanHandover, Aborted
<1>. QED
  BY <1>1, HandoverInductive, PTL

-----------------------------------------------------------------------------
(* The message: what a sequence of events tells the client.                 *)

Events == {<<"message_start">>, <<"message_delta">>, <<"message_stop">>}
             \cup ({"content_block_start", "content_block_delta", "content_block_stop"} \X Nat)

\* Block i has begun, and is open, in the message s; the message has its end.
Begun(s, i) == \E n \in 1..Len(s) : s[n] = Start(i)
IsOpen(s, i) == \E k \in 1..Len(s) : s[k] = Start(i) /\ \A t \in k..Len(s) : s[t] # Stop(i)
Over(s) == \E n \in 1..Len(s) : s[n][1] = "message_stop"

\* It begins once, or has begun again within its first l events.
Headed(s) == /\ s # << >> /\ s[1][1] = "message_start"
             /\ \A n \in 2..Len(s) : s[n][1] # "message_start"
Twice(s, l) == \E m, n \in 1..l : m # n /\ s[m][1] = "message_start" /\ s[n][1] = "message_start"

\* The properties of MessageWellFormed and EveryPieceOnce, of a message s.
DeltasOpen(s) ==
    \A n \in 1..Len(s) : s[n][1] = "content_block_delta" =>
        \E k \in 1..(n - 1) : s[k] = Start(s[n][2]) /\ \A t \in k..(n - 1) : s[t] # Stop(s[n][2])
InTurn(s) ==
    \A n \in 1..Len(s) : s[n][1] = "content_block_start" =>
        \A m \in 1..(n - 1) : s[m][1] = "content_block_start" =>
            /\ s[m] # s[n]
            /\ ~\E k \in 1..(n - 1) : s[k] = Start(s[m][2]) /\ \A t \in k..(n - 1) : s[t] # Stop(s[m][2])
TurnsOnce(s) ==    \* the same, but for blocks of a message that has begun again
    \A n \in 1..Len(s) : s[n][1] = "content_block_start" =>
        \/ Twice(s, n - 1)
        \/ \A m \in 1..(n - 1) : s[m][1] = "content_block_start" =>
            /\ s[m] # s[n]
            /\ ~\E k \in 1..(n - 1) : s[k] = Start(s[m][2]) /\ \A t \in k..(n - 1) : s[t] # Stop(s[m][2])
StopIsLast(s) == \A n \in 1..Len(s) : s[n][1] = "message_stop" => n = Len(s)
DeltasOf(s) == {n \in 1..Len(s) : s[n][1] = "content_block_delta"}

\* The kinds of events are told apart by their names.
LEMMA Kinds ==
    /\ <<"message_start">> \in Events /\ <<"message_start">>[1] = "message_start"
    /\ <<"message_delta">> \in Events /\ <<"message_delta">>[1] = "message_delta"
    /\ <<"message_stop">> \in Events /\ <<"message_stop">>[1] = "message_stop"
    /\ \A i \in Nat : Start(i) \in Events /\ Delta(i) \in Events /\ Stop(i) \in Events
    /\ \A i : Start(i)[1] = "content_block_start" /\ Start(i)[2] = i
    /\ \A i : Delta(i)[1] = "content_block_delta" /\ Delta(i)[2] = i
    /\ \A i : Stop(i)[1] = "content_block_stop" /\ Stop(i)[2] = i
    /\ \A e \in Events : e[1] = "content_block_start" => e = Start(e[2])
BY DEF Events, Start, Delta, Stop

\* What an event more changes: t is s with e.
Grown(s, e, t) ==
    /\ t \in Seq(Events) /\ t # << >>
    /\ Len(t) = Len(s) + 1 /\ t[Len(t)] = e /\ \A n \in 1..Len(s) : t[n] = s[n]
    /\ \A i : Begun(t, i) <=> Begun(s, i) \/ e = Start(i)
    /\ \A i : IsOpen(t, i) <=> e = Start(i) \/ (IsOpen(s, i) /\ e # Stop(i))
    /\ Over(t) <=> Over(s) \/ e[1] = "message_stop"
    /\ Headed(s) /\ e[1] # "message_start" => Headed(t)
    /\ s = << >> /\ e[1] = "message_start" => Headed(t)
    /\ DeltasOpen(s) /\ (e[1] = "content_block_delta" => IsOpen(s, e[2])) => DeltasOpen(t)
    /\ InTurn(s) /\ (e[1] = "content_block_start" => ~Begun(s, e[2]) /\ \A i : ~IsOpen(s, i))
          => InTurn(t)
    /\ ~Over(s) => StopIsLast(t)
    /\ DeltasOf(t) = IF e[1] = "content_block_delta" THEN DeltasOf(s) \cup {Len(t)} ELSE DeltasOf(s)

\* Every event changes what Grown says.
LEMMA OneMore ==
    ASSUME NEW s \in Seq(Events), NEW e \in Events, NEW t, t = Append(s, e)
    PROVE  Grown(s, e, t)
<1>1. /\ t \in Seq(Events) /\ t # << >>
      /\ Len(t) = Len(s) + 1 /\ t[Len(t)] = e /\ \A n \in 1..Len(s) : t[n] = s[n]
  OBVIOUS
<1>2. /\ Len(s) \in Nat /\ 1..Len(t) = (1..Len(s)) \cup {Len(t)}
      /\ \A n \in 1..Len(s) : (n..Len(t)) = (n..Len(s)) \cup {Len(t)}
  BY <1>1
<1>3. Len(t)..Len(t) = {Len(t)}
  BY <1>1, <1>2
<1>4. \A i : Begun(t, i) <=> Begun(s, i) \/ e = Start(i)
  BY <1>1, <1>2 DEF Begun
<1>5. \A i : Start(i) # Stop(i)
  BY Kinds
<1>6. \A i : IsOpen(t, i) <=> e = Start(i) \/ (IsOpen(s, i) /\ e # Stop(i))
  <2> TAKE i
  <2>1. ASSUME IsOpen(t, i) PROVE e = Start(i) \/ (IsOpen(s, i) /\ e # Stop(i))
    <3>1. PICK k \in 1..Len(t) : t[k] = Start(i) /\ \A u \in k..Len(t) : t[u] # Stop(i)
      BY <2>1 DEF IsOpen
    <3>2. CASE k = Len(t)
      BY <3>1, <3>2, <1>1
    <3>3. CASE k \in 1..Len(s)
      <4>1. e # Stop(i) /\ \A u \in k..Len(s) : t[u] # Stop(i)
        BY <3>1, <3>3, <1>1, <1>2
      <4>2. \A u \in k..Len(s) : u \in 1..Len(s)
        BY <3>3, <1>2
      <4>. QED
        BY <4>1, <4>2, <3>1, <3>3, <1>1 DEF IsOpen
    <3>. QED
      BY <3>2, <3>3, <1>2
  <2>2. ASSUME e = Start(i) PROVE IsOpen(t, i)
    BY <2>2, <1>1, <1>2, <1>3, <1>5 DEF IsOpen
  <2>3. ASSUME IsOpen(s, i), e # Stop(i) PROVE IsOpen(t, i)
    <3>1. PICK k \in 1..Len(s) : s[k] = Start(i) /\ \A u \in k..Len(s) : s[u] # Stop(i)
      BY <2>3 DEF IsOpen
    <3>2. \A u \in k..Len(t) : t[u] # Stop(i)
      <4>1. \A u \in k..Len(s) : u \in 1..Len(s)
        BY <3>1, <1>2
      <4>. QED
        BY <2>3, <3>1, <4>1, <1>1, <1>2
    <3>. QED
      BY <3>1, <3>2, <1>1, <1>2 DEF IsOpen
  <2>. QED
    BY <2>1, <2>2, <2>3
<1>7. Over(t) <=> Over(s) \/ e[1] = "message_stop"
  BY <1>1, <1>2 DEF Over
<1>8. /\ Headed(s) /\ e[1] # "message_start" => Headed(t)
      /\ s = << >> /\ e[1] = "message_start" => Headed(t)
  <2>1. s # << >> => 1 \in 1..Len(s) /\ 2..Len(t) = (2..Len(s)) \cup {Len(t)}
    BY <1>1, <1>2
  <2>2. s = << >> => Len(t) = 1 /\ 2..Len(t) = {}
    BY <1>1
  <2>3. \A n \in 2..Len(s) : n \in 1..Len(s)
    BY <1>2
  <2>. QED
    BY <2>1, <2>2, <2>3, <1>1 DEF Headed
<1>11. \A n \in 1..Len(s) : /\ 1..(n - 1) \subseteq 1..Len(s)
                            /\ \A k \in 1..(n - 1) : k..(n - 1) \subseteq 1..Len(s)
  BY <1>2
<1>12. Len(t) - 1 = Len(s)
  BY <1>1, <1>2
<1>13. DeltasOpen(s) /\ (e[1] = "content_block_delta" => IsOpen(s, e[2])) => DeltasOpen(t)
  <2> SUFFICES ASSUME DeltasOpen(s), e[1] = "content_block_delta" => IsOpen(s, e[2]),
                      NEW n \in 1..Len(t), t[n][1] = "content_block_delta"
               PROVE  \E k \in 1..(n - 1) : t[k] = Start(t[n][2]) /\ \A u \in k..(n - 1) : t[u] # Stop(t[n][2])
    BY DEF DeltasOpen
  <2>1. CASE n \in 1..Len(s)
    <3>1. t[n] = s[n]
      BY <2>1, <1>1
    <3>2. PICK k \in 1..(n - 1) : s[k] = Start(s[n][2]) /\ \A u \in k..(n - 1) : s[u] # Stop(s[n][2])
      BY <2>1, <3>1 DEF DeltasOpen
    <3>. QED
      BY <3>1, <3>2, <2>1, <1>1, <1>11
  <2>2. CASE n = Len(t)
    <3>1. PICK k \in 1..Len(s) : s[k] = Start(e[2]) /\ \A u \in k..Len(s) : s[u] # Stop(e[2])
      BY <2>2, <1>1 DEF IsOpen
    <3>2. \A u \in k..Len(s) : u \in 1..Len(s)
      BY <3>1, <1>2
    <3>. QED
      BY <3>1, <3>2, <2>2, <1>1, <1>12
  <2>. QED
    BY <2>1, <2>2, <1>2
<1>14. InTurn(s) /\ (e[1] = "content_block_start" => ~Begun(s, e[2]) /\ \A i : ~IsOpen(s, i)) => InTurn(t)
  <2> SUFFICES ASSUME InTurn(s), e[1] = "content_block_start" => ~Begun(s, e[2]) /\ \A i : ~IsOpen(s, i),
                      NEW n \in 1..Len(t), t[n][1] = "content_block_start",
                      NEW m \in 1..(n - 1), t[m][1] = "content_block_start"
               PROVE  /\ t[m] # t[n]
                      /\ ~\E k \in 1..(n - 1) : t[k] = Start(t[m][2]) /\ \A u \in k..(n - 1) : t[u] # Stop(t[m][2])
    BY DEF InTurn
  <2>1. CASE n \in 1..Len(s)
    <3>1. t[n] = s[n] /\ t[m] = s[m]
      BY <2>1, <1>1, <1>11
    <3>2. /\ s[m] # s[n]
          /\ ~\E k \in 1..(n - 1) : s[k] = Start(s[m][2]) /\ \A u \in k..(n - 1) : s[u] # Stop(s[m][2])
      BY <2>1, <3>1 DEF InTurn
    <3>. QED
      BY <3>1, <3>2, <2>1, <1>1, <1>11
  <2>2. CASE n = Len(t)
    <3>1. m \in 1..Len(s) /\ t[m] = s[m] /\ t[n] = e
      BY <2>2, <1>1, <1>12
    <3>2. e = Start(e[2])
      BY <3>1, Kinds
    <3>3. s[m] # e
      BY <3>1, <3>2 DEF Begun
    <3>4. ~IsOpen(s, s[m][2])
      BY <3>1
    <3>5. \A k \in 1..Len(s) : \A u \in k..Len(s) : u \in 1..Len(s)
      BY <1>2
    <3>6. ~\E k \in 1..Len(s) : t[k] = Start(s[m][2]) /\ \A u \in k..Len(s) : t[u] # Stop(s[m][2])
      BY <3>4, <3>5, <1>1 DEF IsOpen
    <3>. QED
      BY <3>1, <3>3, <3>6, <2>2, <1>12
  <2>. QED
    BY <2>1, <2>2, <1>2
<1>15. ~Over(s) => StopIsLast(t)
  BY <1>1, <1>2 DEF Over, StopIsLast
<1>16. DeltasOf(t) = IF e[1] = "content_block_delta" THEN DeltasOf(s) \cup {Len(t)} ELSE DeltasOf(s)
  BY <1>1, <1>2 DEF DeltasOf
<1>. QED
  BY <1>1, <1>4, <1>6, <1>7, <1>8, <1>13, <1>14, <1>15, <1>16 DEF Grown

Sent(s) == Cardinality(DeltasOf(s))

\* The deltas sent are counted one by one.
LEMMA Counting ==
    ASSUME NEW s \in Seq(Events), NEW e \in Events
    PROVE  /\ Sent(s) \in Nat
           /\ Sent(Append(s, e)) = IF e[1] = "content_block_delta" THEN Sent(s) + 1 ELSE Sent(s)
<1> DEFINE t == Append(s, e)
<1>1. Len(s) \in Nat /\ Len(t) = Len(s) + 1
  OBVIOUS
<1>2. IsFiniteSet(1..Len(s))
  BY <1>1, FS_Interval
<1>3. DeltasOf(s) \subseteq 1..Len(s)
  BY DEF DeltasOf
<1>4. IsFiniteSet(DeltasOf(s))
  BY <1>2, <1>3, FS_Subset
<1>5. Sent(s) \in Nat
  BY <1>4, FS_CardinalityType DEF Sent
<1>6. Len(t) \notin DeltasOf(s)
  BY <1>1, <1>3
<1>7. Cardinality(DeltasOf(s) \cup {Len(t)}) = Cardinality(DeltasOf(s)) + 1
  BY <1>4, <1>6, FS_AddElement
<1>8. DeltasOf(t) = IF e[1] = "content_block_delta" THEN DeltasOf(s) \cup {Len(t)} ELSE DeltasOf(s)
  BY OneMore DEF Grown
<1>. QED
  BY <1>5, <1>7, <1>8 DEF Sent

\* A message under way: whatever it holds is well-formed so far.
UnderWay(s) == s \in Seq(Events) /\ DeltasOpen(s) /\ ~Over(s)
Kept(s, t)  == Headed(s) => Headed(t)

\* A content_block_start opens its block.
LEMMA BlockStarts ==
    ASSUME NEW s, UnderWay(s), NEW i \in Nat, NEW t, t = Append(s, Start(i))
    PROVE  /\ UnderWay(t) /\ Kept(s, t) /\ Sent(t) = Sent(s)
           /\ \A j : IsOpen(t, j) <=> j = i \/ IsOpen(s, j)
           /\ \A j : Begun(t, j) <=> j = i \/ Begun(s, j)
           /\ InTurn(s) /\ ~Begun(s, i) /\ (\A j : ~IsOpen(s, j)) => InTurn(t)
<1>1. s \in Seq(Events) /\ Start(i) \in Events /\ Start(i)[1] = "content_block_start" /\ Start(i)[2] = i
  BY Kinds DEF UnderWay
<1>2. \A j : (Start(i) = Start(j) <=> j = i) /\ Start(i) # Stop(j)
  BY Kinds
<1>3. Sent(t) = Sent(s)
  BY <1>1, Counting
<1>4. Grown(s, Start(i), t)
  BY <1>1, OneMore
<1>. QED
  BY <1>1, <1>2, <1>3, <1>4 DEF Grown, UnderWay, Kept

\* A content_block_delta of a block that is open.
LEMMA BlockGrows ==
    ASSUME NEW s, UnderWay(s), NEW i \in Nat, IsOpen(s, i), NEW t, t = Append(s, Delta(i))
    PROVE  /\ UnderWay(t) /\ Kept(s, t) /\ Sent(t) = Sent(s) + 1
           /\ \A j : IsOpen(t, j) <=> IsOpen(s, j)
           /\ \A j : Begun(t, j) <=> Begun(s, j)
           /\ InTurn(s) => InTurn(t)
<1>1. s \in Seq(Events) /\ Delta(i) \in Events /\ Delta(i)[1] = "content_block_delta" /\ Delta(i)[2] = i
  BY Kinds DEF UnderWay
<1>2. \A j : Delta(i) # Start(j) /\ Delta(i) # Stop(j)
  BY Kinds
<1>3. Sent(t) = Sent(s) + 1
  BY <1>1, Counting
<1>4. Grown(s, Delta(i), t)
  BY <1>1, OneMore
<1>. QED
  BY <1>1, <1>2, <1>3, <1>4 DEF Grown, UnderWay, Kept

\* A content_block_stop closes its block.
LEMMA BlockStops ==
    ASSUME NEW s, UnderWay(s), NEW i \in Nat, NEW t, t = Append(s, Stop(i))
    PROVE  /\ UnderWay(t) /\ Kept(s, t) /\ Sent(t) = Sent(s)
           /\ \A j : IsOpen(t, j) <=> j # i /\ IsOpen(s, j)
           /\ \A j : Begun(t, j) <=> Begun(s, j)
           /\ InTurn(s) => InTurn(t)
<1>1. s \in Seq(Events) /\ Stop(i) \in Events /\ Stop(i)[1] = "content_block_stop" /\ Stop(i)[2] = i
  BY Kinds DEF UnderWay
<1>2. \A j : Stop(i) # Start(j) /\ (Stop(i) = Stop(j) <=> j = i)
  BY Kinds
<1>3. Sent(t) = Sent(s)
  BY <1>1, Counting
<1>4. Grown(s, Stop(i), t)
  BY <1>1, OneMore
<1>. QED
  BY <1>1, <1>2, <1>3, <1>4 DEF Grown, UnderWay, Kept

\* A message_start begins the message, or begins it again.
LEMMA MessageStarts ==
    ASSUME NEW s, UnderWay(s), NEW t, t = Append(s, <<"message_start">>)
    PROVE  /\ UnderWay(t) /\ Sent(t) = Sent(s)
           /\ s = << >> => Headed(t)
           /\ \A j : IsOpen(t, j) <=> IsOpen(s, j)
           /\ \A j : Begun(t, j) <=> Begun(s, j)
           /\ InTurn(s) => InTurn(t)
<1> DEFINE e == <<"message_start">>
<1>1. s \in Seq(Events) /\ e \in Events /\ e[1] = "message_start"
  BY Kinds DEF UnderWay
<1>2. \A j : e # Start(j) /\ e # Stop(j)
  BY Kinds
<1>5. t = Append(s, e)
  OBVIOUS
<1> HIDE DEF e
<1>3. Sent(t) = Sent(s)
  BY <1>1, <1>5, Counting
<1>4. Grown(s, e, t)
  BY <1>1, <1>5, OneMore
<1>. QED
  BY <1>1, <1>2, <1>3, <1>4 DEF Grown, UnderWay

\* A message_delta.
LEMMA MessageUsage ==
    ASSUME NEW s, UnderWay(s), NEW t, t = Append(s, <<"message_delta">>)
    PROVE  /\ UnderWay(t) /\ Kept(s, t) /\ Sent(t) = Sent(s)
           /\ t # << >> /\ t[Len(t)][1] = "message_delta"
           /\ InTurn(s) => InTurn(t)
<1> DEFINE e == <<"message_delta">>
<1>1. s \in Seq(Events) /\ e \in Events /\ e[1] = "message_delta"
  BY Kinds DEF UnderWay
<1>2. \A j : e # Start(j) /\ e # Stop(j)
  BY Kinds
<1>5. t = Append(s, e)
  OBVIOUS
<1> HIDE DEF e
<1>3. Sent(t) = Sent(s)
  BY <1>1, <1>5, Counting
<1>4. Grown(s, e, t)
  BY <1>1, <1>5, OneMore
<1>. QED
  BY <1>1, <1>2, <1>3, <1>4 DEF Grown, UnderWay, Kept

\* A message_stop ends the message.
LEMMA MessageStops ==
    ASSUME NEW s, UnderWay(s), NEW t, t = Append(s, <<"message_stop">>)
    PROVE  /\ t \in Seq(Events) /\ DeltasOpen(t) /\ Over(t) /\ StopIsLast(t)
           /\ Kept(s, t) /\ Sent(t) = Sent(s)
           /\ Len(t) = Len(s) + 1 /\ (s # << >> => t[Len(t) - 1] = s[Len(s)])
           /\ InTurn(s) => InTurn(t)
<1> DEFINE e == <<"message_stop">>
<1>1. s \in Seq(Events) /\ e \in Events /\ e[1] = "message_stop"
  BY Kinds DEF UnderWay
<1>7. t = Append(s, e)
  OBVIOUS
<1> HIDE DEF e
<1>2. Sent(t) = Sent(s)
  BY <1>1, <1>7, Counting
<1>6. Grown(s, e, t)
  BY <1>1, <1>7, OneMore
<1>3. s # << >> => Len(s) \in 1..Len(s)
  BY <1>1
<1>4. Len(t) = Len(s) + 1 /\ \A n \in 1..Len(s) : t[n] = s[n]
  BY <1>6, <1>1 DEF Grown
<1>5. s # << >> => t[Len(t) - 1] = s[Len(s)]
  BY <1>1, <1>3, <1>4
<1>. QED
  BY <1>1, <1>2, <1>4, <1>5, <1>6 DEF UnderWay, Kept, Grown

\* Two events one after the other.
LEMMA OneThenTwo ==
    ASSUME NEW p \in Seq(Events), NEW b \in Events, 1 \in 1..Len(p), ~(2 \in 1..Len(p))
    PROVE  Append(p, b) = <<p[1], b>>
<1> DEFINE u == <<p[1], b>>
           v == Append(p, b)
<1>1. p[1] \in Events /\ \A i \in 1..Len(p) : i = 1
  OBVIOUS
<1>2. u \in Seq(Events) /\ u[1] = p[1] /\ u[2] = b /\ \A i \in 1..Len(u) : i = 1 \/ i = 2
  BY <1>1
<1>3. Len(u) = 2
  OBVIOUS
<1>4. v \in Seq(Events) /\ Len(v) = Len(p) + 1 /\ (\A i \in 1..Len(p) : v[i] = p[i]) /\ v[Len(p) + 1] = b
  BY AppendProperties
<1> HIDE DEF u, v
<1>5. 2 = Len(p) + 1
  BY <1>1
<1>6. v[1] = p[1] /\ v[2] = b /\ Len(v) = 2
  BY <1>4, <1>5
<1>7. u \in Seq(Events) /\ v \in Seq(Events) /\ Len(u) = Len(v) /\ \A i \in 1..Len(u) : u[i] = v[i]
  BY <1>2, <1>3, <1>4, <1>6
<1>8. u = v
  BY <1>7, SeqEqual
<1>. QED
  BY <1>8 DEF u, v

\* Events follow one another.
LEMMA Chained ==
    ASSUME NEW s \in Seq(Events), NEW a \in Events, NEW b \in Events
    PROVE  /\ << >> \in Seq(Events) /\ <<a>> \in Seq(Events) /\ <<a, b>> \in Seq(Events)
           /\ s \o << >> = s
           /\ s \o <<a>> = Append(s, a)
           /\ s \o <<a, b>> = Append(Append(s, a), b)
<1>1. << >> \in Seq(Events) /\ <<a>> \in Seq(Events) /\ <<a, b>> \in Seq(Events)
  OBVIOUS
<1>2. s \o << >> = s
  BY ConcatEmptySeq
<1>3. \A t \in Seq(Events), d \in Events : t \o <<d>> = Append(t, d)
  BY AppendIsConcat
<1> DEFINE p == <<a>>
<1>4. p \in Seq(Events) /\ 1 \in 1..Len(p) /\ ~(2 \in 1..Len(p)) /\ p[1] = a
  OBVIOUS
<1> HIDE DEF p
<1>5. p \o <<b>> = <<a, b>>
  BY <1>3, <1>4, OneThenTwo
<1> DEFINE q == <<b>>
<1>6. q \in Seq(Events)
  OBVIOUS
<1> HIDE DEF q
<1>7. p \o q = <<a, b>>
  BY <1>5 DEF q
<1>8. (s \o p) \o q = s \o (p \o q)
  BY <1>4, <1>6, ConcatAssociative
<1>9. s \o p \in Seq(Events)
  BY <1>4, ConcatProperties
<1>10. s \o <<a>> = s \o p /\ (s \o p) \o q = (s \o p) \o <<b>>
  BY DEF p, q
<1>. QED
  BY <1>1, <1>2, <1>3, <1>7, <1>8, <1>9, <1>10

\* Parts put together are parts put one after the other.
LEMMA Parts ==
    ASSUME NEW s \in Seq(Events), NEW A \in Seq(Events), NEW B \in Seq(Events), NEW C \in Seq(Events)
    PROVE  /\ s \o A \in Seq(Events) /\ A \o B \in Seq(Events) /\ (A \o B) \o C \in Seq(Events)
           /\ s \o (A \o B) = (s \o A) \o B
           /\ s \o ((A \o B) \o C) = ((s \o A) \o B) \o C
<1>1. (s \o A) \o B = s \o (A \o B)
  BY ConcatAssociative
<1> DEFINE D == A \o B
<1>2. D \in Seq(Events)
  BY ConcatProperties
<1> HIDE DEF D
<1>3. (s \o D) \o C = s \o (D \o C)
  BY <1>2, ConcatAssociative
<1>4. s \o A \in Seq(Events)
  BY ConcatProperties
<1>5. D \o C \in Seq(Events)
  BY <1>2, ConcatProperties
<1>. QED
  BY <1>1, <1>2, <1>3, <1>4, <1>5 DEF D

\* The deltas of two parts are those of the one and those of the other.
LEMMA SentAdds ==
    ASSUME NEW s \in Seq(Events), NEW p \in Seq(Events)
    PROVE  /\ Sent(s) \in Nat /\ Sent(p) \in Nat
           /\ s \o p \in Seq(Events) /\ Sent(s \o p) = Sent(s) + Sent(p)
<1> DEFINE t == s \o p
           A == DeltasOf(s)
           B == DeltasOf(p)
           C == {n \in Len(s) + 1..Len(t) : t[n][1] = "content_block_delta"}
           f == [n \in B |-> n + Len(s)]
<1>1. /\ t \in Seq(Events) /\ Len(t) = Len(s) + Len(p) /\ Len(s) \in Nat /\ Len(p) \in Nat
      /\ \A n \in 1..Len(s) : t[n] = s[n]
      /\ \A n \in 1..Len(p) : t[n + Len(s)] = p[n]
  BY ConcatProperties
<1> HIDE DEF t
<1>2. IsFiniteSet(A) /\ IsFiniteSet(C)
  <2>1. IsFiniteSet(1..Len(s)) /\ IsFiniteSet(Len(s) + 1..Len(t))
    BY <1>1, FS_Interval
  <2>2. A \subseteq 1..Len(s) /\ C \subseteq Len(s) + 1..Len(t)
    BY DEF DeltasOf
  <2>. QED
    BY <2>1, <2>2, FS_Subset
<1>3. DeltasOf(t) = A \cup C /\ A \cap C = {}
  BY <1>1 DEF DeltasOf
<1>4. Cardinality(A \cup C) = Cardinality(A) + Cardinality(C)
  <2>1. ASSUME NEW X, NEW Y, IsFiniteSet(X), IsFiniteSet(Y), X \cap Y = {}
        PROVE  Cardinality(X \cup Y) = Cardinality(X) + Cardinality(Y)
    <3>1. Cardinality(X \cup Y) = Cardinality(X) + Cardinality(Y) - Cardinality(X \cap Y)
      BY <2>1, FS_Union
    <3>2. Cardinality(X \cap Y) = 0 /\ Cardinality(X) \in Nat /\ Cardinality(Y) \in Nat
      BY <2>1, FS_EmptySet, FS_CardinalityType
    <3>. QED
      BY <3>1, <3>2
  <2>. QED
    BY <1>2, <1>3, <2>1
<1>5. f \in Bijection(B, C)
  <2>1. \A n \in B : n \in 1..Len(p) /\ p[n][1] = "content_block_delta"
    BY DEF DeltasOf
  <2>2. \A n \in B : f[n] = n + Len(s) /\ f[n] \in C
    BY <1>1, <2>1
  <2>3. \A m \in C : m - Len(s) \in B /\ f[m - Len(s)] = m
    BY <1>1 DEF DeltasOf
  <2>4. \A m, n \in B : f[m] = f[n] => m = n
    BY <1>1, <2>1, <2>2
  <2>5. f \in [B -> C]
    BY <2>2
  <2> HIDE DEF f, B, C
  <2>6. f \in Injection(B, C)
    BY <2>4, <2>5 DEF Injection, IsInjective
  <2>7. f \in Surjection(B, C)
    BY <2>3, <2>5 DEF Surjection
  <2>. QED
    BY <2>6, <2>7 DEF Bijection
<1>6. ExistsBijection(B, C)
  BY <1>5 DEF ExistsBijection
<1>7. Cardinality(B) = Cardinality(C)
  <2>1. IsFiniteSet(1..Len(p))
    BY <1>1, FS_Interval
  <2>2. IsFiniteSet(B)
    BY <2>1, FS_Subset DEF DeltasOf
  <2>. QED
    BY <2>2, <1>2, <1>6, FS_Bijection
<1>8. Cardinality(A) \in Nat /\ Cardinality(C) \in Nat
  BY <1>2, FS_CardinalityType
<1>. QED
  BY <1>1, <1>3, <1>4, <1>7, <1>8 DEF Sent, t

\* What holds of a message holds of the part of it that has been sent.
LEMMA PartOfMessage ==
    ASSUME NEW s \in Seq(Events), NEW p \in Seq(Events), NEW t, t = s \o p
    PROVE  /\ DeltasOpen(t) => DeltasOpen(s)
           /\ TurnsOnce(t) => TurnsOnce(s)
           /\ StopIsLast(t) => StopIsLast(s)
<1>1. /\ Len(t) = Len(s) + Len(p) /\ Len(s) \in Nat /\ Len(p) \in Nat
      /\ \A n \in 1..Len(s) : t[n] = s[n]
  BY ConcatProperties
<1>2. /\ \A n \in 1..Len(s) : n \in 1..Len(t) /\ 1..(n - 1) \subseteq 1..Len(s)
      /\ \A n \in 1..Len(s) : \A k \in 1..(n - 1) : k..(n - 1) \subseteq 1..Len(s)
  BY <1>1
<1>3. DeltasOpen(t) => DeltasOpen(s)
  <2> SUFFICES ASSUME DeltasOpen(t), NEW n \in 1..Len(s), s[n][1] = "content_block_delta"
               PROVE  \E k \in 1..(n - 1) : s[k] = Start(s[n][2]) /\ \A u \in k..(n - 1) : s[u] # Stop(s[n][2])
    BY DEF DeltasOpen
  <2>1. PICK k \in 1..(n - 1) : t[k] = Start(t[n][2]) /\ \A u \in k..(n - 1) : t[u] # Stop(t[n][2])
    BY <1>1, <1>2 DEF DeltasOpen
  <2>2. k \in 1..Len(s) /\ \A u \in k..(n - 1) : u \in 1..Len(s)
    BY <1>2
  <2>. QED
    BY <1>1, <2>1, <2>2
<1>4. TurnsOnce(t) => TurnsOnce(s)
  <2> SUFFICES ASSUME TurnsOnce(t), NEW n \in 1..Len(s), s[n][1] = "content_block_start", ~Twice(s, n - 1),
                      NEW m \in 1..(n - 1), s[m][1] = "content_block_start"
               PROVE  /\ s[m] # s[n]
                      /\ ~\E k \in 1..(n - 1) : s[k] = Start(s[m][2]) /\ \A u \in k..(n - 1) : s[u] # Stop(s[m][2])
    BY DEF TurnsOnce
  <2>1. t[n] = s[n] /\ n \in 1..Len(t) /\ \A k \in 1..(n - 1) : t[k] = s[k]
    BY <1>1, <1>2
  <2>2. ~Twice(t, n - 1)
    BY <2>1 DEF Twice
  <2>3. /\ t[m] # t[n]
        /\ ~\E k \in 1..(n - 1) : t[k] = Start(t[m][2]) /\ \A u \in k..(n - 1) : t[u] # Stop(t[m][2])
    BY <2>1, <2>2 DEF TurnsOnce
  <2>4. \A k \in 1..(n - 1) : \A u \in k..(n - 1) : t[u] = s[u]
    BY <1>1, <1>2
  <2>. QED
    BY <2>1, <2>3, <2>4
<1>5. StopIsLast(t) => StopIsLast(s)
  BY <1>1, <1>2 DEF StopIsLast
<1>. QED
  BY <1>3, <1>4, <1>5

\* A message in turn that begins again is in turn once.
LEMMA BeginsAgain ==
    ASSUME NEW s \in Seq(Events), Headed(s), InTurn(s),
           NEW p \in Seq(Events), p # << >>, p[1][1] = "message_start"
    PROVE  TurnsOnce(s \o p)
<1> DEFINE t == s \o p
<1>1. /\ Len(t) = Len(s) + Len(p) /\ Len(s) \in Nat /\ Len(p) \in Nat /\ Len(p) > 0 /\ Len(s) > 0
      /\ \A n \in 1..Len(s) : t[n] = s[n]
      /\ \A n \in 1..Len(p) : t[n + Len(s)] = p[n]
  BY ConcatProperties DEF Headed
<1> HIDE DEF t
<1>2. t[1][1] = "message_start" /\ t[Len(s) + 1][1] = "message_start"
  <2>1. 1 \in 1..Len(s) /\ 1 \in 1..Len(p) /\ 1 + Len(s) = Len(s) + 1
    BY <1>1
  <2>. QED
    BY <1>1, <2>1 DEF Headed
<1>3. SUFFICES ASSUME NEW n \in 1..Len(t), t[n][1] = "content_block_start", ~Twice(t, n - 1),
                      NEW m \in 1..(n - 1), t[m][1] = "content_block_start"
               PROVE  /\ t[m] # t[n]
                      /\ ~\E k \in 1..(n - 1) : t[k] = Start(t[m][2]) /\ \A u \in k..(n - 1) : t[u] # Stop(t[m][2])
  BY DEF TurnsOnce, t
<1>4. n \in 1..Len(s)
  <2>1. n # Len(s) + 1
    BY <1>2, <1>3
  <2>2. n > Len(s) + 1 => 1 \in 1..(n - 1) /\ Len(s) + 1 \in 1..(n - 1) /\ 1 # Len(s) + 1
    BY <1>1
  <2>3. ~(n > Len(s) + 1)
    BY <1>2, <1>3, <2>2 DEF Twice
  <2>4. n \in Nat /\ n >= 1 /\ Len(s) \in Nat
    BY <1>1
  <2>5. n <= Len(s)
    BY <2>1, <2>3, <2>4
  <2>. QED
    BY <2>4, <2>5
<1>5. t[n] = s[n] /\ \A k \in 1..(n - 1) : k \in 1..Len(s) /\ t[k] = s[k]
  BY <1>1, <1>4
<1>6. /\ s[m] # s[n]
      /\ ~\E k \in 1..(n - 1) : s[k] = Start(s[m][2]) /\ \A u \in k..(n - 1) : s[u] # Stop(s[m][2])
  BY <1>3, <1>4, <1>5 DEF InTurn
<1>7. \A k \in 1..(n - 1) : \A u \in k..(n - 1) : t[u] = s[u]
  BY <1>4, <1>5
<1>. QED
  BY <1>5, <1>6, <1>7

\* The next event of those that wait goes out: what is sent and what waits stays the same.
LEMMA NextEvent ==
    ASSUME NEW s \in Seq(Events), NEW p \in Seq(Events), p # << >>
    PROVE  /\ Head(p) \in Events /\ Tail(p) \in Seq(Events) /\ Append(s, Head(p)) \in Seq(Events)
           /\ Append(s, Head(p)) \o Tail(p) = s \o p
           /\ Sent(Append(s, Head(p))) + Sent(Tail(p)) = Sent(s) + Sent(p)
<1>1. Head(p) \in Events /\ Tail(p) \in Seq(Events)
  OBVIOUS
<1> DEFINE a == Append(s, Head(p))
<1>2. a \in Seq(Events) /\ a = s \o <<Head(p)>> /\ <<Head(p)>> \in Seq(Events)
  BY <1>1, AppendIsConcat
<1>3. p = <<Head(p)>> \o Tail(p)
  <2>1. 1 \in 1..Len(p) /\ Len(p) \in 1..Len(p) /\ Head(p) = p[1] /\ 1 + 1 = 2
    OBVIOUS
  <2>2. SubSeq(p, 1, Len(p)) = <<p[1]>> \o SubSeq(p, 1 + 1, Len(p))
    BY <2>1, SubSeqRecursiveFirst
  <2>. QED
    BY <2>1, <2>2, SubSeqFull, TailIsSubSeq
<1> DEFINE h == <<Head(p)>>
           q == Tail(p)
<1> HIDE DEF h, q
<1>4. (s \o h) \o q = s \o (h \o q)
  BY <1>1, <1>2, ConcatAssociative DEF h, q
<1>5. a \o q = s \o p
  BY <1>2, <1>3, <1>4 DEF h, q
<1> HIDE DEF a
<1>6. Sent(a) + Sent(q) = Sent(s) + Sent(p)
  <2>1. Sent(a \o q) = Sent(a) + Sent(q)
    BY <1>1, <1>2, SentAdds DEF q
  <2>2. Sent(s \o p) = Sent(s) + Sent(p)
    BY SentAdds
  <2>. QED
    BY <1>5, <2>1, <2>2
<1>. QED
  BY <1>1, <1>2, <1>5, <1>6 DEF a, q

\* Blocks in turn are in turn once.
LEMMA TurnsOnceIfInTurn == \A s : InTurn(s) => TurnsOnce(s)
BY DEF InTurn, TurnsOnce

-----------------------------------------------------------------------------
(* The conversion of one chunk.                                             *)

Conversions == [count : Nat, last : {"none", "thinking", "text", "tools"}, index : Nat,
                done : BOOLEAN, usage : BOOLEAN]

\* A conversion under way, with the message it has sent: the block it goes on with is open.
Telling(c, s) ==
    /\ c \in Conversions /\ ~c.done /\ UnderWay(s)
    /\ c.last \in {"thinking", "text"} => IsOpen(s, c.index)

\* Without tools, the blocks before the one it goes on with have been stopped.
Turn(c, s) ==
    /\ InTurn(s) /\ c.last # "tools"
    /\ c.last = "none" => c.index = 0 /\ \A i : ~Begun(s, i)
    /\ c.last = "thinking" => c.index = 0 /\ \A i : Begun(s, i) => i = 0

\* What is open has begun.
LEMMA OpenBegun == \A s, i : IsOpen(s, i) => Begun(s, i)
BY DEF IsOpen, Begun

\* What a piece of text does: c and s become d and t, with the events e.
TextTold(c, s, e, d, t) ==
    /\ e \in Seq(Events)
    /\ Telling(d, t) /\ Kept(s, t) /\ Sent(t) = Sent(s) + 1
    /\ d.count = c.count /\ d.usage = c.usage /\ d.last = "text"
    /\ Turn(c, s) => Turn(d, t)

\* A piece of text: closes what is not text, opens a block, and goes out.
LEMMA TextStep ==
    ASSUME NEW c, NEW s, Telling(c, s), NEW d, d = Text(c).conv, NEW t, t = s \o Text(c).events
    PROVE  TextTold(c, s, Text(c).events, d, t)
<1> DEFINE i == c.index
           j == TextIndex(c)
<1>1. c \in Conversions /\ ~c.done /\ UnderWay(s) /\ s \in Seq(Events) /\ i \in Nat
  BY DEF Telling, Conversions, UnderWay
<1>2. j \in Nat
  BY <1>1 DEF TextIndex
<1>3. /\ d \in Conversions /\ ~d.done /\ d.index = j
      /\ d.count = c.count /\ d.usage = c.usage /\ d.last = "text"
  BY <1>1, <1>2 DEF Text, Conversions
<1>4. Stop(i) \in Events /\ Start(j) \in Events /\ Delta(j) \in Events
  BY <1>1, <1>2, Kinds
<1>5. CASE c.last \in {"thinking", "tools"}
  <2>1. Text(c).events = (<<Stop(i)>> \o <<Start(j)>>) \o <<Delta(j)>>
    BY <1>5 DEF Text
  <2>2. j = i + 1
    BY <1>5 DEF TextIndex
  <2> HIDE DEF i, j
  <2>3. <<Stop(i)>> \in Seq(Events) /\ <<Start(j)>> \in Seq(Events) /\ <<Delta(j)>> \in Seq(Events)
    BY <1>4
  <2> DEFINE a == Append(s, Stop(i))
             b == Append(a, Start(j))
  <2>4. UnderWay(a) /\ Kept(s, a) /\ Sent(a) = Sent(s) /\ (\A k : IsOpen(a, k) <=> k # i /\ IsOpen(s, k))
        /\ (\A k : Begun(a, k) <=> Begun(s, k)) /\ (InTurn(s) => InTurn(a))
    BY <1>1, BlockStops
  <2> HIDE DEF a
  <2>5. UnderWay(b) /\ Kept(a, b) /\ Sent(b) = Sent(a) /\ (\A k : IsOpen(b, k) <=> k = j \/ IsOpen(a, k))
        /\ (InTurn(a) /\ ~Begun(a, j) /\ (\A k : ~IsOpen(a, k)) => InTurn(b))
    BY <1>2, <2>4, BlockStarts
  <2>6. a \in Seq(Events) /\ b \in Seq(Events)
    BY <2>4, <2>5 DEF UnderWay
  <2> HIDE DEF b
  <2>7. t = Append(b, Delta(j))
    <3>1. t = ((s \o <<Stop(i)>>) \o <<Start(j)>>) \o <<Delta(j)>>
      BY <1>1, <2>1, <2>3, Parts
    <3>2. s \o <<Stop(i)>> = a
      BY <1>1, <1>4, Chained DEF a
    <3>3. a \o <<Start(j)>> = b
      BY <1>4, <2>6, Chained DEF b
    <3>4. b \o <<Delta(j)>> = Append(b, Delta(j))
      BY <1>4, <2>6, Chained
    <3>. QED
      BY <3>1, <3>2, <3>3, <3>4
  <2>8. UnderWay(t) /\ Kept(b, t) /\ Sent(t) = Sent(b) + 1 /\ IsOpen(t, j) /\ (InTurn(b) => InTurn(t))
    BY <1>2, <2>5, <2>7, BlockGrows
  <2>9. Telling(d, t) /\ Kept(s, t) /\ Sent(t) = Sent(s) + 1
    BY <1>3, <2>4, <2>5, <2>8 DEF Telling, Kept, j
  <2>10. Turn(c, s) => Turn(d, t)
    <3> SUFFICES ASSUME Turn(c, s) PROVE InTurn(t)
      BY <1>3 DEF Turn
    <3>1. i = 0 /\ \A k : Begun(s, k) => k = 0
      BY <1>5 DEF Turn, i
    <3>2. (\A k : ~IsOpen(a, k)) /\ ~Begun(a, j)
      BY <2>2, <2>4, <3>1, OpenBegun
    <3>. QED
      BY <2>4, <2>5, <2>8, <3>2 DEF Turn
  <2>11. Text(c).events \in Seq(Events)
    BY <1>1, <2>1, <2>3, Parts
  <2>. QED
    BY <1>3, <2>9, <2>10, <2>11 DEF TextTold
<1>6. CASE c.last = "none"
  <2>1. Text(c).events = (<< >> \o <<Start(j)>>) \o <<Delta(j)>> /\ j = i
    BY <1>6 DEF Text, TextIndex
  <2> HIDE DEF i, j
  <2>3. << >> \in Seq(Events) /\ <<Start(j)>> \in Seq(Events) /\ <<Delta(j)>> \in Seq(Events)
    BY <1>4
  <2> DEFINE b == Append(s, Start(j))
  <2>5. UnderWay(b) /\ Kept(s, b) /\ Sent(b) = Sent(s) /\ (\A k : IsOpen(b, k) <=> k = j \/ IsOpen(s, k))
        /\ (InTurn(s) /\ ~Begun(s, j) /\ (\A k : ~IsOpen(s, k)) => InTurn(b))
    BY <1>1, <1>2, BlockStarts
  <2>6. b \in Seq(Events)
    BY <2>5 DEF UnderWay
  <2> HIDE DEF b
  <2>7. t = Append(b, Delta(j))
    <3>1. t = ((s \o << >>) \o <<Start(j)>>) \o <<Delta(j)>>
      BY <1>1, <2>1, <2>3, Parts
    <3>2. s \o << >> = s /\ s \o <<Start(j)>> = b
      BY <1>1, <1>4, Chained DEF b
    <3>3. b \o <<Delta(j)>> = Append(b, Delta(j))
      BY <1>4, <2>6, Chained
    <3>. QED
      BY <3>1, <3>2, <3>3
  <2>8. UnderWay(t) /\ Kept(b, t) /\ Sent(t) = Sent(b) + 1 /\ IsOpen(t, j) /\ (InTurn(b) => InTurn(t))
    BY <1>2, <2>5, <2>7, BlockGrows
  <2>9. Telling(d, t) /\ Kept(s, t) /\ Sent(t) = Sent(s) + 1
    BY <1>3, <2>5, <2>8 DEF Telling, Kept, j
  <2>10. Turn(c, s) => Turn(d, t)
    <3> SUFFICES ASSUME Turn(c, s) PROVE InTurn(t)
      BY <1>3 DEF Turn
    <3>1. \A k : ~Begun(s, k)
      BY <1>6 DEF Turn
    <3>2. \A k : ~IsOpen(s, k)
      BY <3>1, OpenBegun
    <3>. QED
      BY <2>5, <2>8, <3>1, <3>2 DEF Turn
  <2>11. Text(c).events \in Seq(Events)
    BY <1>1, <2>1, <2>3, Parts
  <2>. QED
    BY <1>3, <2>9, <2>10, <2>11 DEF TextTold
<1>7. CASE c.last = "text"
  <2>1. Text(c).events = (<< >> \o << >>) \o <<Delta(j)>> /\ j = i
    BY <1>7 DEF Text, TextIndex
  <2>2. IsOpen(s, j)
    BY <1>7, <2>1 DEF Telling
  <2> HIDE DEF i, j
  <2>3. << >> \in Seq(Events) /\ <<Delta(j)>> \in Seq(Events)
    BY <1>4
  <2>4. t = Append(s, Delta(j))
    <3>1. t = ((s \o << >>) \o << >>) \o <<Delta(j)>>
      BY <1>1, <2>1, <2>3, Parts
    <3>2. s \o << >> = s /\ s \o <<Delta(j)>> = Append(s, Delta(j))
      BY <1>1, <1>4, Chained
    <3>. QED
      BY <3>1, <3>2
  <2>5. UnderWay(t) /\ Kept(s, t) /\ Sent(t) = Sent(s) + 1 /\ IsOpen(t, j) /\ (InTurn(s) => InTurn(t))
    BY <1>1, <1>2, <2>2, <2>4, BlockGrows
  <2>6. Text(c).events \in Seq(Events)
    BY <1>1, <2>1, <2>3, Parts
  <2>. QED
    BY <1>3, <2>5, <2>6 DEF Telling, Turn, j, TextTold
<1>. QED
  BY <1>1, <1>5, <1>6, <1>7 DEF Conversions

\* What a piece of thinking does.
ThinkTold(c, s, e, d, t) ==
    /\ e \in Seq(Events)
    /\ Telling(d, t) /\ Kept(s, t) /\ Sent(t) = Sent(s) + 1
    /\ d.count = c.count /\ d.usage = c.usage /\ d.last = "thinking"
    /\ Turn(c, s) /\ c.last # "text" => Turn(d, t)

\* A piece of thinking: opens a block unless one is open, and goes out.
LEMMA ThinkStep ==
    ASSUME NEW c, NEW s, Telling(c, s), NEW d, d = Think(c).conv, NEW t, t = s \o Think(c).events
    PROVE  ThinkTold(c, s, Think(c).events, d, t)
<1> DEFINE i == c.index
<1>1. c \in Conversions /\ ~c.done /\ UnderWay(s) /\ s \in Seq(Events) /\ i \in Nat
  BY DEF Telling, Conversions, UnderWay
<1>2. /\ d \in Conversions /\ ~d.done /\ d.index = i
      /\ d.count = c.count /\ d.usage = c.usage /\ d.last = "thinking"
  BY <1>1 DEF Think, Conversions
<1>3. Start(i) \in Events /\ Delta(i) \in Events
  BY <1>1, Kinds
<1>4. << >> \in Seq(Events) /\ <<Start(i)>> \in Seq(Events) /\ <<Delta(i)>> \in Seq(Events)
  BY <1>3
<1>5. CASE c.last # "thinking"
  <2>1. Think(c).events = <<Start(i)>> \o <<Delta(i)>>
    BY <1>5 DEF Think
  <2> HIDE DEF i
  <2> DEFINE b == Append(s, Start(i))
  <2>2. UnderWay(b) /\ Kept(s, b) /\ Sent(b) = Sent(s) /\ (\A k : IsOpen(b, k) <=> k = i \/ IsOpen(s, k))
        /\ (\A k : Begun(b, k) <=> k = i \/ Begun(s, k))
        /\ (InTurn(s) /\ ~Begun(s, i) /\ (\A k : ~IsOpen(s, k)) => InTurn(b))
    BY <1>1, BlockStarts
  <2>3. b \in Seq(Events)
    BY <2>2 DEF UnderWay
  <2> HIDE DEF b
  <2>4. t = Append(b, Delta(i))
    <3>1. t = (s \o <<Start(i)>>) \o <<Delta(i)>>
      BY <1>1, <1>4, <2>1, Parts
    <3>2. s \o <<Start(i)>> = b
      BY <1>1, <1>3, Chained DEF b
    <3>3. b \o <<Delta(i)>> = Append(b, Delta(i))
      BY <1>3, <2>3, Chained
    <3>. QED
      BY <3>1, <3>2, <3>3
  <2>5. UnderWay(t) /\ Kept(b, t) /\ Sent(t) = Sent(b) + 1 /\ IsOpen(t, i) /\ (InTurn(b) => InTurn(t))
        /\ (\A k : Begun(t, k) <=> Begun(b, k))
    BY <1>1, <2>2, <2>4, BlockGrows
  <2>6. Telling(d, t) /\ Kept(s, t) /\ Sent(t) = Sent(s) + 1
    BY <1>2, <2>2, <2>5 DEF Telling, Kept, i
  <2>7. ASSUME Turn(c, s), c.last # "text" PROVE Turn(d, t)
    <3>1. i = 0 /\ \A k : ~Begun(s, k)
      BY <1>1, <1>5, <2>7 DEF Turn, Conversions, i
    <3>2. \A k : ~IsOpen(s, k)
      BY <3>1, OpenBegun
    <3>. QED
      BY <1>2, <2>2, <2>5, <2>7, <3>1, <3>2 DEF Turn
  <2>8. Think(c).events \in Seq(Events)
    BY <1>1, <1>4, <2>1, Parts
  <2>. QED
    BY <1>2, <2>6, <2>7, <2>8 DEF ThinkTold
<1>6. CASE c.last = "thinking"
  <2>1. Think(c).events = << >> \o <<Delta(i)>>
    BY <1>6 DEF Think
  <2>2. IsOpen(s, i)
    BY <1>6 DEF Telling
  <2> HIDE DEF i
  <2>3. t = Append(s, Delta(i))
    <3>1. t = (s \o << >>) \o <<Delta(i)>>
      BY <1>1, <1>4, <2>1, Parts
    <3>2. s \o << >> = s /\ s \o <<Delta(i)>> = Append(s, Delta(i))
      BY <1>1, <1>3, Chained
    <3>. QED
      BY <3>1, <3>2
  <2>4. UnderWay(t) /\ Kept(s, t) /\ Sent(t) = Sent(s) + 1 /\ IsOpen(t, i) /\ (InTurn(s) => InTurn(t))
        /\ (\A k : Begun(t, k) <=> Begun(s, k))
    BY <1>1, <2>2, <2>3, BlockGrows
  <2>5. Telling(d, t) /\ (Turn(c, s) => Turn(d, t))
    BY <1>2, <1>6, <2>4 DEF Telling, Turn, i
  <2>6. Think(c).events \in Seq(Events)
    BY <1>1, <1>4, <2>1, Parts
  <2>. QED
    BY <1>2, <2>4, <2>5, <2>6 DEF ThinkTold
<1>. QED
  BY <1>5, <1>6

\* What a tool call does.
ToolTold(c, s, chunk, e, d, t) ==
    /\ e \in Seq(Events)
    /\ Telling(d, t) /\ Kept(s, t)
    /\ Sent(t) = IF chunk.kind = "args" THEN Sent(s) + 1 ELSE Sent(s)
    /\ d.count = c.count /\ d.usage = c.usage
    /\ d.last = "tools" /\ d.index = chunk.index /\ IsOpen(t, d.index)

\* A tool call: its name opens its block, its arguments go out in that block.
LEMMA ToolStep ==
    ASSUME NEW c, NEW s, Telling(c, s), NEW chunk \in Chunks, chunk.kind \in {"tool", "args"},
           chunk.kind = "args" => c.last = "tools" /\ IsOpen(s, chunk.index),
           NEW d, d = Tool(c, chunk).conv, NEW t, t = s \o Tool(c, chunk).events
    PROVE  ToolTold(c, s, chunk, Tool(c, chunk).events, d, t)
<1> DEFINE i == c.index
           j == chunk.index
<1>1. c \in Conversions /\ ~c.done /\ UnderWay(s) /\ s \in Seq(Events) /\ i \in Nat /\ j \in Nat
  BY DEF Telling, Conversions, UnderWay, Chunks
<1>2. /\ d \in Conversions /\ ~d.done /\ d.index = j
      /\ d.count = c.count /\ d.usage = c.usage /\ d.last = "tools"
  BY <1>1 DEF Tool, Conversions
<1>3. Stop(i) \in Events /\ Start(j) \in Events /\ Delta(j) \in Events
  BY <1>1, Kinds
<1>4. /\ << >> \in Seq(Events) /\ <<Stop(i)>> \in Seq(Events)
      /\ <<Start(j)>> \in Seq(Events) /\ <<Delta(j)>> \in Seq(Events)
  BY <1>3
<1>5. CASE chunk.kind = "tool" /\ c.last # "tools"
  <2>1. Tool(c, chunk).events = <<Stop(i)>> \o <<Start(j)>>
    BY <1>5 DEF Tool
  <2> HIDE DEF i, j
  <2> DEFINE a == Append(s, Stop(i))
  <2>2. UnderWay(a) /\ Kept(s, a) /\ Sent(a) = Sent(s)
    BY <1>1, BlockStops
  <2>3. a \in Seq(Events)
    BY <2>2 DEF UnderWay
  <2> HIDE DEF a
  <2>4. t = Append(a, Start(j))
    <3>1. t = (s \o <<Stop(i)>>) \o <<Start(j)>>
      BY <1>1, <1>4, <2>1, Parts
    <3>2. s \o <<Stop(i)>> = a
      BY <1>1, <1>3, Chained DEF a
    <3>3. a \o <<Start(j)>> = Append(a, Start(j))
      BY <1>3, <2>3, Chained
    <3>. QED
      BY <3>1, <3>2, <3>3
  <2>5. UnderWay(t) /\ Kept(a, t) /\ Sent(t) = Sent(a) /\ IsOpen(t, j)
    BY <1>1, <2>2, <2>4, BlockStarts
  <2>6. Tool(c, chunk).events \in Seq(Events)
    BY <1>1, <1>4, <2>1, Parts
  <2>. QED
    BY <1>2, <1>5, <2>2, <2>5, <2>6 DEF Telling, Kept, j, ToolTold
<1>6. CASE chunk.kind = "tool" /\ c.last = "tools"
  <2>1. Tool(c, chunk).events = << >> \o <<Start(j)>>
    BY <1>6 DEF Tool
  <2> HIDE DEF i, j
  <2>2. t = Append(s, Start(j))
    <3>1. t = (s \o << >>) \o <<Start(j)>>
      BY <1>1, <1>4, <2>1, Parts
    <3>2. s \o << >> = s /\ s \o <<Start(j)>> = Append(s, Start(j))
      BY <1>1, <1>3, Chained
    <3>. QED
      BY <3>1, <3>2
  <2>3. UnderWay(t) /\ Kept(s, t) /\ Sent(t) = Sent(s) /\ IsOpen(t, j)
    BY <1>1, <2>2, BlockStarts
  <2>4. Tool(c, chunk).events \in Seq(Events)
    BY <1>1, <1>4, <2>1, Parts
  <2>. QED
    BY <1>2, <1>6, <2>3, <2>4 DEF Telling, j, ToolTold
<1>7. CASE chunk.kind = "args"
  <2>1. Tool(c, chunk).events = << >> \o <<Delta(j)>> /\ IsOpen(s, j)
    BY <1>7 DEF Tool
  <2> HIDE DEF i, j
  <2>2. t = Append(s, Delta(j))
    <3>1. t = (s \o << >>) \o <<Delta(j)>>
      BY <1>1, <1>4, <2>1, Parts
    <3>2. s \o << >> = s /\ s \o <<Delta(j)>> = Append(s, Delta(j))
      BY <1>1, <1>3, Chained
    <3>. QED
      BY <3>1, <3>2
  <2>3. UnderWay(t) /\ Kept(s, t) /\ Sent(t) = Sent(s) + 1 /\ IsOpen(t, j)
    BY <1>1, <2>1, <2>2, BlockGrows
  <2>4. Tool(c, chunk).events \in Seq(Events)
    BY <1>1, <1>4, <2>1, Parts
  <2>. QED
    BY <1>2, <1>7, <2>3, <2>4 DEF Telling, j, ToolTold
<1>. QED
  BY <1>5, <1>6, <1>7

\* What the first chunk does.
FirstTold(c, s, chunk, e, d, t) ==
    /\ e \in Seq(Events)
    /\ Telling(d, t)
    /\ s = << >> => Headed(t)
    /\ Sent(t) = IF chunk.kind \in {"think", "text", "args"} THEN Sent(s) + 1 ELSE Sent(s)
    /\ d.count = c.count /\ d.usage = c.usage /\ d.index = c.index
    /\ d.last = IF chunk.kind \in {"role", "none"} THEN c.last ELSE Holds(chunk.kind)
    /\ chunk.kind \in {"tool", "args"} => IsOpen(t, 0)
    /\ chunk.kind \notin {"tool", "args"} /\ c.last = "none" /\ Turn(c, s) => Turn(d, t)

\* The first chunk begins the message, and with it may come its first piece.
LEMMA FirstStep ==
    ASSUME NEW c, NEW s, Telling(c, s), NEW chunk \in Chunks, chunk.kind = "args" => c.index = 0,
           NEW d, d = First(c, chunk).conv, NEW t, t = s \o First(c, chunk).events
    PROVE  FirstTold(c, s, chunk, First(c, chunk).events, d, t)
<1> DEFINE i == c.index
           h == <<"message_start">>
           a == Append(s, h)
<1>1. c \in Conversions /\ ~c.done /\ UnderWay(s) /\ s \in Seq(Events) /\ i \in Nat
  BY DEF Telling, Conversions, UnderWay
<1>2. /\ d \in Conversions /\ ~d.done /\ d.index = i /\ d.count = c.count /\ d.usage = c.usage
      /\ d.last = IF chunk.kind \in {"role", "none"} THEN c.last ELSE Holds(chunk.kind)
  BY <1>1 DEF First, Holds, Conversions, Chunks
<1>3. h \in Events /\ Start(i) \in Events /\ Delta(i) \in Events /\ Start(0) \in Events
  BY <1>1, Kinds
<1>4. /\ UnderWay(a) /\ Sent(a) = Sent(s)
      /\ s = << >> => Headed(a)
      /\ \A j : IsOpen(a, j) <=> IsOpen(s, j)
      /\ \A j : Begun(a, j) <=> Begun(s, j)
      /\ InTurn(s) => InTurn(a)
  BY <1>1, MessageStarts
<1>5. a \in Seq(Events)
  BY <1>4 DEF UnderWay
<1> HIDE DEF h
<1>6. /\ <<h>> \in Seq(Events) /\ << >> \in Seq(Events) /\ <<Start(i), Delta(i)>> \in Seq(Events)
      /\ <<Start(0)>> \in Seq(Events) /\ <<Start(0), Delta(i)>> \in Seq(Events)
  BY <1>3
<1>7. s \o <<h>> = a
  BY <1>1, <1>3, Chained
<1> HIDE DEF a
\* In every case the message starts, and what comes with it goes on from there.
<1>8. CASE chunk.kind \in {"role", "none"}
  <2>1. First(c, chunk).events = <<h>> \o << >>
    BY <1>8 DEF First, h
  <2>2. t = a
    <3>1. t = (s \o <<h>>) \o << >>
      BY <1>1, <1>6, <2>1, Parts
    <3>2. a \o << >> = a
      BY <1>3, <1>5, Chained
    <3>. QED
      BY <1>7, <3>1, <3>2
  <2>3. First(c, chunk).events \in Seq(Events)
    BY <1>1, <1>6, <2>1, Parts
  <2>4. Telling(d, t)
    BY <1>2, <1>4, <1>8, <2>2 DEF Telling, i
  <2>5. Turn(c, s) => Turn(d, t)
    BY <1>2, <1>4, <1>8, <2>2 DEF Turn, i
  <2>. QED
    BY <1>2, <1>4, <1>8, <2>2, <2>3, <2>4, <2>5 DEF FirstTold
<1>9. CASE chunk.kind \in {"think", "text"}
  <2>1. First(c, chunk).events = <<h>> \o <<Start(i), Delta(i)>>
    BY <1>9 DEF First, h
  <2> HIDE DEF i
  <2> DEFINE b == Append(a, Start(i))
  <2>2. /\ UnderWay(b) /\ Kept(a, b) /\ Sent(b) = Sent(a) /\ (\A k : IsOpen(b, k) <=> k = i \/ IsOpen(a, k))
        /\ \A k : Begun(b, k) <=> k = i \/ Begun(a, k)
        /\ InTurn(a) /\ ~Begun(a, i) /\ (\A k : ~IsOpen(a, k)) => InTurn(b)
    BY <1>1, <1>4, BlockStarts
  <2>3. b \in Seq(Events)
    BY <2>2 DEF UnderWay
  <2>4. t = Append(b, Delta(i))
    <3>1. t = (s \o <<h>>) \o <<Start(i), Delta(i)>>
      BY <1>1, <1>6, <2>1, Parts
    <3>2. a \o <<Start(i), Delta(i)>> = Append(b, Delta(i))
      BY <1>3, <1>5, Chained
    <3>. QED
      BY <1>7, <3>1, <3>2
  <2> HIDE DEF b
  <2>5. /\ UnderWay(t) /\ Kept(b, t) /\ Sent(t) = Sent(b) + 1 /\ IsOpen(t, i)
        /\ \A k : Begun(t, k) <=> Begun(b, k)
        /\ InTurn(b) => InTurn(t)
    BY <1>1, <2>2, <2>4, BlockGrows
  <2>6. First(c, chunk).events \in Seq(Events)
    BY <1>1, <1>6, <2>1, Parts
  <2>7. Telling(d, t)
    BY <1>2, <2>5 DEF Telling
  <2>8. ASSUME c.last = "none", Turn(c, s) PROVE Turn(d, t)
    <3>1. i = 0 /\ \A k : ~Begun(s, k)
      BY <2>8 DEF Turn, i
    <3>2. \A k : ~IsOpen(s, k)
      BY <3>1, OpenBegun
    <3>3. d.last \in {"thinking", "text"}
      BY <1>2, <1>9 DEF Holds
    <3>. QED
      BY <1>2, <1>4, <2>2, <2>5, <2>8, <3>1, <3>2, <3>3 DEF Turn
  <2>. QED
    BY <1>2, <1>4, <1>9, <2>2, <2>5, <2>6, <2>7, <2>8 DEF Kept, i, FirstTold
<1>10. CASE chunk.kind = "tool"
  <2>1. First(c, chunk).events = <<h>> \o <<Start(0)>>
    BY <1>10 DEF First, h
  <2>2. t = Append(a, Start(0))
    <3>1. t = (s \o <<h>>) \o <<Start(0)>>
      BY <1>1, <1>6, <2>1, Parts
    <3>2. a \o <<Start(0)>> = Append(a, Start(0))
      BY <1>3, <1>5, Chained
    <3>. QED
      BY <1>7, <3>1, <3>2
  <2>3. UnderWay(t) /\ Kept(a, t) /\ Sent(t) = Sent(a) /\ IsOpen(t, 0)
    BY <1>4, <2>2, BlockStarts
  <2>4. First(c, chunk).events \in Seq(Events)
    BY <1>1, <1>6, <2>1, Parts
  <2>5. Telling(d, t)
    BY <1>2, <1>10, <2>3 DEF Telling, Holds
  <2>. QED
    BY <1>2, <1>4, <1>10, <2>3, <2>4, <2>5 DEF Kept, i, FirstTold
<1>11. CASE chunk.kind = "args"
  <2>1. First(c, chunk).events = <<h>> \o <<Start(0), Delta(i)>> /\ i = 0
    BY <1>11 DEF First, h
  <2> HIDE DEF i
  <2> DEFINE b == Append(a, Start(0))
  <2>2. UnderWay(b) /\ Kept(a, b) /\ Sent(b) = Sent(a) /\ IsOpen(b, 0)
    BY <1>4, BlockStarts
  <2>3. b \in Seq(Events)
    BY <2>2 DEF UnderWay
  <2>4. t = Append(b, Delta(i))
    <3>1. t = (s \o <<h>>) \o <<Start(0), Delta(i)>>
      BY <1>1, <1>6, <2>1, Parts
    <3>2. a \o <<Start(0), Delta(i)>> = Append(b, Delta(i))
      BY <1>3, <1>5, Chained
    <3>. QED
      BY <1>7, <3>1, <3>2
  <2> HIDE DEF b
  <2>5. UnderWay(t) /\ Kept(b, t) /\ Sent(t) = Sent(b) + 1 /\ IsOpen(t, 0)
    <3>1. UnderWay(b) /\ IsOpen(b, i)
      BY <2>1, <2>2
    <3>2. UnderWay(t) /\ Kept(b, t) /\ Sent(t) = Sent(b) + 1 /\ IsOpen(t, i)
      BY <1>1, <2>4, <3>1, BlockGrows
    <3>. QED
      BY <2>1, <3>2
  <2>6. First(c, chunk).events \in Seq(Events)
    BY <1>1, <1>6, <2>1, Parts
  <2>7. Telling(d, t)
    BY <1>2, <1>11, <2>5 DEF Telling, Holds
  <2>. QED
    BY <1>2, <1>4, <1>11, <2>1, <2>2, <2>5, <2>6, <2>7 DEF Kept, i, FirstTold
<1>. QED
  BY <1>8, <1>9, <1>10, <1>11 DEF Chunks

\* Concatenation, for reasoning about the order of the parts alone.
Join(u, v) == u \o v

\* Parts may be put together in any order.
LEMMA JoinRegroups ==
    ASSUME NEW u \in Seq(Events), NEW v \in Seq(Events), NEW w \in Seq(Events)
    PROVE  Join(u, v) \in Seq(Events) /\ Join(u, Join(v, w)) = Join(Join(u, v), w)
BY ConcatAssociative, ConcatProperties DEF Join

\* Four parts put together are four parts put one after the other.
LEMMA FourParts ==
    ASSUME NEW s \in Seq(Events), NEW E \in Seq(Events), NEW P \in Seq(Events), NEW M \in Seq(Events),
           NEW Z \in Seq(Events)
    PROVE  Join(s, Join(Join(Join(E, P), M), Z)) = Join(Join(Join(Join(s, E), P), M), Z)
<1> DEFINE A == Join(E, P)
           D == Join(A, M)
<1>1. A \in Seq(Events)
  BY JoinRegroups
<1>2. D \in Seq(Events)
  BY <1>1, JoinRegroups
<1>3. Join(s, A) = Join(Join(s, E), P)
  BY JoinRegroups
<1> HIDE DEF A
<1>4. Join(s, D) = Join(Join(s, A), M)
  BY <1>1, JoinRegroups
<1> HIDE DEF D
<1>5. Join(s, Join(D, Z)) = Join(Join(s, D), Z)
  BY <1>2, JoinRegroups
<1>. QED
  BY <1>3, <1>4, <1>5 DEF A, D

\* What a finish_reason does: the message s becomes t.
Ended(r, s, usage, d, t) ==
    /\ d = [r.conv EXCEPT !.done = TRUE]
    /\ t \in Seq(Events) /\ DeltasOpen(t) /\ Over(t) /\ StopIsLast(t)
    /\ Kept(s, t) /\ Sent(t) = Sent(s)
    /\ usage \/ r.conv.usage => Len(t) > 1 /\ t[Len(t) - 1][1] = "message_delta"
    /\ InTurn(s) => InTurn(t)

\* What a finish_reason adds to the events of its chunk.
LEMMA EndingStep ==
    ASSUME NEW s0 \in Seq(Events), NEW r, r.events \in Seq(Events), NEW chunk \in Chunks, chunk.finish,
           NEW s, s = s0 \o r.events, Telling(r.conv, s),
           NEW t, t = s0 \o Ending(r, chunk).events
    PROVE  Ended(r, s, chunk.usage, Ending(r, chunk).conv, t)
<1> DEFINE i == r.conv.index
           m == <<"message_delta">>
           z == <<"message_stop">>
           a == Append(s, Stop(i))
           M == IF chunk.usage \/ r.conv.usage THEN <<m>> ELSE << >>
<1>1. UnderWay(s) /\ s \in Seq(Events) /\ i \in Nat
  BY DEF Telling, Conversions, UnderWay
<1>2. m \in Events /\ z \in Events /\ Stop(i) \in Events
  BY <1>1, Kinds
<1>3. Ending(r, chunk).events = ((r.events \o <<Stop(i)>>) \o M) \o <<z>>
  BY DEF Ending
<1>4. Ending(r, chunk).conv = [r.conv EXCEPT !.done = TRUE]
  BY DEF Ending
<1> HIDE DEF i
<1>5. UnderWay(a) /\ Kept(s, a) /\ Sent(a) = Sent(s) /\ (InTurn(s) => InTurn(a))
  BY <1>1, BlockStops
<1>6. a \in Seq(Events)
  BY <1>5 DEF UnderWay
<1> DEFINE b == IF chunk.usage \/ r.conv.usage THEN Append(a, m) ELSE a
<1>7. /\ UnderWay(b) /\ Kept(a, b) /\ Sent(b) = Sent(a) /\ (InTurn(a) => InTurn(b))
      /\ chunk.usage \/ r.conv.usage => b # << >> /\ b[Len(b)][1] = "message_delta"
  BY <1>5, MessageUsage DEF Kept
<1>8. b \in Seq(Events)
  BY <1>7 DEF UnderWay
<1> HIDE DEF m, z
<1>9. <<Stop(i)>> \in Seq(Events) /\ M \in Seq(Events) /\ <<z>> \in Seq(Events)
  BY <1>2
<1>10. a \o M = b
  BY <1>2, <1>6, Chained
<1> HIDE DEF M
<1>11. t = Append(b, z)
  <2> DEFINE P == <<Stop(i)>>
             Z == <<z>>
             E == r.events
             A == E \o P
  <2>1. P \in Seq(Events) /\ Z \in Seq(Events) /\ s \o P = a /\ b \o Z = Append(b, z)
    BY <1>1, <1>2, <1>8, <1>9, Chained
  <2>2. Ending(r, chunk).events = (A \o M) \o Z
    BY <1>3
  <2>3. E \in Seq(Events) /\ s = s0 \o E /\ M \in Seq(Events)
    BY <1>9
  <2> HIDE DEF P, Z, E, a, b
  <2>4. t = Join(s0, Join(Join(Join(E, P), M), Z))
    BY <2>2 DEF A, Join
  <2>5. s = Join(s0, E) /\ a = Join(s, P) /\ b = Join(a, M) /\ Append(b, z) = Join(b, Z)
    BY <1>10, <2>1, <2>3 DEF Join
  <2>. QED
    BY <2>1, <2>3, <2>4, <2>5, FourParts
<1> HIDE DEF a, b
<1>12. /\ t \in Seq(Events) /\ DeltasOpen(t) /\ Over(t) /\ StopIsLast(t)
       /\ Kept(b, t) /\ Sent(t) = Sent(b)
       /\ Len(t) = Len(b) + 1 /\ (b # << >> => t[Len(t) - 1] = b[Len(b)])
       /\ InTurn(b) => InTurn(t)
  BY <1>7, <1>11, MessageStops DEF z
<1>13. b # << >> => Len(b) > 0
  BY <1>8
<1>. QED
  BY <1>4, <1>5, <1>7, <1>8, <1>12, <1>13 DEF Kept, Ended

-----------------------------------------------------------------------------
(* The conversion of a stream, chunk by chunk.                              *)

IsPiece(chunk) == chunk.kind \in {"think", "text", "args"}
PiecesUpTo(u, k) == Cardinality({i \in 1..k : IsPiece(u[i])})
OrderlyOne(u) ==
    /\ \A i \in DOMAIN u : u[i].kind \notin {"tool", "args"}
    /\ \A i, j \in DOMAIN u : i < j /\ u[i].kind = "text" => u[j].kind # "think"

\* The pieces of a stream are counted chunk by chunk.
LEMMA PiecesCounted ==
    ASSUME NEW u, NEW k \in Nat
    PROVE  /\ PiecesUpTo(u, 0) = 0 /\ PiecesUpTo(u, k) \in Nat
           /\ PiecesUpTo(u, k + 1) = IF IsPiece(u[k + 1]) THEN PiecesUpTo(u, k) + 1 ELSE PiecesUpTo(u, k)
           /\ \A n \in 0..k : PiecesUpTo(u, n) <= PiecesUpTo(u, k)
<1> DEFINE P(n) == {i \in 1..n : IsPiece(u[i])}
<1>1. IsFiniteSet(1..k)
  BY FS_Interval
<1>2. IsFiniteSet(P(k))
  BY <1>1, FS_Subset
<1>3. P(0) = {}
  OBVIOUS
<1>4. k + 1 \notin P(k)
  OBVIOUS
<1>5. Cardinality(P(k) \cup {k + 1}) = Cardinality(P(k)) + 1
  BY <1>2, <1>4, FS_AddElement
<1>6. 1..(k + 1) = (1..k) \cup {k + 1}
  OBVIOUS
<1>7. P(k + 1) = IF IsPiece(u[k + 1]) THEN P(k) \cup {k + 1} ELSE P(k)
  BY <1>6
<1>8. ASSUME NEW n \in 0..k PROVE PiecesUpTo(u, n) <= PiecesUpTo(u, k)
  <2>1. P(n) \subseteq P(k)
    OBVIOUS
  <2>. QED
    BY <1>2, <2>1, FS_Subset DEF PiecesUpTo
<1>9. Cardinality({}) = 0
  BY FS_EmptySet
<1>. QED
  BY <1>2, <1>3, <1>5, <1>7, <1>8, <1>9, FS_CardinalityType DEF PiecesUpTo

\* What a chunk does that is not the first.
LaterTold(c, s, chunk, r, t) ==
    /\ r.events \in Seq(Events)
    /\ Telling(r.conv, t) /\ Kept(s, t)
    /\ Sent(t) = IF IsPiece(chunk) THEN Sent(s) + 1 ELSE Sent(s)
    /\ r.conv.count = c.count /\ r.conv.usage = c.usage
    /\ chunk.kind \in {"tool", "args"} =>
          r.conv.last = "tools" /\ r.conv.index = chunk.index /\ IsOpen(t, r.conv.index)
    /\ r.conv.last = "text" => chunk.kind = "text" \/ c.last = "text"
    /\ chunk.kind \notin {"tool", "args"} /\ (chunk.kind = "think" => c.last # "text") /\ Turn(c, s)
          => Turn(r.conv, t)

\* Any chunk but the first the client is sent.
LEMMA LaterStep ==
    ASSUME NEW c, NEW s, Telling(c, s), c.count # 1, NEW chunk \in Chunks,
           chunk.kind = "args" => c.last = "tools" /\ IsOpen(s, chunk.index),
           NEW r, r = Contents(c, chunk), NEW t, t = s \o r.events
    PROVE  LaterTold(c, s, chunk, r, t)
<1>1. CASE chunk.kind \in {"tool", "args"}
  <2>1. r = Tool(c, chunk)
    BY <1>1 DEF Contents
  <2> DEFINE d == r.conv
  <2>2. d = Tool(c, chunk).conv /\ t = s \o Tool(c, chunk).events
    BY <2>1
  <2> HIDE DEF d
  <2>3. ToolTold(c, s, chunk, Tool(c, chunk).events, d, t)
    BY <1>1, <2>2, ToolStep
  <2>. QED
    BY <1>1, <2>1, <2>3 DEF IsPiece, d, ToolTold, LaterTold
<1>2. CASE chunk.kind = "think"
  <2>1. r = Think(c)
    BY <1>2 DEF Contents
  <2> DEFINE d == r.conv
  <2>2. d = Think(c).conv /\ t = s \o Think(c).events
    BY <2>1
  <2> HIDE DEF d
  <2>3. ThinkTold(c, s, Think(c).events, d, t)
    BY <1>2, <2>2, ThinkStep
  <2>. QED
    BY <1>2, <2>1, <2>3 DEF IsPiece, d, ThinkTold, LaterTold
<1>3. CASE chunk.kind = "text"
  <2>1. r = Text(c)
    BY <1>3 DEF Contents
  <2> DEFINE d == r.conv
  <2>2. d = Text(c).conv /\ t = s \o Text(c).events
    BY <2>1
  <2> HIDE DEF d
  <2>3. TextTold(c, s, Text(c).events, d, t)
    BY <1>3, <2>2, TextStep
  <2>. QED
    BY <1>3, <2>1, <2>3 DEF IsPiece, d, TextTold, LaterTold
<1>4. CASE chunk.kind \in {"role", "none"}
  <2>1. r.conv = c /\ r.events = << >>
    BY <1>4 DEF Contents
  <2>2. s \in Seq(Events)
    BY DEF Telling, UnderWay
  <2>3. t = s
    BY <2>1, <2>2, Chained, Kinds
  <2>4. r.events \in Seq(Events)
    BY <2>1
  <2>. QED
    BY <1>4, <2>1, <2>3, <2>4 DEF IsPiece, Kept, LaterTold
<1>. QED
  BY <1>1, <1>2, <1>3, <1>4 DEF Chunks

\* After k chunks of the stream u have been converted, s is sent.
Before(u, c, s, k) ==
    /\ c \in Conversions /\ c.count = k
    /\ s \in Seq(Events) /\ DeltasOpen(s) /\ StopIsLast(s)
    /\ Sent(s) = PiecesUpTo(u, k)
    /\ OrderlyOne(u) => InTurn(s)
    /\ k = 0 => s = << >> /\ ~c.done
    /\ k > 0 => Headed(s)
    /\ c.done <=> \E i \in 1..k : u[i].finish
    /\ c.done => Over(s)
    /\ ~c.done => /\ Telling(c, s)
                  /\ k = 0 => c.last = "none"
                  /\ k < 2 => c.index = 0
                  /\ k > 0 /\ u[k].kind \in {"tool", "args"} =>
                        c.last = "tools" /\ c.index = u[k].index /\ IsOpen(s, c.index)
                  /\ OrderlyOne(u) => Turn(c, s)
                  /\ c.last = "text" => \E i \in 1..k : u[i].kind = "text"

\* What the assumption about the upstream says of a chunk.
LEMMA ChunkSent ==
    ASSUME NEW u \in CalmStreams \cup RoughStreams, NEW k \in Nat, k < Len(u)
    PROVE  /\ u \in Seq(Chunks) /\ DOMAIN u = 1..Len(u) /\ Len(u) \in Nat /\ k + 1 \in DOMAIN u
           /\ u[k + 1] \in Chunks
           /\ u[k + 1].kind = "args" => k > 0 /\ u[k].kind \in {"tool", "args"} /\ u[k].index = u[k + 1].index
           /\ k = 0 /\ u[1].kind = "tool" => u[1].index = 0
           /\ \A j \in 1..k : u[j].finish => j = k /\ u[k + 1].kind = "none" /\ ~u[k + 1].finish
           /\ u[k + 1].finish => \A j \in 1..Len(u) : j > k + 1 => j = k + 2 /\ u[j].kind = "none" /\ ~u[j].finish
           /\ OrderlyOne(u) => /\ u[k + 1].kind \notin {"tool", "args"}
                               /\ u[k + 1].kind = "think" => \A i \in 1..k : u[i].kind # "text"
<1>1. u \in Seq(Chunks)
  BY Upstreams
<1>2. DOMAIN u = 1..Len(u) /\ Len(u) \in Nat /\ k + 1 \in DOMAIN u /\ 1..k \subseteq DOMAIN u
  BY <1>1
<1>3. u[k + 1] \in Chunks
  BY <1>1, <1>2
<1>4. \A j \in DOMAIN u :
         /\ u[j].kind = "args" => j > 1 /\ u[j - 1].kind \in {"tool", "args"} /\ u[j - 1].index = u[j].index
         /\ j = 1 /\ u[j].kind = "tool" => u[j].index = 0
         /\ u[j].finish => \A i \in DOMAIN u : i > j => i = j + 1 /\ u[i].kind = "none" /\ ~u[i].finish
  BY Upstreams
<1>5. u[k + 1].kind = "args" => k > 0 /\ u[k].kind \in {"tool", "args"} /\ u[k].index = u[k + 1].index
  BY <1>2, <1>4
<1>6. \A j \in 1..k : u[j].finish => j = k /\ u[k + 1].kind = "none" /\ ~u[k + 1].finish
  BY <1>2, <1>4
<1>7. u[k + 1].finish => \A j \in 1..Len(u) : j > k + 1 => j = k + 2 /\ u[j].kind = "none" /\ ~u[j].finish
  BY <1>2, <1>4
<1>8. OrderlyOne(u) => /\ u[k + 1].kind \notin {"tool", "args"}
                       /\ u[k + 1].kind = "think" => \A i \in 1..k : u[i].kind # "text"
  BY <1>2 DEF OrderlyOne
<1>9. k = 0 /\ u[1].kind = "tool" => u[1].index = 0
  BY <1>2, <1>4
<1>. QED
  BY <1>1, <1>2, <1>3, <1>5, <1>6, <1>7, <1>8, <1>9

\* What has been sent when the contents of chunk k + 1 have gone out, before a finish_reason.
Told(u, k, q, x) ==
    /\ q.events \in Seq(Events) /\ Telling(q.conv, x) /\ q.conv.count = k + 1
    /\ Headed(x) /\ Sent(x) = PiecesUpTo(u, k + 1)
    /\ k = 0 => q.conv.index = 0
    /\ u[k + 1].kind \in {"tool", "args"} =>
          q.conv.last = "tools" /\ q.conv.index = u[k + 1].index /\ IsOpen(x, q.conv.index)
    /\ OrderlyOne(u) => Turn(q.conv, x)
    /\ q.conv.last = "text" => \E i \in 1..(k + 1) : u[i].kind = "text"

\* The contents of a chunk that is counted.
LEMMA ContentsTold ==
    ASSUME NEW u \in CalmStreams \cup RoughStreams, NEW k \in Nat, k < Len(u),
           NEW c, NEW s, Before(u, c, s, k), ~c.done,
           NEW c1 \in Conversions, c1.count = k + 1, c1.last = c.last, c1.index = c.index, ~c1.done,
           NEW q, q = Contents(c1, u[k + 1]), NEW x, x = s \o q.events
    PROVE  Told(u, k, q, x)
<1> DEFINE chunk == u[k + 1]
<1>1. /\ chunk \in Chunks
      /\ chunk.kind = "args" => k > 0 /\ u[k].kind \in {"tool", "args"} /\ u[k].index = chunk.index
      /\ k = 0 /\ u[1].kind = "tool" => u[1].index = 0
      /\ OrderlyOne(u) => /\ chunk.kind \notin {"tool", "args"}
                          /\ chunk.kind = "think" => \A i \in 1..k : u[i].kind # "text"
  BY ChunkSent
<1>2. Telling(c1, s) /\ (OrderlyOne(u) => Turn(c1, s))
  BY DEF Before, Telling, Turn
<1>3. PiecesUpTo(u, k + 1) = IF IsPiece(chunk) THEN PiecesUpTo(u, k) + 1 ELSE PiecesUpTo(u, k)
  BY PiecesCounted
<1>4. k + 1 \in 1..(k + 1) /\ 1..k \subseteq 1..(k + 1)
  OBVIOUS
<1> HIDE DEF chunk
<1>5. CASE k = 0
  <2>1. q = First(c1, chunk)
    BY <1>5 DEF Contents, chunk
  <2>2. s = << >> /\ c1.last = "none" /\ c1.index = 0
    BY <1>5 DEF Before
  <2>3. chunk.kind # "args"
    BY <1>1, <1>5
  <2> DEFINE d == q.conv
             e == q.events
  <2>4. d = First(c1, chunk).conv /\ e = First(c1, chunk).events /\ x = s \o First(c1, chunk).events
    BY <2>1
  <2> HIDE DEF d, e
  <2>5. FirstTold(c1, s, chunk, First(c1, chunk).events, d, x)
    BY <1>1, <1>2, <2>3, <2>4, FirstStep
  <2>6. FirstTold(c1, s, chunk, e, d, x)
    BY <2>4, <2>5
  <2>7. d.last = IF chunk.kind \in {"role", "none"} THEN "none" ELSE Holds(chunk.kind)
    BY <2>2, <2>6 DEF FirstTold
  <2>8. /\ chunk.kind \in {"tool", "args"} => d.last = "tools"
        /\ d.last = "text" => chunk.kind = "text"
    BY <1>1, <2>7 DEF Holds, Chunks
  <2>9. Sent(x) = PiecesUpTo(u, k + 1)
    <3>1. Sent(s) = PiecesUpTo(u, k)
      BY DEF Before
    <3>2. Sent(x) = IF IsPiece(chunk) THEN Sent(s) + 1 ELSE Sent(s)
      BY <2>6 DEF FirstTold, IsPiece
    <3>. QED
      BY <1>3, <3>1, <3>2
  <2>10. /\ chunk.kind = "tool" => chunk.index = 0
         /\ d.index = 0 /\ d.count = k + 1 /\ e \in Seq(Events) /\ Telling(d, x) /\ Headed(x)
         /\ chunk.kind \in {"tool", "args"} => IsOpen(x, 0)
         /\ OrderlyOne(u) => Turn(d, x)
    BY <1>1, <1>2, <1>5, <2>2, <2>6 DEF FirstTold, chunk
  <2>. QED
    BY <1>4, <2>3, <2>8, <2>9, <2>10 DEF Told, d, e, chunk
<1>6. CASE k > 0
  <2>1. c1.count # 1
    BY <1>6
  <2>2. chunk.kind = "args" => c1.last = "tools" /\ IsOpen(s, chunk.index)
    BY <1>1, <1>6 DEF Before
  <2>3. LaterTold(c1, s, chunk, q, x)
    BY <1>1, <1>2, <2>1, <2>2, LaterStep DEF chunk
  <2>4. Headed(x)
    BY <1>6, <2>3 DEF LaterTold, Kept, Before
  <2>5. Sent(x) = PiecesUpTo(u, k + 1)
    <3>1. Sent(s) = PiecesUpTo(u, k)
      BY DEF Before
    <3>. QED
      BY <1>3, <2>3, <3>1 DEF LaterTold
  <2>6. c1.last = "text" => \E i \in 1..k : u[i].kind = "text"
    BY DEF Before
  <2>7. OrderlyOne(u) => Turn(q.conv, x)
    BY <1>1, <1>2, <2>3, <2>6 DEF LaterTold
  <2>8. q.conv.last = "text" => \E i \in 1..(k + 1) : u[i].kind = "text"
    BY <1>4, <2>3, <2>6 DEF LaterTold, chunk
  <2>. QED
    BY <1>6, <2>3, <2>4, <2>5, <2>7, <2>8 DEF Told, LaterTold, chunk
<1>. QED
  BY <1>5, <1>6

\* HandleStreamFormat takes the conversion from one chunk to the next.
LEMMA ChunkConverted ==
    ASSUME NEW u \in CalmStreams \cup RoughStreams, NEW k \in Nat, k < Len(u),
           NEW c, NEW s, Before(u, c, s, k),
           NEW r, r = HandleStreamFormat(c, u[k + 1]), NEW t, t = s \o r.events
    PROVE  Before(u, r.conv, t, k + 1)
<1> DEFINE chunk == u[k + 1]
           c1 == [c EXCEPT !.count = @ + 1, !.usage = @ \/ chunk.usage]
           q == Contents(c1, chunk)
           x == s \o q.events
<1>1. /\ chunk \in Chunks
      /\ \A j \in 1..k : u[j].finish => j = k /\ chunk.kind = "none" /\ ~chunk.finish
  BY ChunkSent
<1>2. /\ c1 \in Conversions /\ c1.count = k + 1 /\ c1.last = c.last /\ c1.index = c.index
      /\ c1.done <=> c.done
  <2> DEFINE v == c.usage \/ chunk.usage
             n == c.count + 1
  <2>1. v \in BOOLEAN /\ n \in Nat /\ n = k + 1
    BY DEF Before, Conversions
  <2>2. c1 = [c EXCEPT !.count = n, !.usage = v]
    OBVIOUS
  <2> HIDE DEF v, n, c1
  <2>. QED
    BY <2>1, <2>2 DEF Before, Conversions
<1>3. r = IF c.done THEN [conv |-> c1, events |-> << >>] ELSE Ending(q, chunk)
  BY DEF HandleStreamFormat, Convert
<1> HIDE DEF c1
<1>4. CASE c.done
  <2>1. r.conv = c1 /\ r.events = << >>
    BY <1>3, <1>4
  <2>2. s \in Seq(Events)
    BY DEF Before
  <2>3. t = s
    BY <2>1, <2>2, Chained, Kinds
  <2>4. PICK j \in 1..k : u[j].finish
    BY <1>4 DEF Before
  <2>5. k > 0 /\ chunk.kind = "none"
    BY <1>1, <2>4
  <2>6. PiecesUpTo(u, k + 1) = PiecesUpTo(u, k)
    BY <2>5, PiecesCounted DEF IsPiece
  <2>7. \E i \in 1..(k + 1) : u[i].finish
    BY <2>4
  <2>8. c1.done /\ r.conv = c1 /\ c1 \in Conversions /\ c1.count = k + 1
    BY <1>2, <1>4, <2>1
  <2>9. Headed(s) /\ Over(s) /\ DeltasOpen(s) /\ StopIsLast(s) /\ (OrderlyOne(u) => InTurn(s))
    BY <1>4, <2>5 DEF Before
  <2>10. Sent(s) = PiecesUpTo(u, k + 1)
    BY <2>6 DEF Before
  <2>11. k + 1 # 0
    OBVIOUS
  <2> HIDE DEF chunk
  <2>. QED
    BY <2>2, <2>3, <2>7, <2>8, <2>9, <2>10, <2>11 DEF Before
<1>5. CASE ~c.done
  <2>1. ~c1.done
    BY <1>2, <1>5
  <2>2. r = Ending(q, chunk)
    BY <1>3, <1>5
  <2>3. q = Contents(c1, u[k + 1]) /\ x = s \o q.events
    OBVIOUS
  <2> HIDE DEF q, x
  <2>4. Told(u, k, q, x)
    BY <1>2, <1>5, <2>1, <2>3, ContentsTold
  <2>5. Telling(q.conv, x)
    BY <2>4 DEF Told
  <2>6. s \in Seq(Events) /\ q.events \in Seq(Events)
    BY <2>4 DEF Told, Before
  <2>7. \A i \in 1..k : ~u[i].finish
    BY <1>5 DEF Before
  <2>8. (\E i \in 1..(k + 1) : u[i].finish) <=> chunk.finish
    BY <2>7
  <2>9. k + 1 > 0 /\ k + 1 # 0 /\ (k + 1 < 2 => k = 0)
    OBVIOUS
  <2>10. OrderlyOne(u) => InTurn(x)
    BY <2>4 DEF Told, Turn
  <2> HIDE DEF chunk
  <2>11. CASE ~chunk.finish
    <3>1. r = q
      BY <2>2, <2>11 DEF Ending
    <3>2. t = x
      BY <2>3, <3>1
    <3>3. x \in Seq(Events) /\ DeltasOpen(x) /\ StopIsLast(x)
      BY <2>5 DEF Telling, UnderWay, Over, StopIsLast
    <3>4. q.conv \in Conversions /\ ~q.conv.done
      BY <2>5 DEF Telling
    <3>5. Before(u, q.conv, x, k + 1)
      BY <2>4, <2>8, <2>9, <2>10, <2>11, <3>3, <3>4 DEF Told, Before, chunk
    <3>. QED
      BY <3>1, <3>2, <3>5
  <2>12. CASE chunk.finish
    <3>1. t = s \o Ending(q, chunk).events
      BY <2>2
    <3>2. Ended(q, x, chunk.usage, Ending(q, chunk).conv, t)
      BY <1>1, <2>3, <2>5, <2>6, <2>12, <3>1, EndingStep
    <3>3. Ended(q, x, chunk.usage, r.conv, t)
      BY <2>2, <3>2
    <3>4. q.conv \in Conversions /\ q.conv.count = k + 1
      BY <2>4, <2>5 DEF Telling, Told
    <3>5. r.conv \in Conversions /\ r.conv.count = k + 1 /\ r.conv.done
      BY <3>3, <3>4 DEF Ended, Conversions
    <3>6. Headed(t) /\ Sent(t) = PiecesUpTo(u, k + 1) /\ (OrderlyOne(u) => InTurn(t))
      BY <2>4, <2>10, <3>3 DEF Ended, Told, Kept
    <3>7. t \in Seq(Events) /\ DeltasOpen(t) /\ Over(t) /\ StopIsLast(t)
      BY <3>3 DEF Ended
    <3>. QED
      BY <2>8, <2>9, <2>12, <3>5, <3>6, <3>7 DEF Before
  <2>. QED
    BY <2>11, <2>12
<1>. QED
  BY <1>4, <1>5

\* What has been sent in the end, when n chunks of the stream u had been handed on.
Finished(u, s, n) ==
    /\ s \in Seq(Events) /\ DeltasOpen(s) /\ StopIsLast(s)
    /\ Sent(s) = PiecesUpTo(u, n)
    /\ OrderlyOne(u) => TurnsOnce(s)
    /\ n > 2 /\ (\E i \in 1..n : u[i].finish) =>
          /\ Headed(s) /\ Over(s)
          /\ u[n].kind = "none" \/ (Len(s) > 1 /\ s[Len(s) - 1][1] = "message_delta")

\* The events of the first chunk begin with a message_start.
LEMMA FirstBegins ==
    ASSUME NEW c \in Conversions, NEW chunk \in Chunks
    PROVE  First(c, chunk).events # << >> /\ First(c, chunk).events[1] = <<"message_start">>
<1> DEFINE h == <<"message_start">>
           X == CASE chunk.kind \in {"think", "text"} -> <<Start(c.index), Delta(c.index)>>
                  [] chunk.kind = "tool" -> <<Start(0)>>
                  [] chunk.kind = "args" -> <<Start(0), Delta(c.index)>>
                  [] OTHER -> << >>
<1>1. First(c, chunk).events = <<h>> \o X
  BY DEF First
<1>2. c.index \in Nat
  BY DEF Conversions
<1>3. h \in Events /\ Start(c.index) \in Events /\ Delta(c.index) \in Events /\ Start(0) \in Events
  BY <1>2, Kinds
<1> HIDE DEF h
<1>4. X \in Seq(Events) /\ <<h>> \in Seq(Events) /\ Len(<<h>>) = 1 /\ <<h>>[1] = h
  BY <1>3
<1> HIDE DEF X
<1>. QED
  BY <1>1, <1>4, ConcatProperties DEF h

\* A finish_reason adds its events at the end.
LEMMA EndsLikeItBegins ==
    ASSUME NEW r, r.events \in Seq(Events), r.events # << >>, r.conv \in Conversions, NEW chunk
    PROVE  /\ Ending(r, chunk).events \in Seq(Events) /\ Ending(r, chunk).events # << >>
           /\ Ending(r, chunk).events[1] = r.events[1]
<1> DEFINE P == <<Stop(r.conv.index)>>
           M == IF chunk.usage \/ r.conv.usage THEN << <<"message_delta">> >> ELSE << >>
           Z == << <<"message_stop">> >>
           E == r.events
<1>1. CASE ~chunk.finish
  BY <1>1 DEF Ending
<1>2. CASE chunk.finish
  <2>1. Ending(r, chunk).events = ((E \o P) \o M) \o Z
    BY <1>2 DEF Ending
  <2>2. r.conv.index \in Nat
    BY DEF Conversions
  <2>3. P \in Seq(Events) /\ M \in Seq(Events) /\ Z \in Seq(Events) /\ E \in Seq(Events)
    BY <2>2, Kinds
  <2> HIDE DEF P, M, Z
  <2>4. ASSUME NEW a \in Seq(Events), a # << >>, NEW b \in Seq(Events)
        PROVE  a \o b \in Seq(Events) /\ a \o b # << >> /\ (a \o b)[1] = a[1]
    BY <2>4, ConcatProperties
  <2> DEFINE A == E \o P
             B == A \o M
  <2>5. A \in Seq(Events) /\ A # << >> /\ A[1] = E[1]
    BY <2>3, <2>4
  <2> HIDE DEF A
  <2>6. B \in Seq(Events) /\ B # << >> /\ B[1] = A[1]
    BY <2>3, <2>4, <2>5
  <2> HIDE DEF B
  <2>7. B \o Z \in Seq(Events) /\ B \o Z # << >> /\ (B \o Z)[1] = B[1]
    BY <2>3, <2>4, <2>6
  <2>. QED
    BY <2>1, <2>5, <2>6, <2>7 DEF A, B
<1>. QED
  BY <1>1, <1>2

\* What the contents of the chunk held back do.
LastTold(u, k, q, x, usage) ==
    /\ q.events \in Seq(Events) /\ Telling(q.conv, x) /\ q.conv.usage = usage
    /\ Sent(x) = PiecesUpTo(u, k + 1)
    /\ OrderlyOne(u) => k = 1 \/ InTurn(x)
    /\ k = 1 => q.events # << >> /\ q.events[1][1] = "message_start"
    /\ k > 1 => Headed(x)

\* The contents of the chunk held back, converted by the final response.
LEMMA LastContents ==
    ASSUME NEW u \in CalmStreams \cup RoughStreams, NEW k \in Nat, k < Len(u),
           NEW c, NEW s, Before(u, c, s, k), ~c.done,
           NEW c1 \in Conversions, c1.count = k, c1.last = c.last, c1.index = c.index, ~c1.done,
           NEW q, q = Contents(c1, u[k + 1]), NEW x, x = s \o q.events
    PROVE  LastTold(u, k, q, x, c1.usage)
<1> DEFINE chunk == u[k + 1]
<1>1. /\ chunk \in Chunks
      /\ chunk.kind = "args" => k > 0 /\ u[k].kind \in {"tool", "args"} /\ u[k].index = chunk.index
      /\ OrderlyOne(u) => /\ chunk.kind \notin {"tool", "args"}
                          /\ chunk.kind = "think" => \A i \in 1..k : u[i].kind # "text"
  BY ChunkSent
<1>2. Telling(c1, s) /\ (OrderlyOne(u) => Turn(c1, s))
  BY DEF Before, Telling, Turn
<1>3. PiecesUpTo(u, k + 1) = IF IsPiece(chunk) THEN PiecesUpTo(u, k) + 1 ELSE PiecesUpTo(u, k)
  BY PiecesCounted
<1>4. Sent(s) = PiecesUpTo(u, k)
  BY DEF Before
<1> HIDE DEF chunk
\* Two chunks only: the second is converted as the first was, and the message begins again.
<1>5. CASE k = 1
  <2>1. q = First(c1, chunk) /\ c1.index = 0 /\ Headed(s)
    BY <1>5 DEF Contents, chunk, Before
  <2> DEFINE d == q.conv
             e == q.events
  <2>2. d = First(c1, chunk).conv /\ e = First(c1, chunk).events /\ x = s \o First(c1, chunk).events
    BY <2>1
  <2> HIDE DEF d, e
  <2>3. FirstTold(c1, s, chunk, First(c1, chunk).events, d, x)
    BY <1>1, <1>2, <2>1, <2>2, FirstStep
  <2>4. FirstTold(c1, s, chunk, e, d, x)
    BY <2>2, <2>3
  <2>5. e \in Seq(Events) /\ Telling(d, x) /\ d.usage = c1.usage
    BY <2>1, <2>4 DEF FirstTold
  <2>7. e # << >> /\ e[1] = <<"message_start">>
    BY <1>1, <2>2, FirstBegins
  <2>6. Sent(x) = IF IsPiece(chunk) THEN Sent(s) + 1 ELSE Sent(s)
    BY <2>4 DEF FirstTold, IsPiece
  <2>. QED
    BY <1>3, <1>4, <1>5, <2>5, <2>6, <2>7, Kinds DEF d, e, LastTold
<1>6. CASE k # 1
  <2>1. c1.count # 1
    BY <1>6
  <2>2. chunk.kind = "args" => c1.last = "tools" /\ IsOpen(s, chunk.index)
    BY <1>1, <1>6 DEF Before
  <2>3. LaterTold(c1, s, chunk, q, x)
    BY <1>1, <1>2, <2>1, <2>2, LaterStep DEF chunk
  <2>4. k > 1 => Headed(x)
    BY <2>3 DEF LaterTold, Kept, Before
  <2>5. c1.last = "text" => \E i \in 1..k : u[i].kind = "text"
    BY DEF Before
  <2>6. OrderlyOne(u) => Turn(q.conv, x)
    BY <1>1, <1>2, <2>3, <2>5 DEF LaterTold
  <2>7. OrderlyOne(u) => InTurn(x)
    BY <2>6 DEF Turn
  <2>. QED
    BY <1>3, <1>4, <1>6, <2>3, <2>4, <2>7 DEF LaterTold, LastTold
<1>. QED
  BY <1>5, <1>6

\* HandleFinalResponse converts the chunk held back.
LEMMA LastConverted ==
    ASSUME NEW u \in CalmStreams \cup RoughStreams, NEW k \in Nat, k < Len(u),
           NEW c, NEW s, Before(u, c, s, k),
           NEW r, r = HandleFinalResponse(c, u[k + 1]), NEW t, t = s \o r.events
    PROVE  Finished(u, t, k + 1)
<1> DEFINE chunk == u[k + 1]
           c1 == [c EXCEPT !.usage = TRUE]
           q == Contents(c1, chunk)
           x == s \o q.events
<1>1. /\ chunk \in Chunks
      /\ \A j \in 1..k : u[j].finish => j = k /\ chunk.kind = "none" /\ ~chunk.finish
  BY ChunkSent
<1>2. /\ c1 \in Conversions /\ c1.count = k /\ c1.last = c.last /\ c1.index = c.index
      /\ (c1.done <=> c.done) /\ c1.usage
  BY DEF Before, Conversions
<1>3. r = IF c.done THEN [conv |-> c1, events |-> << >>] ELSE Ending(q, chunk)
  BY <1>2 DEF HandleFinalResponse, Convert
<1> HIDE DEF c1, q
<1>4. s \in Seq(Events) /\ (OrderlyOne(u) => InTurn(s)) /\ (k > 0 => Headed(s))
  BY DEF Before
<1>5. CASE c.done
  <2>1. t = s
    BY <1>3, <1>4, <1>5, Chained, Kinds
  <2>2. PICK j \in 1..k : u[j].finish
    BY <1>5 DEF Before
  <2>3. k > 0 /\ chunk.kind = "none"
    BY <1>1, <2>2
  <2>4. PiecesUpTo(u, k + 1) = PiecesUpTo(u, k)
    BY <2>3, PiecesCounted DEF IsPiece
  <2>5. Headed(s) /\ Over(s) /\ DeltasOpen(s) /\ StopIsLast(s) /\ (OrderlyOne(u) => TurnsOnce(s))
    BY <1>4, <1>5, <2>3, TurnsOnceIfInTurn DEF Before
  <2>6. Sent(s) = PiecesUpTo(u, k + 1)
    BY <2>4 DEF Before
  <2>. QED
    BY <1>4, <2>1, <2>3, <2>5, <2>6 DEF Finished
<1>6. CASE ~c.done
  <2>1. r = Ending(q, chunk) /\ ~c1.done
    BY <1>2, <1>3, <1>6
  <2>2. q = Contents(c1, u[k + 1]) /\ x = s \o q.events
    BY DEF q
  <2> HIDE DEF x
  <2>3. LastTold(u, k, q, x, c1.usage)
    BY <1>2, <1>6, <2>1, <2>2, LastContents
  <2>4. /\ q.events \in Seq(Events) /\ Telling(q.conv, x) /\ q.conv.usage = c1.usage
        /\ Sent(x) = PiecesUpTo(u, k + 1)
        /\ OrderlyOne(u) => k = 1 \/ InTurn(x)
        /\ k = 1 => q.events # << >> /\ q.events[1][1] = "message_start"
        /\ k > 1 => Headed(x)
    BY <2>3 DEF LastTold
  <2>5. x \in Seq(Events) /\ DeltasOpen(x) /\ StopIsLast(x)
    BY <2>4 DEF Telling, UnderWay, Over, StopIsLast
  <2>6. (\E i \in 1..(k + 1) : u[i].finish) => chunk.finish
    <3>1. \A i \in 1..k : ~u[i].finish
      BY <1>6 DEF Before
    <3>. QED
      BY <3>1
  <2> HIDE DEF chunk
  <2>7. CASE ~chunk.finish
    <3>1. r = q /\ t = x
      BY <2>1, <2>2, <2>7 DEF Ending
    <3>2. OrderlyOne(u) => TurnsOnce(x)
      <4>1. k = 1 /\ OrderlyOne(u) => TurnsOnce(s \o q.events)
        BY <1>4, <2>4, BeginsAgain
      <4>. QED
        BY <2>2, <2>4, <2>5, <4>1, TurnsOnceIfInTurn
    <3>. QED
      BY <2>4, <2>5, <2>6, <2>7, <3>1, <3>2 DEF Finished
  <2>8. CASE chunk.finish
    <3>1. t = s \o Ending(q, chunk).events
      BY <2>1
    <3>2. Ended(q, x, chunk.usage, Ending(q, chunk).conv, t)
      BY <1>1, <1>4, <2>2, <2>4, <2>8, <3>1, EndingStep DEF chunk
    <3>3. /\ t \in Seq(Events) /\ DeltasOpen(t) /\ Over(t) /\ StopIsLast(t)
          /\ Kept(x, t) /\ Sent(t) = Sent(x)
          /\ Len(t) > 1 /\ t[Len(t) - 1][1] = "message_delta"
          /\ InTurn(x) => InTurn(t)
      BY <1>2, <2>4, <3>2 DEF Ended
    <3>4. k + 1 > 2 => Headed(t)
      BY <2>4, <3>3 DEF Kept
    <3>5. OrderlyOne(u) => TurnsOnce(t)
      <4>1. k = 1 => r.events \in Seq(Events) /\ r.events # << >> /\ r.events[1][1] = "message_start"
        <5>1. q.conv \in Conversions
          BY <2>4 DEF Telling
        <5>. QED
          BY <2>1, <2>4, <5>1, EndsLikeItBegins
      <4>2. k = 1 /\ OrderlyOne(u) => TurnsOnce(s \o r.events)
        BY <1>4, <4>1, BeginsAgain
      <4>. QED
        BY <2>4, <3>3, <4>2, TurnsOnceIfInTurn
    <3>. QED
      BY <2>4, <3>3, <3>4, <3>5 DEF Finished
  <2>. QED
    BY <2>7, <2>8
<1>. QED
  BY <1>5, <1>6

-----------------------------------------------------------------------------
(* The pieces that go out, whatever the conversion has come to.             *)

\* Events without a delta, and with one.
LEMMA SentOfFew ==
    /\ << >> \in Seq(Events) /\ Sent(<< >>) = 0
    /\ \A e \in Events : /\ <<e>> \in Seq(Events)
                         /\ Sent(<<e>>) = IF e[1] = "content_block_delta" THEN 1 ELSE 0
    /\ \A i \in Nat : Sent(<<Start(i)>>) = 0 /\ Sent(<<Stop(i)>>) = 0 /\ Sent(<<Delta(i)>>) = 1
    /\ \A i, j \in Nat : <<Start(i), Delta(j)>> \in Seq(Events) /\ Sent(<<Start(i), Delta(j)>>) = 1
    /\ << <<"message_start">> >> \in Seq(Events) /\ Sent(<< <<"message_start">> >>) = 0
    /\ << <<"message_delta">> >> \in Seq(Events) /\ Sent(<< <<"message_delta">> >>) = 0
    /\ << <<"message_stop">> >> \in Seq(Events) /\ Sent(<< <<"message_stop">> >>) = 0
<1> DEFINE o == << >>
<1>1. o \in Seq(Events) /\ 1..Len(o) = {}
  OBVIOUS
<1> HIDE DEF o
<1>2. Sent(o) = 0
  BY <1>1, FS_EmptySet DEF Sent, DeltasOf
<1>3. \A e \in Events : Sent(Append(o, e)) = IF e[1] = "content_block_delta" THEN 1 ELSE 0
  BY <1>1, <1>2, Counting
<1>4. \A e \in Events : Append(o, e) = <<e>>
  BY DEF o
<1>5. \A e \in Events : /\ <<e>> \in Seq(Events)
                        /\ Sent(<<e>>) = IF e[1] = "content_block_delta" THEN 1 ELSE 0
  <2> SUFFICES ASSUME NEW e \in Events
               PROVE  <<e>> \in Seq(Events) /\ Sent(<<e>>) = IF e[1] = "content_block_delta" THEN 1 ELSE 0
    OBVIOUS
  <2>1. Append(o, e) = <<e>> /\ Sent(Append(o, e)) = IF e[1] = "content_block_delta" THEN 1 ELSE 0
    BY <1>3, <1>4
  <2>2. <<e>> \in Seq(Events)
    OBVIOUS
  <2>. QED
    BY <2>1, <2>2
<1>6. ASSUME NEW i \in Nat PROVE Sent(<<Start(i)>>) = 0 /\ Sent(<<Stop(i)>>) = 0 /\ Sent(<<Delta(i)>>) = 1
  BY <1>5, Kinds
<1>7. ASSUME NEW i \in Nat, NEW j \in Nat
      PROVE  <<Start(i), Delta(j)>> \in Seq(Events) /\ Sent(<<Start(i), Delta(j)>>) = 1
  <2> DEFINE a == Append(o, Start(i))
  <2>1. Start(i) \in Events /\ Delta(j) \in Events /\ Delta(j)[1] = "content_block_delta"
    BY Kinds
  <2>2. a = <<Start(i)>> /\ a \in Seq(Events) /\ Sent(a) = 0
    BY <1>4, <1>5, <1>6, <2>1
  <2>4. Append(a, Delta(j)) = <<Start(i), Delta(j)>>
    <3> DEFINE v == <<Start(i), Delta(j)>>
    <3>1. v \in Seq(Events) /\ o \o v = Append(a, Delta(j))
      BY <1>1, <2>1, Chained
    <3> HIDE DEF a, v
    <3>2. o \o v = v
      BY <3>1, ConcatEmptySeq DEF o
    <3>. QED
      BY <3>1, <3>2 DEF v
  <2> HIDE DEF a
  <2>3. Sent(Append(a, Delta(j))) = 1
    <3>1. Sent(Append(a, Delta(j))) = IF Delta(j)[1] = "content_block_delta" THEN Sent(a) + 1 ELSE Sent(a)
      BY <2>1, <2>2, Counting
    <3>. QED
      BY <2>1, <2>2, <3>1
  <2>. QED
    BY <2>1, <2>3, <2>4, Chained
<1>8. o = << >>
  BY DEF o
<1>. QED
  BY <1>1, <1>2, <1>5, <1>6, <1>7, <1>8, Kinds

\* The result of a conversion that sends no more than the piece of its chunk.
OnePiece(r, chunk) ==
    /\ r.conv \in Conversions /\ r.events \in Seq(Events)
    /\ Sent(r.events) <= IF IsPiece(chunk) THEN 1 ELSE 0

\* No chunk, the first, a later, or the last, sends a delta but for its piece.
LEMMA ContentsPiece ==
    ASSUME NEW c \in Conversions, NEW chunk \in Chunks
    PROVE  OnePiece(Contents(c, chunk), chunk)
<1>1. c.index \in Nat /\ chunk.index \in Nat /\ TextIndex(c) \in Nat
  BY DEF Conversions, Chunks, TextIndex
<1>2. \A i \in Nat : Start(i) \in Events /\ Delta(i) \in Events /\ Stop(i) \in Events
  BY Kinds
<1> DEFINE H == << <<"message_start">> >>
<1>3. CASE c.count = 1
  <2> DEFINE X == CASE chunk.kind \in {"think", "text"} -> <<Start(c.index), Delta(c.index)>>
                    [] chunk.kind = "tool" -> <<Start(0)>>
                    [] chunk.kind = "args" -> <<Start(0), Delta(c.index)>>
                    [] OTHER -> << >>
  <2>1. Contents(c, chunk).events = H \o X
    BY <1>3 DEF Contents, First
  <2>2. Contents(c, chunk).conv \in Conversions
    BY <1>3 DEF Contents, First, Conversions, Holds, Chunks
  <2>3. X \in Seq(Events) /\ Sent(X) <= IF IsPiece(chunk) THEN 1 ELSE 0
    <3>1. CASE chunk.kind \in {"think", "text", "args"}
      <4>1. X = <<Start(c.index), Delta(c.index)>> \/ X = <<Start(0), Delta(c.index)>>
        BY <3>1
      <4>2. X \in Seq(Events) /\ Sent(X) = 1
        BY <1>1, <4>1, SentOfFew
      <4>. QED
        BY <3>1, <4>2 DEF IsPiece
    <3>2. CASE chunk.kind \notin {"think", "text", "args"}
      <4>1. X = <<Start(0)>> \/ X = << >>
        BY <3>2
      <4>2. X \in Seq(Events) /\ Sent(X) = 0
        BY <1>2, <4>1, SentOfFew
      <4>. QED
        BY <3>2, <4>2 DEF IsPiece
    <3>. QED
      BY <3>1, <3>2
  <2> HIDE DEF H, X
  <2>4. H \in Seq(Events) /\ Sent(H) = 0
    BY SentOfFew DEF H
  <2>. QED
    <3>1. H \o X \in Seq(Events) /\ Sent(H \o X) = Sent(H) + Sent(X) /\ Sent(X) \in Nat
      BY <2>3, <2>4, SentAdds
    <3>. QED
      BY <2>1, <2>2, <2>3, <2>4, <3>1 DEF OnePiece
<1>4. CASE c.count # 1 /\ chunk.kind \in {"tool", "args"}
  <2> DEFINE A == IF c.last # "tools" THEN <<Stop(c.index)>> ELSE << >>
             B == IF chunk.kind = "tool" THEN <<Start(chunk.index)>> ELSE <<Delta(chunk.index)>>
  <2>1. Contents(c, chunk).events = A \o B
    BY <1>4 DEF Contents, Tool
  <2>2. Contents(c, chunk).conv \in Conversions
    BY <1>1, <1>4 DEF Contents, Tool, Conversions
  <2>3. A \in Seq(Events) /\ Sent(A) = 0
    BY <1>1, <1>2, SentOfFew
  <2>4. B \in Seq(Events) /\ Sent(B) <= IF IsPiece(chunk) THEN 1 ELSE 0
    <3>1. CASE chunk.kind = "tool"
      <4>1. B = <<Start(chunk.index)>>
        BY <3>1
      <4>2. B \in Seq(Events) /\ Sent(B) = 0
        BY <1>1, <1>2, <4>1, SentOfFew
      <4>. QED
        BY <3>1, <4>2 DEF IsPiece
    <3>2. CASE chunk.kind = "args"
      <4>1. B = <<Delta(chunk.index)>>
        BY <3>2
      <4>. QED
        BY <1>1, <1>2, <3>2, <4>1, SentOfFew DEF IsPiece
    <3>. QED
      BY <1>4, <3>1, <3>2
  <2> HIDE DEF A, B
  <2>. QED
    <3>1. A \o B \in Seq(Events) /\ Sent(A \o B) = Sent(A) + Sent(B) /\ Sent(B) \in Nat
      BY <2>3, <2>4, SentAdds
    <3>. QED
      BY <2>1, <2>2, <2>3, <2>4, <3>1 DEF OnePiece
<1>5. CASE c.count # 1 /\ chunk.kind = "think"
  <2> DEFINE A == IF c.last # "thinking" THEN <<Start(c.index)>> ELSE << >>
             B == <<Delta(c.index)>>
  <2>1. Contents(c, chunk).events = A \o B
    BY <1>5 DEF Contents, Think
  <2>2. Contents(c, chunk).conv \in Conversions
    BY <1>1, <1>5 DEF Contents, Think, Conversions
  <2>3. A \in Seq(Events) /\ Sent(A) = 0 /\ B \in Seq(Events) /\ Sent(B) = 1
    BY <1>1, <1>2, SentOfFew
  <2>4. IsPiece(chunk)
    BY <1>5 DEF IsPiece
  <2> HIDE DEF A, B
  <2>. QED
    BY <2>1, <2>2, <2>3, <2>4, SentAdds DEF OnePiece
<1>6. CASE c.count # 1 /\ chunk.kind = "text"
  <2> DEFINE A == IF c.last \in {"thinking", "tools"} THEN <<Stop(c.index)>> ELSE << >>
             B == IF c.last # "text" THEN <<Start(TextIndex(c))>> ELSE << >>
             D == <<Delta(TextIndex(c))>>
  <2>1. Contents(c, chunk).events = (A \o B) \o D
    BY <1>6 DEF Contents, Text
  <2>2. Contents(c, chunk).conv \in Conversions
    BY <1>1, <1>6 DEF Contents, Text, Conversions
  <2>3. /\ A \in Seq(Events) /\ Sent(A) = 0 /\ B \in Seq(Events) /\ Sent(B) = 0
        /\ D \in Seq(Events) /\ Sent(D) = 1
    BY <1>1, <1>2, SentOfFew
  <2>4. IsPiece(chunk)
    BY <1>6 DEF IsPiece
  <2> HIDE DEF A, B, D
  <2>5. A \o B \in Seq(Events) /\ Sent(A \o B) = 0
    <3>1. A \o B \in Seq(Events) /\ Sent(A \o B) = Sent(A) + Sent(B)
      BY <2>3, SentAdds
    <3>. QED
      BY <2>3, <3>1
  <2>6. (A \o B) \o D \in Seq(Events) /\ Sent((A \o B) \o D) = 1
    <3> DEFINE E == A \o B
    <3>1. E \in Seq(Events) /\ Sent(E) = 0
      BY <2>5
    <3> HIDE DEF E
    <3>2. E \o D \in Seq(Events) /\ Sent(E \o D) = Sent(E) + Sent(D)
      BY <2>3, <3>1, SentAdds
    <3>3. Sent(E \o D) = 1
      BY <2>3, <3>1, <3>2
    <3>. QED
      BY <3>2, <3>3 DEF E
  <2>. QED
    BY <2>1, <2>2, <2>4, <2>6 DEF OnePiece
<1>7. CASE c.count # 1 /\ chunk.kind \in {"role", "none"}
  <2>1. Contents(c, chunk) = [conv |-> c, events |-> << >>]
    BY <1>7 DEF Contents
  <2>. QED
    BY <2>1, SentOfFew DEF OnePiece
<1>. QED
  BY <1>3, <1>4, <1>5, <1>6, <1>7 DEF Chunks

\* Nor do a finish_reason and the state of the conversion change that.
LEMMA ConvertPiece ==
    ASSUME NEW c \in Conversions, NEW chunk \in Chunks
    PROVE  OnePiece(Convert(c, chunk), chunk)
<1> DEFINE r == Contents(c, chunk)
<1>1. OnePiece(r, chunk)
  BY ContentsPiece
<1> HIDE DEF r
<1>2. CASE c.done
  <2>1. Convert(c, chunk) = [conv |-> c, events |-> << >>]
    BY <1>2 DEF Convert
  <2>. QED
    BY <2>1, SentOfFew DEF OnePiece
<1>3. CASE ~c.done /\ ~chunk.finish
  BY <1>1, <1>3 DEF Convert, Ending, r
<1>4. CASE ~c.done /\ chunk.finish
  <2> DEFINE P == <<Stop(r.conv.index)>>
             M == IF chunk.usage \/ r.conv.usage THEN << <<"message_delta">> >> ELSE << >>
             Z == << <<"message_stop">> >>
  <2>1. Convert(c, chunk) = Ending(r, chunk)
    BY <1>4 DEF Convert, r
  <2>2. Ending(r, chunk).events = ((r.events \o P) \o M) \o Z
    BY <1>4 DEF Ending
  <2>3. Ending(r, chunk).conv = [r.conv EXCEPT !.done = TRUE]
    BY <1>4 DEF Ending
  <2>4. r.conv \in Conversions /\ r.conv.index \in Nat
    BY <1>1 DEF OnePiece, Conversions
  <2>5. P \in Seq(Events) /\ Sent(P) = 0
    BY <2>4, SentOfFew, Kinds
  <2>6. M \in Seq(Events) /\ Sent(M) = 0 /\ Z \in Seq(Events) /\ Sent(Z) = 0
    BY SentOfFew
  <2> HIDE DEF P, M, Z
  <2> DEFINE A == r.events \o P
             B == A \o M
  <2>7. A \in Seq(Events) /\ Sent(A) = Sent(r.events) /\ Sent(r.events) \in Nat
    <3>1. r.events \in Seq(Events)
      BY <1>1 DEF OnePiece
    <3>2. Sent(r.events) \in Nat /\ A \in Seq(Events) /\ Sent(A) = Sent(r.events) + Sent(P)
      BY <2>5, <3>1, SentAdds
    <3> HIDE DEF A
    <3>. QED
      BY <2>5, <3>2
  <2> HIDE DEF A
  <2>8. B \in Seq(Events) /\ Sent(B) = Sent(r.events)
    BY <2>6, <2>7, SentAdds
  <2> HIDE DEF B
  <2>9. B \o Z \in Seq(Events) /\ Sent(B \o Z) = Sent(r.events)
    BY <2>6, <2>7, <2>8, SentAdds
  <2>10. Ending(r, chunk).conv \in Conversions
    BY <2>3, <2>4 DEF Conversions
  <2>. QED
    BY <1>1, <2>1, <2>2, <2>9, <2>10 DEF OnePiece, A, B
<1>. QED
  BY <1>2, <1>3, <1>4

\* The two that hand on a chunk: dataHandler and the final response.
LEMMA HandedOn ==
    ASSUME NEW c \in Conversions, NEW chunk \in Chunks
    PROVE  /\ OnePiece(HandleStreamFormat(c, chunk), chunk)
           /\ OnePiece(HandleFinalResponse(c, chunk), chunk)
<1> DEFINE v == c.usage \/ chunk.usage
           n == c.count + 1
           c1 == [c EXCEPT !.count = n, !.usage = v]
           c2 == [c EXCEPT !.usage = TRUE]
<1>1. v \in BOOLEAN /\ n \in Nat
  BY DEF Conversions, Chunks
<1>2. HandleStreamFormat(c, chunk) = Convert(c1, chunk) /\ HandleFinalResponse(c, chunk) = Convert(c2, chunk)
  BY DEF HandleStreamFormat, HandleFinalResponse
<1> HIDE DEF v, n
<1>3. c1 \in Conversions /\ c2 \in Conversions
  BY <1>1 DEF Conversions
<1> HIDE DEF c1, c2
<1>. QED
  BY <1>2, <1>3, ConvertPiece

-----------------------------------------------------------------------------
(* The message in every state of the relay.                                 *)

\* How many chunks dataHandler has taken, and has converted; the final response is made.
Handled   == IF Writing THEN next - 2 ELSE next - 1
Converted == IF Handled = 0 THEN 0 ELSE IF writer = "send" THEN Handled ELSE Handled - 1
Answering == main \in {"answer", "returned"}

\* Where the scanner is in the stream; the chunk held back is the last one taken; and who has
\* events to send.
Place ==
    /\ stream \in CalmStreams \cup RoughStreams
    /\ next \in 1..(Len(stream) + 1)
    /\ Writing => next > 1
    /\ scanner = "scan" => ~Writing
    /\ main \in {"join", "final", "answer", "returned"} => cancelled
    /\ held = IF Handled = 0 THEN NoChunk ELSE stream[Handled]
    /\ pending # << >> => writer = "send"
    /\ ~Answering => answer = << >> /\ ~behind
    /\ main = "returned" => answer = << >>
    /\ Answering /\ ~behind => ~Writing
    /\ ~Aborted /\ scanner \in {"bye", "gone"} => next = Len(stream) + 1

\* No more deltas, sent or still to be sent, than pieces; a writer left behind and the final
\* response both hand on the same chunk.
Total   == Sent(sent) + Sent(pending) + Sent(answer)
Allowed == IF ~Answering THEN PiecesUpTo(stream, Converted)
           ELSE IF behind THEN PiecesUpTo(stream, Converted) + 1
           ELSE PiecesUpTo(stream, next - 1)
Tally   ==
    /\ conv \in Conversions
    /\ sent \in Seq(Events) /\ pending \in Seq(Events) /\ answer \in Seq(Events)
    /\ Total <= Allowed

\* What has been sent, with what is still to be sent, unless a writer is left behind.
Message ==
    /\ ~Answering => Before(stream, conv, sent \o pending, Converted)
    /\ Answering /\ ~behind =>
          \/ \E n \in 1..Len(stream) :
                Finished(stream, sent \o answer, n) /\ (~Aborted => n = Len(stream))
          \/ sent = << >> /\ answer = << >> /\ (~Aborted => Len(stream) = 0)

StreamLength ==
    /\ Len(stream) \in Nat /\ DOMAIN stream = 1..Len(stream)
    /\ \A i \in 1..Len(stream) : stream[i] \in Chunks

\* lastStreamData is set once a chunk has been taken.
LEMMA ChunkIsSome == \A chunk \in Chunks : chunk # NoChunk
<1>1. \A chunk \in Chunks : chunk.kind # "nothing"
  BY DEF Chunks
<1>2. NoChunk.kind = "nothing"
  BY DEF NoChunk
<1>. QED
  BY <1>1, <1>2

\* A stream is a sequence of chunks.
LEMMA StreamIsTyped == Place => StreamLength
<1> SUFFICES ASSUME Place PROVE StreamLength
  OBVIOUS
<1>1. stream \in Seq(Chunks)
  BY Upstreams DEF Place
<1>. QED
  BY <1>1 DEF StreamLength

\* Nothing has been sent yet.
LEMMA NothingSent == \A u : Before(u, NewConversion, << >>, 0)
<1> SUFFICES ASSUME NEW u PROVE Before(u, NewConversion, << >>, 0)
  OBVIOUS
<1> DEFINE s == << >>
           c == NewConversion
<1>1. s \in Seq(Events) /\ 1..Len(s) = {}
  OBVIOUS
<1>2. c \in Conversions /\ c.count = 0 /\ ~c.done /\ c.last = "none" /\ c.index = 0
  BY DEF NewConversion, Conversions
<1> HIDE DEF s, c
<1>3. DeltasOpen(s) /\ StopIsLast(s) /\ ~Over(s) /\ InTurn(s) /\ \A i : ~Begun(s, i)
  BY <1>1 DEF DeltasOpen, StopIsLast, Over, InTurn, Begun
<1>4. DeltasOf(s) = {}
  BY <1>1 DEF DeltasOf
<1>5. Sent(s) = PiecesUpTo(u, 0)
  BY <1>4, FS_EmptySet, PiecesCounted DEF Sent
<1>6. Telling(c, s) /\ Turn(c, s)
  BY <1>1, <1>2, <1>3 DEF Telling, Turn, UnderWay
<1>7. s = << >>
  BY DEF s
<1>8. Before(u, c, s, 0)
  BY <1>1, <1>2, <1>3, <1>5, <1>6, <1>7 DEF Before
<1>. QED
  BY <1>8 DEF s, c

\* Every step keeps the position.
LEMMA PlaceInductive == Spec => []Place
<1>1. Init => Place
  <2> SUFFICES ASSUME Init PROVE Place
    OBVIOUS
  <2>1. stream \in CalmStreams \cup RoughStreams
    BY DEF Init
  <2>2. stream \in Seq(Chunks)
    BY <2>1, Upstreams
  <2>. QED
    BY <2>1, <2>2 DEF Init, Place, Handled, Writing, Answering, Aborted
<1>2. Place /\ Handover /\ [Next]_vars => Place'
  <2> SUFFICES ASSUME Place, Handover, [Next]_vars PROVE Place'
    OBVIOUS
  <2>1. StreamLength
    BY StreamIsTyped
  <2> USE <2>1 DEF StreamLength, Place, Handled, Writing, Answering, Aborted, chans, output, given
  <2>2. CASE MainWakes
    BY <2>2 DEF MainWakes
  <2>3. CASE MainCancels
    BY <2>3 DEF MainCancels
  <2>4. CASE MainJoins
    BY <2>4 DEF MainJoins
  <2>5. CASE FinalResponse
    BY <2>5 DEF FinalResponse
  <2>6. CASE MainSends \/ MainReturns
    BY <2>6 DEF MainSends, MainReturns
  <2>7. CASE ScanLine
    BY <2>7 DEF ScanLine, Done
  <2>8. CASE ScanStops
    BY <2>8 DEF ScanStops, Handover, Undisturbed, ToldToStop, Done, Receive
  <2>9. CASE ScanEnds
    BY <2>9 DEF ScanEnds, Unblocked, EndOfStream, Handover, Undisturbed
  <2>10. CASE Written
    BY <2>10 DEF Written
  <2>11. CASE AwaitEnds
    BY <2>11 DEF AwaitEnds, Handover, Undisturbed, ToldToStop, Done, Receive
  <2>12. CASE ScannerExits
    BY <2>12 DEF ScannerExits
  <2>13. CASE WriterLocks
    BY <2>13 DEF WriterLocks
  <2>14. CASE DataHandler \/ WriterSends
    BY <2>14 DEF DataHandler, WriterSends
  <2>15. CASE HoldBack
    BY <2>15 DEF HoldBack
  <2>16. CASE PingTick
    BY <2>16 DEF PingTick
  <2>17. CASE Pinger
    BY <2>17 DEF Pinger, PingLocks, PingData
  <2>18. CASE PingEnds
    BY <2>18 DEF PingEnds, PingSent, PingGivesUp, PingStops
  <2>19. CASE ClientLeaves
    BY <2>19 DEF ClientLeaves
  <2>20. CASE UNCHANGED vars
    BY <2>20 DEF vars
  <2>. QED
    BY <2>2, <2>3, <2>4, <2>5, <2>6, <2>7, <2>8, <2>9, <2>10, <2>11, <2>12, <2>13, <2>14, <2>15,
       <2>16, <2>17, <2>18, <2>19, <2>20 DEF Next, Main, Scanner, Writer
<1>. QED
  BY <1>1, <1>2, HandoverInductive, PTL DEF Spec

\* A step that neither reads on, nor converts or sends, nor makes the final response.
Still ==
    /\ UNCHANGED <<stream, next, conv, sent, pending, answer, behind>>
    /\ Writing' <=> Writing
    /\ (writer = "send")' <=> writer = "send"
    /\ Answering' <=> Answering
    /\ Aborted => Aborted'

\* All steps but eight are such steps.
LEMMA StillSteps ==
    ASSUME [Next]_vars
    PROVE  \/ Still \/ ScanLine \/ DataHandler \/ WriterSends \/ HoldBack
           \/ FinalResponse \/ MainSends \/ MainReturns
<1> USE DEF Still, Writing, Answering, Aborted, chans, output, given
<1>1. ASSUME MainWakes \/ MainCancels \/ MainJoins PROVE Still
  BY <1>1 DEF MainWakes, MainCancels, MainJoins
<1>2. ASSUME ScanStops \/ ScanEnds \/ Written \/ AwaitEnds \/ ScannerExits PROVE Still
  BY <1>2 DEF ScanStops, ScanEnds, Written, AwaitEnds, ScannerExits
<1>3. ASSUME WriterLocks \/ Pinger \/ PingTick PROVE Still
  BY <1>3 DEF WriterLocks, Pinger, PingLocks, PingData, PingTick
<1>4. ASSUME PingEnds \/ ClientLeaves PROVE Still
  BY <1>4 DEF PingEnds, PingSent, PingGivesUp, PingStops, ClientLeaves
<1>5. ASSUME UNCHANGED vars PROVE Still
  BY <1>5 DEF vars
<1>. QED
  BY <1>1, <1>2, <1>3, <1>4, <1>5 DEF Next, Main, Scanner, Writer

\* A step that reads on leaves what has been converted.
LEMMA ReadsOn ==
    ASSUME Place, ScanLine
    PROVE  /\ ~Answering /\ ~Answering' /\ Converted' = Converted
           /\ UNCHANGED <<stream, conv, sent, pending, answer, behind>>
<1>1. /\ ~Writing /\ Writing' /\ writer' = "lock" /\ next' = next + 1 /\ ~cancelled /\ main' = main
      /\ UNCHANGED <<stream, conv, sent, pending, answer, behind>>
  BY DEF ScanLine, Place, Writing, Done, output, given
<1>2. next \in Int
  BY StreamIsTyped DEF Place, StreamLength
<1>3. Handled' = Handled
  BY <1>1, <1>2 DEF Handled
<1>4. writer # "send"
  BY <1>1 DEF Writing
<1>5. Converted' = Converted
  BY <1>1, <1>3, <1>4 DEF Converted
<1>. QED
  BY <1>1, <1>5 DEF Place, Answering

\* A step that leaves the reading and the lock leaves what has been converted.
LEMMA ConvertedStays ==
    ASSUME next' = next, Writing' <=> Writing, (writer = "send")' <=> writer = "send"
    PROVE  Handled' = Handled /\ Converted' = Converted
<1>1. Handled' = Handled
  BY DEF Handled
<1>. QED
  BY <1>1 DEF Converted

\* The chunk held back, when there is one.
LEMMA HeldChunk ==
    ASSUME Place
    PROVE  /\ Handled \in 0..Len(stream) /\ Len(stream) \in Nat
           /\ Handled = 0 <=> held = NoChunk
           /\ Handled # 0 => held = stream[Handled] /\ held \in Chunks
           /\ Writing => Handled < Len(stream)
           /\ Converted \in 0..(next - 1) /\ next - 1 \in 0..Len(stream)
           /\ ~Writing => Handled = next - 1
<1>1. StreamLength
  BY StreamIsTyped
<1>2. Handled \in 0..Len(stream) /\ Len(stream) \in Nat /\ (Writing => Handled < Len(stream))
  BY <1>1 DEF StreamLength, Place, Handled
<1>3. Handled # 0 => held = stream[Handled] /\ held \in Chunks
  BY <1>1, <1>2 DEF StreamLength, Place
<1>4. Handled = 0 <=> held = NoChunk
  BY <1>3, ChunkIsSome DEF Place
<1>5. Converted \in 0..(next - 1) /\ next - 1 \in 0..Len(stream) /\ (~Writing => Handled = next - 1)
  BY <1>1, <1>2 DEF StreamLength, Place, Handled, Converted
<1>. QED
  BY <1>2, <1>3, <1>4, <1>5

\* dataHandler converts the chunk held back; nothing was waiting to be sent.
LEMMA WriterConverts ==
    ASSUME Place, DataHandler
    PROVE  /\ Writing /\ Writing' /\ Handled' = Handled /\ Converted' = Handled
           /\ Converted = (IF Handled = 0 THEN 0 ELSE Handled - 1)
           /\ pending = << >>
           /\ UNCHANGED <<stream, next, main, sent, answer, behind, gone, timedOut>>
           /\ IF Handled = 0 THEN UNCHANGED <<conv, pending>>
              ELSE /\ conv' = HandleStreamFormat(conv, stream[Handled]).conv
                   /\ pending' = HandleStreamFormat(conv, stream[Handled]).events
<1>1. /\ writer = "hold" /\ writer' = "send"
      /\ UNCHANGED <<stream, next, main, sent, answer, behind, gone, timedOut>>
      /\ IF held = NoChunk THEN UNCHANGED <<conv, pending>>
         ELSE /\ conv' = HandleStreamFormat(conv, held).conv
              /\ pending' = HandleStreamFormat(conv, held).events
  BY DEF DataHandler, given
<1>2. Writing /\ Writing'
  BY <1>1 DEF Writing
<1>3. Handled' = Handled
  BY <1>1, <1>2 DEF Handled
<1>4. Converted' = Handled /\ Converted = (IF Handled = 0 THEN 0 ELSE Handled - 1)
  BY <1>1, <1>3 DEF Converted
<1>. QED
  BY <1>1, <1>2, <1>3, <1>4, HeldChunk DEF Place

\* When the writer assigns lastStreamData, one chunk more is taken, and no more converted.
LEMMA WriterEnds ==
    ASSUME Place, HoldBack
    PROVE  /\ Writing /\ Converted' = Converted /\ pending = << >>
           /\ UNCHANGED <<stream, next, main, conv, sent, pending, answer, behind, gone, timedOut>>
<1>1. /\ writer = "send" /\ writer' = "done" /\ pending = << >>
      /\ UNCHANGED <<stream, next, main, conv, sent, pending, answer, behind, gone, timedOut>>
  BY DEF HoldBack, given
<1>2. Writing /\ ~Writing'
  BY <1>1 DEF Writing
<1>3. next \in Int /\ next > 1
  BY <1>2, StreamIsTyped DEF Place, StreamLength
<1>4. Handled' = Handled + 1 /\ Handled \in Nat
  BY <1>1, <1>2, <1>3 DEF Handled
<1>5. Converted' = Converted
  BY <1>1, <1>4 DEF Converted
<1>. QED
  BY <1>1, <1>2, <1>5

\* Every step keeps the tally.
LEMMA TallyInductive == Spec => []Tally
<1>1. Init => Tally
  <2> SUFFICES ASSUME Init PROVE Tally
    OBVIOUS
  <2>1. /\ Converted = 0 /\ ~Answering /\ conv = NewConversion
        /\ sent = << >> /\ pending = << >> /\ answer = << >>
    BY DEF Init, Converted, Handled, Writing, Answering
  <2>2. NewConversion \in Conversions
    BY DEF NewConversion, Conversions
  <2>3. Total = 0 /\ Allowed = 0
    BY <2>1, SentOfFew, PiecesCounted DEF Total, Allowed
  <2>. QED
    BY <2>1, <2>2, <2>3, SentOfFew DEF Tally
<1>2. Tally /\ Place /\ [Next]_vars => Tally'
  <2> SUFFICES ASSUME Tally, Place, [Next]_vars PROVE Tally'
    OBVIOUS
  <2>1. /\ conv \in Conversions /\ sent \in Seq(Events) /\ pending \in Seq(Events) /\ answer \in Seq(Events)
        /\ Total <= Allowed
    BY DEF Tally
  <2>2. Sent(sent) \in Nat /\ Sent(pending) \in Nat /\ Sent(answer) \in Nat
    BY <2>1, SentAdds
  <2>3. /\ Handled \in 0..Len(stream) /\ Len(stream) \in Nat
        /\ Handled = 0 <=> held = NoChunk
        /\ Handled # 0 => held = stream[Handled] /\ held \in Chunks
        /\ Converted \in 0..(next - 1) /\ next - 1 \in 0..Len(stream)
        /\ ~Writing => Handled = next - 1
    BY HeldChunk
  <2>4. \A k \in 0..Len(stream) :
           /\ PiecesUpTo(stream, k) \in Nat
           /\ k > 0 => PiecesUpTo(stream, k) =
                 PiecesUpTo(stream, k - 1) + (IF IsPiece(stream[k]) THEN 1 ELSE 0)
           /\ \A n \in 0..k : PiecesUpTo(stream, n) <= PiecesUpTo(stream, k)
    <3> SUFFICES ASSUME NEW k \in 0..Len(stream)
                 PROVE  /\ PiecesUpTo(stream, k) \in Nat
                        /\ k > 0 => PiecesUpTo(stream, k) =
                              PiecesUpTo(stream, k - 1) + (IF IsPiece(stream[k]) THEN 1 ELSE 0)
                        /\ \A n \in 0..k : PiecesUpTo(stream, n) <= PiecesUpTo(stream, k)
      OBVIOUS
    <3>1. k \in Nat
      OBVIOUS
    <3>2. k > 0 => PiecesUpTo(stream, k) =
             PiecesUpTo(stream, k - 1) + (IF IsPiece(stream[k]) THEN 1 ELSE 0)
      <4> SUFFICES ASSUME k > 0
                   PROVE  PiecesUpTo(stream, k) =
                             PiecesUpTo(stream, k - 1) + (IF IsPiece(stream[k]) THEN 1 ELSE 0)
        OBVIOUS
      <4> DEFINE n == k - 1
      <4>1. n \in Nat /\ n + 1 = k
        OBVIOUS
      <4> HIDE DEF n
      <4>2. /\ PiecesUpTo(stream, n) \in Nat
            /\ PiecesUpTo(stream, n + 1) = IF IsPiece(stream[n + 1]) THEN PiecesUpTo(stream, n) + 1
                                           ELSE PiecesUpTo(stream, n)
        BY <4>1, PiecesCounted
      <4>. QED
        BY <4>1, <4>2 DEF n
    <3>. QED
      BY <3>1, <3>2, PiecesCounted
  <2>5. CASE Still
    <3>1. Converted' = Converted
      BY <2>5, ConvertedStays DEF Still
    <3>. QED
      BY <2>5, <3>1 DEF Still, Tally, Total, Allowed
  <2>6. CASE ScanLine
    <3>1. /\ ~Answering /\ ~Answering' /\ Converted' = Converted
          /\ UNCHANGED <<stream, conv, sent, pending, answer, behind>>
      BY <2>6, ReadsOn
    <3>. QED
      BY <3>1 DEF Tally, Total, Allowed
  <2>7. CASE DataHandler
    <3> DEFINE k == Handled
               r == HandleStreamFormat(conv, stream[k])
    <3>1. /\ Writing /\ Converted' = k /\ Converted = (IF k = 0 THEN 0 ELSE k - 1) /\ pending = << >>
          /\ UNCHANGED <<stream, next, main, sent, answer, behind>>
          /\ IF k = 0 THEN UNCHANGED <<conv, pending>> ELSE conv' = r.conv /\ pending' = r.events
      BY <2>7, WriterConverts
    <3>2. (Answering' <=> Answering) /\ (Answering => behind) /\ Sent(pending) = 0
      BY <3>1, SentOfFew DEF Answering, Place
    <3>3. CASE k = 0
      BY <3>1, <3>2, <3>3, <2>1 DEF Tally, Total, Allowed
    <3>4. CASE k # 0
      <4>1. stream[k] \in Chunks
        BY <2>3, <3>4
      <4> DEFINE chunk == stream[k]
      <4>2. OnePiece(r, chunk)
        BY <2>1, <4>1, HandedOn
      <4>3. /\ conv' \in Conversions /\ pending' \in Seq(Events)
            /\ Sent(pending') <= IF IsPiece(chunk) THEN 1 ELSE 0
        BY <3>1, <3>4, <4>2 DEF OnePiece
      <4>4. Sent(pending') \in Nat
        BY <4>3, SentAdds
      <4>5. PiecesUpTo(stream, k) = PiecesUpTo(stream, k - 1) + (IF IsPiece(chunk) THEN 1 ELSE 0)
        BY <2>3, <2>4, <3>4
      <4>6. PiecesUpTo(stream, k - 1) \in Nat
        BY <2>3, <2>4, <3>4
      <4> HIDE DEF k, r, chunk
      <4>7. Total' <= Allowed'
        BY <2>1, <2>2, <3>1, <3>2, <3>4, <4>3, <4>4, <4>5, <4>6 DEF Total, Allowed
      <4>. QED
        BY <2>1, <3>1, <4>3, <4>7 DEF Tally
    <3>. QED
      BY <3>3, <3>4
  <2>8. CASE WriterSends
    <3>1. /\ writer = "send" /\ pending # << >> /\ sent' = Append(sent, Head(pending))
          /\ pending' = Tail(pending)
          /\ UNCHANGED <<stream, next, main, writer, conv, answer, behind>>
      BY <2>8 DEF WriterSends, given
    <3>2. Converted' = Converted /\ (Answering' <=> Answering)
      BY <3>1, ConvertedStays DEF Writing, Answering
    <3>3. /\ sent' \in Seq(Events) /\ pending' \in Seq(Events)
          /\ Sent(sent') + Sent(pending') = Sent(sent) + Sent(pending)
      BY <2>1, <3>1, NextEvent
    <3>. QED
      BY <2>1, <3>1, <3>2, <3>3 DEF Tally, Total, Allowed
  <2>9. CASE HoldBack
    <3>1. /\ Converted' = Converted
          /\ UNCHANGED <<stream, next, main, conv, sent, pending, answer, behind>>
      BY <2>9, WriterEnds
    <3>. QED
      BY <2>1, <3>1 DEF Tally, Total, Allowed, Answering
  <2>10. CASE FinalResponse
    <3> DEFINE k == Handled
               r == HandleFinalResponse(conv, stream[k])
    <3>1. /\ main = "final" /\ main' \in {"answer", "returned"} /\ behind' = Writing
          /\ UNCHANGED <<stream, next, writer, sent, pending>>
          /\ IF held = NoChunk THEN UNCHANGED <<conv, answer>>
             ELSE conv' = HandleFinalResponse(conv, held).conv /\ answer' = HandleFinalResponse(conv, held).events
      BY <2>10 DEF FinalResponse, Flush, given
    <3>2. /\ ~Answering /\ Answering' /\ answer = << >> /\ Converted' = Converted
      BY <3>1, ConvertedStays DEF Answering, Place, Writing
    <3>3. Sent(answer) = 0
      BY <3>2, SentOfFew
    <3>4. CASE k = 0
      <4>1. UNCHANGED <<conv, answer>>
        BY <2>3, <3>1, <3>4
      <4>2. PiecesUpTo(stream, Converted) <= PiecesUpTo(stream, next - 1)
        BY <2>3, <2>4
      <4>3. PiecesUpTo(stream, Converted) \in Nat /\ PiecesUpTo(stream, next - 1) \in Nat
        BY <2>3, <2>4
      <4>4. Total' <= Allowed'
        BY <2>1, <2>2, <3>1, <3>2, <4>1, <4>2, <4>3 DEF Total, Allowed
      <4>. QED
        BY <2>1, <3>1, <4>1, <4>4 DEF Tally
    <3>5. CASE k # 0
      <4> DEFINE chunk == stream[k]
      <4>1. chunk \in Chunks /\ held = chunk /\ held # NoChunk
        BY <2>3, <3>5
      <4>2. OnePiece(r, chunk)
        BY <2>1, <4>1, HandedOn
      <4>3. /\ conv' \in Conversions /\ answer' \in Seq(Events)
            /\ Sent(answer') <= IF IsPiece(chunk) THEN 1 ELSE 0
        BY <3>1, <4>1, <4>2 DEF OnePiece
      <4>4. Sent(answer') \in Nat
        BY <4>3, SentAdds
      <4>5. PiecesUpTo(stream, k) = PiecesUpTo(stream, k - 1) + (IF IsPiece(chunk) THEN 1 ELSE 0)
        BY <2>3, <2>4, <3>5
      <4>6. PiecesUpTo(stream, k - 1) \in Nat /\ PiecesUpTo(stream, Converted) \in Nat
        BY <2>3, <2>4, <3>5
      <4>7. ~Writing => next - 1 = k /\ Converted = k - 1
        BY <2>3, <3>5 DEF Converted, Writing
      <4> HIDE DEF k, r, chunk
      <4>8. CASE Writing
        <5>1. behind'
          BY <3>1, <4>8
        <5>2. Total' = Total + Sent(answer') /\ Total <= PiecesUpTo(stream, Converted) /\ Total \in Nat
          BY <2>1, <2>2, <3>1, <3>2, <3>3, <4>4 DEF Total, Allowed
        <5>3. Allowed' = PiecesUpTo(stream, Converted) + 1
          BY <3>1, <3>2, <5>1 DEF Allowed
        <5>4. Total' <= Allowed'
          BY <4>3, <4>4, <4>6, <5>2, <5>3
        <5>. QED
          BY <2>1, <3>1, <4>3, <5>4 DEF Tally
      <4>9. CASE ~Writing
        <5>1. ~behind'
          BY <3>1, <4>9
        <5>2. Total' = Total + Sent(answer') /\ Total <= PiecesUpTo(stream, k - 1) /\ Total \in Nat
          BY <2>1, <2>2, <3>1, <3>2, <3>3, <4>4, <4>7, <4>9 DEF Total, Allowed
        <5>3. Allowed' = PiecesUpTo(stream, k)
          BY <3>1, <3>2, <4>7, <4>9, <5>1 DEF Allowed
        <5>4. Total' <= Allowed'
          BY <4>3, <4>4, <4>5, <4>6, <5>2, <5>3
        <5>. QED
          BY <2>1, <3>1, <4>3, <5>4 DEF Tally
      <4>. QED
        BY <4>8, <4>9
    <3>. QED
      BY <3>4, <3>5
  <2>11. CASE MainSends
    <3>1. /\ answer # << >> /\ sent' = Append(sent, Head(answer)) /\ answer' = Tail(answer)
          /\ UNCHANGED <<stream, next, main, writer, conv, pending, behind>>
      BY <2>11 DEF MainSends, given
    <3>2. Converted' = Converted /\ (Answering' <=> Answering)
      BY <3>1, ConvertedStays DEF Writing, Answering
    <3>3. /\ sent' \in Seq(Events) /\ answer' \in Seq(Events)
          /\ Sent(sent') + Sent(answer') = Sent(sent) + Sent(answer)
      BY <2>1, <3>1, NextEvent
    <3>4. Sent(sent') \in Nat /\ Sent(answer') \in Nat
      BY <3>3, SentAdds
    <3>5. Total' = Total
      BY <2>2, <3>1, <3>3, <3>4 DEF Total
    <3>. QED
      BY <2>1, <3>1, <3>2, <3>3, <3>5 DEF Tally, Allowed
  <2>12. CASE MainReturns
    <3>1. /\ main = "answer" /\ main' = "returned" /\ conv' = [conv EXCEPT !.done = TRUE]
          /\ UNCHANGED <<stream, next, writer, sent, pending, answer, behind>>
      BY <2>12 DEF MainReturns, AllDone, given
    <3>2. Converted' = Converted /\ Answering' /\ Answering
      BY <3>1, ConvertedStays DEF Writing, Answering
    <3>3. conv' \in Conversions
      BY <2>1, <3>1 DEF Conversions
    <3>. QED
      BY <2>1, <3>1, <3>2, <3>3 DEF Tally, Total, Allowed
  <2>. QED
    BY <2>5, <2>6, <2>7, <2>8, <2>9, <2>10, <2>11, <2>12, StillSteps
<1>. QED
  BY <1>1, <1>2, PlaceInductive, PTL DEF Spec

\* Without a writer at work, the final response is the end of the message.
LEMMA MessageFinished ==
    ASSUME Message, Tally, Place, Handover, FinalResponse
    PROVE  Message'
<1>1. /\ main = "final" /\ main' \in {"answer", "returned"} /\ behind' = Writing
      /\ UNCHANGED <<stream, next, scanner, writer, sent, pending, gone, timedOut>>
      /\ IF held = NoChunk THEN UNCHANGED <<conv, answer>>
         ELSE conv' = HandleFinalResponse(conv, held).conv /\ answer' = HandleFinalResponse(conv, held).events
  BY DEF FinalResponse, Flush, given
<1>2. ~Answering /\ Answering' /\ answer = << >> /\ (Aborted' <=> Aborted)
  BY <1>1 DEF Answering, Place, Aborted
<1>3. CASE Writing
  BY <1>1, <1>2, <1>3 DEF Message
<1>4. CASE ~Writing
  <2>1. writer # "send" /\ pending = << >>
    BY <1>4 DEF Writing, Place
  <2>2. sent \in Seq(Events) /\ sent \o pending = sent
    BY <2>1, Chained, Kinds DEF Tally
  <2>3. Before(stream, conv, sent, Converted)
    BY <1>2, <2>2 DEF Message
  <2>4. /\ Handled \in 0..Len(stream) /\ Len(stream) \in Nat
        /\ Handled = 0 <=> held = NoChunk
        /\ Handled # 0 => held = stream[Handled] /\ held \in Chunks
        /\ Handled = next - 1
    BY <1>4, HeldChunk
  <2>5. ~Aborted => Handled = Len(stream)
    <3>1. ~Aborted => next = Len(stream) + 1
      BY <1>1 DEF Place, Handover, Undisturbed
    <3>. QED
      BY <2>4, <3>1
  <2>6. CASE Handled = 0
    <3>1. answer' = << >> /\ Converted = 0
      BY <1>1, <1>2, <2>4, <2>6 DEF Converted
    <3>2. sent = << >>
      BY <2>3, <3>1 DEF Before
    <3>. QED
      BY <1>1, <1>2, <2>5, <2>6, <3>1, <3>2 DEF Message
  <2>7. CASE Handled # 0
    <3> DEFINE k == Handled - 1
               r == HandleFinalResponse(conv, stream[k + 1])
    <3>1. k \in Nat /\ k < Len(stream) /\ k + 1 \in 1..Len(stream) /\ k + 1 = Handled
      <4>1. Handled \in 0..Len(stream) /\ Len(stream) \in Nat
        BY HeldChunk
      <4>. QED
        BY <2>7, <4>1
    <3>2. Converted = k
      BY <2>1, <2>7 DEF Converted
    <3>3. answer' = r.events
      BY <1>1, <2>4, <2>7, <3>1
    <3>4. stream \in CalmStreams \cup RoughStreams
      BY DEF Place
    <3> HIDE DEF k
    <3>5. Finished(stream, sent \o r.events, k + 1)
      BY <2>3, <3>1, <3>2, <3>4, LastConverted
    <3> HIDE DEF r
    <3>6. ~Aborted' => k + 1 = Len(stream)
      BY <1>2, <2>5, <3>1
    <3>. QED
      BY <1>1, <1>2, <3>1, <3>3, <3>5, <3>6 DEF Message
  <2>. QED
    BY <2>6, <2>7
<1>. QED
  BY <1>3, <1>4

\* dataHandler: the chunk before is converted.
LEMMA MessageGoesOn ==
    ASSUME Message, Tally, Place, DataHandler
    PROVE  Message'
<1> DEFINE k == Handled - 1
           r == HandleStreamFormat(conv, stream[Handled])
<1>1. /\ Writing /\ Converted' = Handled /\ Converted = (IF Handled = 0 THEN 0 ELSE Handled - 1)
      /\ pending = << >>
      /\ UNCHANGED <<stream, next, main, sent, answer, behind, gone, timedOut>>
      /\ IF Handled = 0 THEN UNCHANGED <<conv, pending>>
         ELSE conv' = r.conv /\ pending' = r.events
  BY WriterConverts
<1>2. CASE Answering
  BY <1>1, <1>2 DEF Message, Place, Answering
<1>3. CASE ~Answering
  <2>1. ~Answering' /\ Before(stream, conv, sent \o pending, Converted)
    BY <1>1, <1>3 DEF Message, Answering
  <2>2. CASE Handled = 0
    BY <1>1, <2>1, <2>2 DEF Message
  <2>3. CASE Handled # 0
    <3>1. sent \o pending = sent
      BY <1>1, Chained, Kinds DEF Tally
    <3>2. /\ k \in Nat /\ k < Len(stream) /\ k + 1 = Handled /\ Converted = k /\ Converted' = k + 1
          /\ stream \in CalmStreams \cup RoughStreams
      BY <1>1, <2>3, HeldChunk DEF Place
    <3>3. Before(stream, conv, sent, k) /\ r = HandleStreamFormat(conv, stream[k + 1])
      BY <2>1, <3>1, <3>2
    <3>4. conv' = r.conv /\ pending' = r.events
      BY <1>1, <2>3
    <3> HIDE DEF k, r
    <3>5. Before(stream, r.conv, sent \o r.events, k + 1)
      BY <3>2, <3>3, ChunkConverted
    <3>. QED
      BY <1>1, <2>1, <3>2, <3>4, <3>5 DEF Message
  <2>. QED
    BY <2>2, <2>3
<1>. QED
  BY <1>2, <1>3

\* Every step keeps the message.
LEMMA MessageInductive == Spec => []Message
<1>1. Init => Message
  <2> SUFFICES ASSUME Init PROVE Message
    OBVIOUS
  <2>1. Converted = 0 /\ ~Answering /\ conv = NewConversion /\ sent = << >> /\ pending = << >>
    BY DEF Init, Converted, Handled, Writing, Answering
  <2>2. sent \o pending = << >>
    BY <2>1, SentOfFew, ConcatEmptySeq
  <2>. QED
    BY <2>1, <2>2, NothingSent DEF Message
<1>2. Message /\ Tally /\ Place /\ Handover /\ [Next]_vars => Message'
  <2> SUFFICES ASSUME Message, Tally, Place, Handover, [Next]_vars PROVE Message'
    OBVIOUS
  <2>1. sent \in Seq(Events) /\ pending \in Seq(Events) /\ answer \in Seq(Events)
    BY DEF Tally
  <2>2. CASE Still
    <3>1. Converted' = Converted
      BY <2>2, ConvertedStays DEF Still
    <3>. QED
      BY <2>2, <3>1 DEF Still, Message
  <2>3. CASE ScanLine
    <3>1. /\ ~Answering /\ ~Answering' /\ Converted' = Converted
          /\ UNCHANGED <<stream, conv, sent, pending, answer, behind>>
      BY <2>3, ReadsOn
    <3>. QED
      BY <3>1 DEF Message
  <2>4. CASE DataHandler
    BY <2>4, MessageGoesOn
  <2>5. CASE WriterSends
    <3>1. /\ writer = "send" /\ pending # << >> /\ sent' = Append(sent, Head(pending))
          /\ pending' = Tail(pending)
          /\ UNCHANGED <<stream, next, main, writer, conv, answer, behind>>
      BY <2>5 DEF WriterSends, given
    <3>2. Converted' = Converted /\ (Answering' <=> Answering)
      BY <3>1, ConvertedStays DEF Writing, Answering
    <3>3. sent' \o pending' = sent \o pending
      BY <2>1, <3>1, NextEvent
    <3>4. Answering => behind
      BY <3>1 DEF Place, Writing
    <3>. QED
      BY <3>1, <3>2, <3>3, <3>4 DEF Message
  <2>6. CASE HoldBack
    <3>1. /\ Writing /\ Converted' = Converted
          /\ UNCHANGED <<stream, next, main, conv, sent, pending, answer, behind, gone, timedOut>>
      BY <2>6, WriterEnds
    <3>. QED
      BY <3>1 DEF Message, Answering, Aborted
  <2>7. CASE FinalResponse
    BY <2>7, MessageFinished
  <2>8. CASE MainSends
    <3>1. /\ main = "answer" /\ answer # << >> /\ sent' = Append(sent, Head(answer)) /\ answer' = Tail(answer)
          /\ UNCHANGED <<stream, main, behind, gone, timedOut>>
      BY <2>8 DEF MainSends, given
    <3>2. Answering /\ Answering' /\ (Aborted' <=> Aborted)
      BY <3>1 DEF Answering, Aborted
    <3>3. sent' \o answer' = sent \o answer
      BY <2>1, <3>1, NextEvent
    <3>. QED
      BY <3>1, <3>2, <3>3 DEF Message
  <2>9. CASE MainReturns
    <3>1. /\ main = "answer" /\ main' = "returned"
          /\ UNCHANGED <<stream, sent, answer, behind, gone, timedOut>>
      BY <2>9 DEF MainReturns, given
    <3>2. Answering /\ Answering' /\ (Aborted' <=> Aborted)
      BY <3>1 DEF Answering, Aborted
    <3>. QED
      BY <3>1, <3>2 DEF Message
  <2>. QED
    BY <2>2, <2>3, <2>4, <2>5, <2>6, <2>7, <2>8, <2>9, StillSteps
<1>. QED
  BY <1>1, <1>2, TallyInductive, PlaceInductive, HandoverInductive, PTL DEF Spec

\* In every state in which nobody is left behind the message is sound, as far as it goes.
LEMMA MessageSound ==
    ASSUME Message, Tally, Place, ~behind
    PROVE  DeltasOpen(sent) /\ StopIsLast(sent) /\ (OrderlyOne(stream) => TurnsOnce(sent))
<1>1. sent \in Seq(Events) /\ pending \in Seq(Events) /\ answer \in Seq(Events)
  BY DEF Tally
<1>2. CASE ~Answering
  <2> DEFINE t == sent \o pending
  <2>1. Before(stream, conv, t, Converted)
    BY <1>2 DEF Message
  <2> HIDE DEF t
  <2>2. DeltasOpen(t) /\ StopIsLast(t) /\ (OrderlyOne(stream) => TurnsOnce(t))
    BY <2>1, TurnsOnceIfInTurn DEF Before
  <2>3. t = sent \o pending
    BY DEF t
  <2>. QED
    BY <1>1, <2>2, <2>3, PartOfMessage
<1>3. CASE Answering /\ \E n \in 1..Len(stream) : Finished(stream, sent \o answer, n)
  <2> DEFINE t == sent \o answer
  <2>1. DeltasOpen(t) /\ StopIsLast(t) /\ (OrderlyOne(stream) => TurnsOnce(t))
    BY <1>3 DEF Finished
  <2>2. t = sent \o answer
    OBVIOUS
  <2> HIDE DEF t
  <2>. QED
    BY <1>1, <2>1, <2>2, PartOfMessage
<1>4. CASE sent = << >>
  <2>1. Before(stream, NewConversion, sent, 0)
    BY <1>4, NothingSent
  <2>. QED
    BY <2>1, TurnsOnceIfInTurn DEF Before
<1>. QED
  BY <1>2, <1>3, <1>4 DEF Message

\* When the handler has returned from a stream nobody aborts, all of it has been sent.
LEMMA AllSent ==
    ASSUME Message, Tally, Place, Handover, main = "returned", ~Aborted
    PROVE  \/ Len(stream) \in 1..Len(stream) /\ Finished(stream, sent, Len(stream))
           \/ sent = << >> /\ Len(stream) = 0
<1>1. Answering /\ ~behind /\ answer = << >>
  BY DEF Answering, Handover, Signalled, Place
<1>2. sent \o answer = sent
  BY <1>1, Chained, Kinds DEF Tally
<1>. QED
  BY <1>1, <1>2 DEF Message

\* OaiStreamHandler holds every chunk back until the next one arrives, and hands the last one
\* to HandleFinalResponse: however the stream ends, no piece of the answer is sent twice, but
\* for the one a writer left behind may share with the final response; and none of a stream
\* that nobody aborts is lost.  For streams of any length and any pieces.
THEOREM PiecesOnce == Spec => []EveryPieceOnce
<1>1. Message /\ Tally /\ Place /\ Handover => EveryPieceOnce
  <2> SUFFICES ASSUME Message, Tally, Place, Handover PROVE EveryPieceOnce
    OBVIOUS
  <2>1. sent \in Seq(Events) /\ pending \in Seq(Events) /\ answer \in Seq(Events) /\ Total <= Allowed
    BY DEF Tally
  <2>2. Cardinality(Deltas) = Sent(sent)
    <3>1. DOMAIN sent = 1..Len(sent)
      BY <2>1
    <3>2. Deltas = DeltasOf(sent)
      BY <3>1 DEF Deltas, DeltasOf, Is
    <3>. QED
      BY <3>2 DEF Sent
  <2>3. \A n : Cardinality(Pieces(n)) = PiecesUpTo(stream, n)
    BY DEF Pieces, PiecesUpTo, IsPiece
  <2>4. Sent(sent) \in Nat /\ Sent(pending) \in Nat /\ Sent(answer) \in Nat
    BY <2>1, SentAdds
  <2>5. Cardinality(Deltas) <= Cardinality(Pieces(next - 1)) + (IF behind THEN 1 ELSE 0)
    <3>1. Converted \in 0..(next - 1) /\ next - 1 \in Nat
      BY HeldChunk
    <3>2. /\ PiecesUpTo(stream, Converted) <= PiecesUpTo(stream, next - 1)
          /\ PiecesUpTo(stream, Converted) \in Nat /\ PiecesUpTo(stream, next - 1) \in Nat
      BY <3>1, PiecesCounted
    <3>3. Sent(sent) <= Allowed
      BY <2>1, <2>4, <3>2 DEF Total, Allowed
    <3>4. Allowed <= PiecesUpTo(stream, next - 1) + (IF behind THEN 1 ELSE 0)
      BY <3>2 DEF Allowed
    <3>5. Allowed \in Nat
      BY <3>2 DEF Allowed
    <3>. QED
      BY <2>2, <2>3, <2>4, <3>2, <3>3, <3>4, <3>5
  <2>6. main = "returned" /\ ~Aborted => Cardinality(Deltas) = Cardinality(Pieces(Len(stream)))
    <3>1. ASSUME Finished(stream, sent, Len(stream)) PROVE Sent(sent) = PiecesUpTo(stream, Len(stream))
      BY <3>1 DEF Finished
    <3>2. ASSUME sent = << >>, Len(stream) = 0 PROVE Sent(sent) = PiecesUpTo(stream, Len(stream))
      BY <3>2, SentOfFew, PiecesCounted
    <3>. QED
      BY <2>2, <2>3, <3>1, <3>2, AllSent
  <2>. QED
    BY <2>5, <2>6 DEF EveryPieceOnce
<1>. QED
  BY <1>1, MessageInductive, TallyInductive, PlaceInductive, HandoverInductive, PTL

\* StreamResponseOpenAI2Claude makes a message of the Claude protocol of what any upstream
\* sends: every delta in an open block, thinking and text in blocks one after the other, and
\* nothing after message_stop, unless the final response overtakes a writer; and a message
\* that is complete if nobody aborts the stream.
THEOREM WellFormed == Spec => []MessageWellFormed
<1>1. Message /\ Tally /\ Place /\ Handover => MessageWellFormed
  <2> SUFFICES ASSUME Message, Tally, Place, Handover PROVE MessageWellFormed
    OBVIOUS
  <2>1. StreamLength
    BY StreamIsTyped
  <2>2. DOMAIN sent = 1..Len(sent) /\ Len(sent) \in Nat
    BY DEF Tally
  <2>3. ASSUME ~behind PROVE DeltaInOpenBlock /\ BlocksInTurn /\ NothingAfterStop
    <3>1. DeltasOpen(sent) /\ StopIsLast(sent) /\ (OrderlyOne(stream) => TurnsOnce(sent))
      BY <2>3, MessageSound
    <3>2. DeltaInOpenBlock
      BY <2>2, <3>1 DEF DeltaInOpenBlock, DeltasOpen, Is, Opened
    <3>3. BlocksInTurn
      <4>1. Orderly => OrderlyOne(stream)
        BY DEF Orderly, OrderlyOne
      <4>2. HeadedOnce => \A n \in 1..Len(sent) : ~Twice(sent, n - 1)
        <5>1. \A n \in 1..Len(sent) : 1..(n - 1) \subseteq 1..Len(sent)
          BY <2>2
        <5>. QED
          BY <2>2, <5>1 DEF HeadedOnce, Twice, Is
      <4>3. ASSUME Orderly, HeadedOnce PROVE InTurn(sent)
        BY <3>1, <4>1, <4>2, <4>3 DEF TurnsOnce, InTurn
      <4>. QED
        BY <2>2, <4>3 DEF BlocksInTurn, InTurn, Is, Opened
    <3>4. NothingAfterStop
      BY <2>2, <3>1 DEF NothingAfterStop, StopIsLast, Is
    <3>. QED
      BY <3>2, <3>3, <3>4
  <2>4. CompleteMessage
    <3> SUFFICES ASSUME main = "returned", ~Aborted, Len(stream) > 2,
                        \E i \in DOMAIN stream : stream[i].finish
                 PROVE  /\ Is(1, "message_start") /\ \A n \in 2 .. Len(sent) : ~Is(n, "message_start")
                        /\ Is(Len(sent), "message_stop")
                        /\ \/ Is(Len(sent) - 1, "message_delta")
                           \/ Last(stream).kind = "none"
      BY DEF CompleteMessage
    <3>1. Finished(stream, sent, Len(stream))
      BY AllSent
    <3>2. /\ Headed(sent) /\ Over(sent) /\ StopIsLast(sent)
          /\ stream[Len(stream)].kind = "none" \/ sent[Len(sent) - 1][1] = "message_delta"
      BY <2>1, <3>1 DEF Finished, StreamLength
    <3>3. sent[Len(sent)][1] = "message_stop"
      BY <3>2 DEF Over, StopIsLast
    <3>. QED
      BY <3>2, <3>3 DEF Headed, Is, Last
  <2>. QED
    BY <2>3, <2>4 DEF MessageWellFormed
<1>. QED
  BY <1>1, MessageInductive, TallyInductive, PlaceInductive, HandoverInductive, PTL

-----------------------------------------------------------------------------
(* The breaker: for any number of goroutines and any threshold.             *)

\* While no late result has been recorded, a probe in flight is the only one,
\* and the breaker is still half-open for it.
SingleProbe ==
    ~stale => /\ \A c, d \in Probing : c = d
              /\ state # "halfopen" => Probing = {}

BreakerInv == BreakerTypeOK /\ CountMatchesState /\ HalfOpenHasProbe /\ SingleProbe

\* The count and the state move together, a half-open breaker has its probe.
LEMMA BreakerInductive == BreakerSpec => []BreakerInv
<1> USE Trips
<1>1. BreakerInit => BreakerInv
  <2> SUFFICES ASSUME BreakerInit PROVE BreakerInv
    OBVIOUS
  <2>1. BreakerTypeOK /\ CountMatchesState
    <3>1. 0 < Threshold /\ 0 \in 0 .. Threshold
      OBVIOUS
    <3>2. call \in [Calls -> {"idle", "admitted", "probe"}]
      BY DEF BreakerInit
    <3>. QED
      BY <3>1, <3>2 DEF BreakerInit, BreakerTypeOK, CountMatchesState
  <2>2. Probing = {}
    BY DEF BreakerInit, Probing
  <2>. QED
    BY <2>1, <2>2 DEF BreakerInit, BreakerInv, HalfOpenHasProbe, SingleProbe
<1>2. BreakerInv /\ [BreakerNext]_breakerVars => BreakerInv'
  <2> SUFFICES ASSUME BreakerInv, [BreakerNext]_breakerVars PROVE BreakerInv'
    OBVIOUS
  <2> USE DEF BreakerInv, BreakerTypeOK, CountMatchesState, HalfOpenHasProbe, SingleProbe, Probing
  <2>1. ASSUME NEW c \in Calls, Allow(c) PROVE BreakerInv'
    BY <2>1 DEF Allow, AdmitsCall, AdmitsProbe, ProbeStarts
  <2>2. ASSUME NEW c \in Calls, Reject(c) PROVE BreakerInv'
    BY <2>2 DEF Reject, breakerVars
  <2>3. ASSUME NEW c \in Calls, RecordSuccess(c) PROVE BreakerInv'
    <3>1. BreakerTypeOK' /\ CountMatchesState' /\ HalfOpenHasProbe'
      BY <2>3 DEF RecordSuccess, Ends, InFlight, ResetFails
    <3>2. Probing' = Probing \ {c} /\ state' = "closed"
      BY <2>3 DEF RecordSuccess, Ends
    <3>3. SingleProbe'
      <4> SUFFICES ASSUME ~stale' PROVE Probing' = {}
        BY <3>2
      <4>1. ~stale /\ (state = "closed" \/ call[c] = "probe")
        BY <2>3 DEF RecordSuccess, Ends
      <4>. QED
        BY <2>3, <3>2, <4>1
    <3>. QED
      BY <3>1, <3>3
  <2>4. ASSUME NEW c \in Calls, RecordFailure(c) PROVE BreakerInv'
    <3>1. BreakerTypeOK' /\ CountMatchesState'
      <4>1. CASE state = "closed"
        BY <2>4, <4>1 DEF RecordFailure, Ends, InFlight
      <4>2. CASE state # "closed"
        BY <2>4, <4>2 DEF RecordFailure, Ends, InFlight
      <4>. QED
        BY <4>1, <4>2
    <3>2. Probing' = Probing \ {c} /\ state' # "halfopen"
      BY <2>4 DEF RecordFailure, Ends
    <3>3. SingleProbe'
      <4> SUFFICES ASSUME ~stale' PROVE Probing' = {}
        BY <3>2
      <4>1. ~stale /\ (state = "closed" \/ call[c] = "probe")
        BY <2>4 DEF RecordFailure, Ends
      <4>. QED
        BY <2>4, <3>2, <4>1
    <3>. QED
      BY <3>1, <3>2, <3>3
  <2>5. ASSUME NEW c \in Calls, Abandon(c) PROVE BreakerInv'
    BY <2>5 DEF Abandon, InFlight
  <2>6. CASE TimeoutElapses
    BY <2>6 DEF TimeoutElapses
  <2>7. CASE Heal
    BY <2>7 DEF Heal
  <2>8. CASE UNCHANGED breakerVars
    BY <2>8 DEF breakerVars
  <2>. QED
    BY <2>1, <2>2, <2>3, <2>4, <2>5, <2>6, <2>7, <2>8 DEF BreakerNext
<1>. QED
  BY <1>1, <1>2, PTL DEF BreakerSpec

\* recordSuccess and recordFailure keep the state and consecutiveFails in step.
THEOREM CountMatches == BreakerSpec => []CountMatchesState
<1>1. BreakerInv => CountMatchesState
  BY DEF BreakerInv
<1>. QED
  BY <1>1, BreakerInductive, PTL

\* allow, recordSuccess and recordFailure never leave the breaker half-open
\* without a call that can end that state.
THEOREM ProbeInFlight == BreakerSpec => []HalfOpenHasProbe
<1>1. BreakerInv => HalfOpenHasProbe
  BY DEF BreakerInv
<1>. QED
  BY <1>1, BreakerInductive, PTL

\* allow lets one probe through at a time as long as no late result interferes.
THEOREM SingleProbeUnlessStale == BreakerSpec => []OneProbeUnlessStale
<1>1. ASSUME BreakerInv, ~stale PROVE Cardinality(Probing) <= 1
  <2>1. CASE Probing = {}
    <3>1. Cardinality(Probing) = 0
      BY <2>1, FS_EmptySet
    <3>. QED
      BY <3>1
  <2>2. ASSUME NEW c \in Probing PROVE Cardinality(Probing) <= 1
    <3>1. Probing = {c}
      BY <1>1, <2>2 DEF BreakerInv, SingleProbe
    <3>2. Cardinality(Probing) = 1
      BY <3>1, FS_Singleton
    <3>. QED
      BY <3>2
  <2>. QED
    BY <2>1, <2>2
<1>2. BreakerInv => OneProbeUnlessStale
  BY <1>1 DEF OneProbeUnlessStale
<1>. QED
  BY <1>2, BreakerInductive, PTL

-----------------------------------------------------------------------------
(* The billing outbox: for any number of rows, pods and restarts.           *)

\* The counts a worker carries are covered by calls that were made.
CountsCovered ==
    /\ \A e \in Rows : /\ retry[e] <= calls[e]
                       /\ status[e] = "absent" => retry[e] = 0
                       /\ status[e] \in {"absent", "pending"} => retry[e] < MaxRetries
                       /\ status[e] = "failed" => calls[e] >= MaxRetries
    /\ \A p \in Pods : \A s \in batch[p] : s.retry <= calls[s.row] /\ s.retry < MaxRetries
    /\ \A p \in Pods : reply[p] # NoReply =>
          reply[p].retry < calls[reply[p].row] /\ reply[p].retry < MaxRetries

\* A confirmation stands for an executed action, written down or not.
Confirmed ==
    /\ \A e \in Rows : status[e] = "done" => hold[e] = Target(e)
    /\ \A p \in Pods : reply[p] # NoReply /\ reply[p].ok =>
          hold[reply[p].row] = Target(reply[p].row)

OutboxInv == OutboxTypeOK /\ CountsCovered /\ Confirmed

\* The statements and calls of the workers keep the strengthened invariant.
LEMMA OutboxInductive == OutboxSpec => []OutboxInv
<1> USE Bounds
<1>1. OutboxInit => OutboxInv
  <2> SUFFICES ASSUME OutboxInit PROVE OutboxInv
    OBVIOUS
  <2>1. OutboxTypeOK
    BY DEF OutboxInit, OutboxTypeOK
  <2>2. CountsCovered /\ Confirmed
    BY DEF OutboxInit, CountsCovered, Confirmed
  <2>. QED
    BY <2>1, <2>2 DEF OutboxInv
<1>2. OutboxInv /\ [OutboxNext]_outboxVars => OutboxInv'
  <2> SUFFICES ASSUME OutboxInv, [OutboxNext]_outboxVars PROVE OutboxInv'
    OBVIOUS
  <2> USE DEF OutboxInv, OutboxTypeOK, CountsCovered, Confirmed, table
  <2>1. ASSUME NEW e \in Rows, Enqueue(e) PROVE OutboxInv'
    <3>1. OutboxTypeOK'
      BY <2>1 DEF Enqueue, Target
    <3>2. CountsCovered'
      BY <2>1 DEF Enqueue
    <3>3. \A f \in Rows : hold'[f] = hold[f] \/ hold[f] = "held"
      BY <2>1 DEF Enqueue
    <3>4. Confirmed'
      BY <2>1, <3>3 DEF Enqueue, Outcome, Target
    <3>. QED
      BY <3>1, <3>2, <3>4
  <2>2. ASSUME NEW e \in Rows, BackoffElapses(e) PROVE OutboxInv'
    BY <2>2 DEF BackoffElapses
  <2>3. ASSUME NEW e \in Rows, Expire(e) PROVE OutboxInv'
    BY <2>3 DEF Expire, Target
  <2>4. ASSUME NEW p \in Pods, Select(p) PROVE OutboxInv'
    BY <2>4 DEF Select, Snapshot
  <2>5. ASSUME NEW p \in Pods, NEW s \in batch[p], CallPlatform(p, s) PROVE OutboxInv'
    <3>1. PICK ok \in BOOLEAN, executed \in BOOLEAN :
             /\ ok => Accepts(s.row)
             /\ ok /\ hold[s.row] = "held" => executed
             /\ reply' = [reply EXCEPT ![p] = [row |-> s.row, retry |-> s.retry, ok |-> ok]]
             /\ hold' = [hold EXCEPT ![s.row] =
                            IF executed /\ @ = "held" THEN Target(s.row) ELSE @]
      BY <2>5 DEF CallPlatform
    <3>2. s.row \in Rows /\ s.retry \in Nat
      BY DEF Snapshot
    <3>3. OutboxTypeOK'
      BY <2>5, <3>1, <3>2 DEF CallPlatform, Outcome, Target
    <3>4. \A e \in Rows : calls[e] <= calls'[e]
      BY <2>5, <3>2 DEF CallPlatform
    <3>5. calls'[s.row] > s.retry
      BY <2>5, <3>2 DEF CallPlatform
    <3>6. CountsCovered'
      <4>1. UNCHANGED <<status, retry>> /\ \A q \in Pods : batch'[q] \subseteq batch[q]
        BY <2>5 DEF CallPlatform
      <4>2. \A q \in Pods : \A t \in batch[q] : t.row \in Rows /\ t.retry \in Nat
        BY DEF Snapshot
      <4>3. \A q \in Pods : \A t \in batch'[q] : t.retry <= calls'[t.row] /\ t.retry < MaxRetries
        BY <3>3, <3>4, <4>1, <4>2
      <4>4. ASSUME NEW q \in Pods, reply'[q] # NoReply
            PROVE  reply'[q].retry < calls'[reply'[q].row] /\ reply'[q].retry < MaxRetries
        <5>1. CASE q = p
          BY <3>1, <3>2, <3>5, <5>1
        <5>2. CASE q # p
          BY <3>1, <3>3, <3>4, <4>4, <5>2 DEF Outcome
        <5>. QED
          BY <5>1, <5>2
      <4>5. \A e \in Rows : /\ retry'[e] <= calls'[e]
                            /\ status'[e] = "absent" => retry'[e] = 0
                            /\ status'[e] \in {"absent", "pending"} => retry'[e] < MaxRetries
                            /\ status'[e] = "failed" => calls'[e] >= MaxRetries
        BY <3>3, <3>4, <4>1
      <4>. QED
        BY <4>3, <4>4, <4>5
    <3>7. \A e \in Rows : hold'[e] = hold[e] \/ hold[e] = "held"
      BY <3>1, <3>2
    <3>8. ok => hold'[s.row] = Target(s.row)
      BY <3>1, <3>2 DEF Accepts
    <3>9. Confirmed'
      BY <2>5, <3>1, <3>2, <3>7, <3>8 DEF CallPlatform, Outcome, NoReply, Target
    <3>. QED
      BY <3>3, <3>6, <3>9
  <2>6. ASSUME NEW p \in Pods, MarkDone(p) PROVE OutboxInv'
    BY <2>6 DEF MarkDone, StillPending, Outcome, NoReply
  <2>7. ASSUME NEW p \in Pods, MarkRetry(p) PROVE OutboxInv'
    <3> DEFINE e == reply[p].row
               n == reply[p].retry + 1
    <3>1. /\ e \in Rows /\ n \in Nat /\ n <= MaxRetries /\ n <= calls[e]
          /\ reply' = [reply EXCEPT ![p] = NoReply]
          /\ UNCHANGED <<hold, batch, calls, crashes>>
      BY <2>7 DEF MarkRetry, Outcome
    <3>2. CASE ~StillPending(e)
      BY <2>7, <3>1, <3>2 DEF MarkRetry
    <3>3. CASE StillPending(e)
      <4>1. /\ retry' = [retry EXCEPT ![e] = n]
            /\ status' = [status EXCEPT ![e] = IF n >= MaxRetries THEN "failed" ELSE "pending"]
            /\ due' = [due EXCEPT ![e] = n >= MaxRetries]
        BY <2>7, <3>3 DEF MarkRetry, NextCount, Exhausted
      <4>2. OutboxTypeOK'
        BY <3>1, <4>1
      <4>3. CountsCovered'
        BY <3>1, <4>1 DEF Outcome
      <4>4. Confirmed'
        BY <3>1, <4>1
      <4>. QED
        BY <4>2, <4>3, <4>4
    <3>. QED
      BY <3>2, <3>3
  <2>8. ASSUME NEW p \in Pods, Crash(p) PROVE OutboxInv'
    BY <2>8 DEF Crash
  <2>9. CASE UNCHANGED outboxVars
    BY <2>9 DEF outboxVars
  <2>. QED
    BY <2>1, <2>2, <2>3, <2>4, <2>5, <2>6, <2>7, <2>8, <2>9 DEF OutboxNext, Worker, Terminated
<1>. QED
  BY <1>1, <1>2, PTL DEF OutboxSpec

\* ProcessBillingOutbox marks a row done only when the platform executed its action.
THEOREM DoneExecuted == OutboxSpec => []DoneMeansExecuted
<1>1. OutboxInv => DoneMeansExecuted
  BY DEF OutboxInv, Confirmed, DoneMeansExecuted
<1>. QED
  BY <1>1, OutboxInductive, PTL

\* ProcessBillingOutbox gives a row up only after MaxRetries calls.
THEOREM FailedTried == OutboxSpec => []FailedMeansTried
<1>1. OutboxInv => FailedMeansTried
  BY DEF OutboxInv, CountsCovered, FailedMeansTried
<1>. QED
  BY <1>1, OutboxInductive, PTL

\* The guarded updates make the first conclusion about a row the last one.
THEOREM FinalStays == OutboxSpec => FinalStatusStays
<1> DEFINE Final == \A e \in Rows : status[e] \in {"done", "failed"} => status'[e] = status[e]
<1>1. OutboxInv /\ [OutboxNext]_outboxVars => [Final]_outboxVars
  <2> SUFFICES ASSUME OutboxInv, [OutboxNext]_outboxVars, NEW e \in Rows, status[e] \in {"done", "failed"}
               PROVE  status'[e] = status[e]
    OBVIOUS
  <2> USE DEF OutboxInv, OutboxTypeOK, table
  <2>1. ASSUME NEW f \in Rows, Enqueue(f) \/ BackoffElapses(f) \/ Expire(f)
        PROVE  status'[e] = status[e]
    BY <2>1 DEF Enqueue, BackoffElapses, Expire
  <2>2. ASSUME NEW p \in Pods, MarkDone(p) PROVE status'[e] = status[e]
    BY <2>2 DEF MarkDone, StillPending
  <2>3. ASSUME NEW p \in Pods, MarkRetry(p) PROVE status'[e] = status[e]
    BY <2>3 DEF MarkRetry, StillPending
  <2>4. ASSUME NEW p \in Pods, Select(p) \/ Crash(p) \/ \E s \in batch[p] : CallPlatform(p, s)
        PROVE  status'[e] = status[e]
    BY <2>4 DEF Select, Crash, CallPlatform
  <2>5. CASE UNCHANGED outboxVars
    BY <2>5 DEF outboxVars
  <2>. QED
    BY <2>1, <2>2, <2>3, <2>4, <2>5 DEF OutboxNext, Worker, Terminated
<1>. QED
  BY <1>1, OutboxInductive, PTL DEF OutboxSpec, FinalStatusStays
=============================================================================
