------------------------------- MODULE Stream -------------------------------
(***************************************************************************)
(* The relay of a streamed answer to a client that speaks the Claude       *)
(* protocol: StreamScannerHandler with its goroutines (the scanner, the    *)
(* writer it starts for every chunk, the ping goroutine and its writer)    *)
(* and the one that called it, and OaiStreamHandler around it, which holds *)
(* every chunk back until the next one arrives.  Every event is a write to *)
(* the client of its own, which may take as long as it likes; the writers  *)
(* exclude each other, but the final response does not wait for them.      *)
(*                                                                         *)
(* stopChan is a buffered channel: a value in it wakes one receiver only.  *)
(* A calm stream meets no timeout, no ping and no disconnecting client.    *)
(***************************************************************************)
EXTENDS Integers, Sequences, FiniteSets, SequencesExt, ClaudeEvents

CONSTANTS
    CalmStreams, RoughStreams,   \* sequences of chunks an upstream may send
    StopChannelBuffer

ASSUME StreamBounds == StopChannelBuffer \in Nat \ {0}

\* What an upstream of the protocol sends: arguments directly follow the name of their
\* tool, a stream that begins with a tool begins with tool 0, only a choice has a
\* finish_reason, and after it comes at most one chunk, with the usage alone.
ASSUME Upstreams ==
    \A s \in CalmStreams \cup RoughStreams :
        /\ s \in Seq(Chunks)
        /\ \A j \in DOMAIN s :
              /\ s[j].kind = "args" =>
                     j > 1 /\ s[j - 1].kind \in {"tool", "args"} /\ s[j - 1].index = s[j].index
              /\ j = 1 /\ s[j].kind = "tool" => s[j].index = 0
              /\ s[j].kind = "none" => ~s[j].finish
              /\ s[j].finish => \A i \in DOMAIN s :
                     i > j => i = j + 1 /\ s[i].kind = "none" /\ ~s[i].finish

NoChunk == [kind |-> "nothing"]

VARIABLES
    stream, hangs, calm,   \* what the upstream sends; whether it then goes silent
    next,                  \* the next chunk the scanner reads
    main, scanner, writer, ping, pinger,   \* where the goroutines are
    stop, closed,          \* stopChan; and whether it and the body are closed
    cancelled, gone,       \* the context of the handler, and of the request
    held, conv, sent,      \* lastStreamData, the conversion, the events sent
    pending, answer,       \* the events the writer, and the final response, have yet to send
    timedOut, stolen,      \* history: a timeout ended something; the ping goroutine
                           \* took the stop signal the handler waits for
    behind                 \* history: the final response found a writer at work

chans  == <<stop, closed, cancelled>>
output == <<held, conv, sent, pending, answer, behind>>
given  == <<stream, hangs, calm>>
vars   == <<given, next, main, scanner, writer, ping, pinger, chans, gone, output, timedOut, stolen>>

Init ==
    /\ \/ calm = TRUE /\ stream \in CalmStreams /\ hangs = FALSE /\ ping = "off"
       \/ calm = FALSE /\ stream \in RoughStreams /\ hangs \in BOOLEAN /\ ping \in {"off", "wait"}
    /\ next = 1
    /\ main = "wait" /\ scanner = "scan" /\ writer = "idle" /\ pinger = "idle"
    /\ stop = 0 /\ closed = FALSE /\ cancelled = FALSE /\ gone = FALSE
    /\ held = NoChunk /\ conv = NewConversion /\ sent = << >> /\ pending = << >> /\ answer = << >>
    /\ timedOut = FALSE /\ stolen = FALSE /\ behind = FALSE

-----------------------------------------------------------------------------

Receive == \/ stop > 0 /\ stop' = stop - 1
           \/ stop = 0 /\ closed /\ stop' = stop

\* SafeSendBool: a send on the closed channel is recovered from.
SafeSendBool ==
    \/ closed /\ stop' = stop
    \/ ~closed /\ stop < StopChannelBuffer /\ stop' = stop + 1

Done == cancelled \/ gone      \* ctx.Done()
Unlocked == writer \notin {"hold", "send"} /\ pinger # "hold"

-----------------------------------------------------------------------------
(* The scanner.                                                             *)

\* A goroutine that was told to stop looks only before it handles a line.
ToldToStop ==
    \/ Done /\ UNCHANGED stop
    \/ Receive

ScanLine ==
    /\ scanner = "scan" /\ next <= Len(stream)
    /\ stop = 0 /\ ~Done
    /\ next' = next + 1
    /\ scanner' = "await" /\ writer' = "lock"
    /\ UNCHANGED <<given, main, ping, pinger, chans, gone, output, timedOut, stolen>>

ScanStops ==
    /\ scanner = "scan" /\ next <= Len(stream)
    /\ ToldToStop
    /\ scanner' = "bye"
    /\ UNCHANGED <<given, next, main, writer, ping, pinger, closed, cancelled, gone, output, timedOut, stolen>>

\* Mutant of Unblocked: the body stays open, a silent upstream is read for ever.
EndOfStream == ~hangs /\ next > Len(stream)

\* [DONE], the end of the body, or the body closed by the handler.
Unblocked == EndOfStream \/ closed

ScanEnds ==
    /\ scanner = "scan" /\ Unblocked
    /\ scanner' = "bye"
    /\ UNCHANGED <<given, next, main, writer, ping, pinger, chans, gone, output, timedOut, stolen>>

Written ==
    /\ scanner = "await" /\ writer = "done"
    /\ scanner' = "scan" /\ writer' = "idle"
    /\ UNCHANGED <<given, next, main, ping, pinger, chans, gone, output, timedOut, stolen>>

\* The scanner leaves its writer behind.
AwaitEnds ==
    /\ scanner = "await"
    /\ scanner' = "bye"
    /\ \/ ~calm /\ timedOut' = TRUE /\ UNCHANGED stop
       \/ ToldToStop /\ UNCHANGED timedOut
    /\ UNCHANGED <<given, next, main, writer, ping, pinger, closed, cancelled, gone, output, stolen>>

\* Mutant of SignalsEnd: the scanner exits without a word.
ExitsSilently == UNCHANGED stop

SignalsEnd == SafeSendBool

\* Deferred: wg.Done() has been called, the signal comes after it.
ScannerExits ==
    /\ scanner = "bye"
    /\ SignalsEnd
    /\ scanner' = "gone"
    /\ UNCHANGED <<given, next, main, writer, ping, pinger, closed, cancelled, gone, output, timedOut, stolen>>

-----------------------------------------------------------------------------
(* The writer, with dataHandler: the chunk before goes out, this one stays. *)

WriterLocks ==
    /\ writer = "lock" /\ Unlocked
    /\ writer' = "hold"
    /\ UNCHANGED <<given, next, main, scanner, ping, pinger, chans, gone, output, timedOut, stolen>>

DataHandler ==
    /\ writer = "hold"
    /\ writer' = "send"
    /\ IF held = NoChunk THEN UNCHANGED <<conv, pending>>
       ELSE LET r == HandleStreamFormat(conv, held) IN conv' = r.conv /\ pending' = r.events
    /\ UNCHANGED <<given, next, main, scanner, ping, pinger, chans, gone, held, sent, answer, behind, timedOut, stolen>>

WriterSends ==
    /\ writer = "send" /\ pending # << >>
    /\ sent' = Append(sent, Head(pending)) /\ pending' = Tail(pending)
    /\ UNCHANGED <<given, next, main, scanner, writer, ping, pinger, chans, gone, held, conv, answer, behind, timedOut, stolen>>

\* Only now does lastStreamData change.
HoldBack ==
    /\ writer = "send" /\ pending = << >>
    /\ held' = stream[next - 1]
    /\ writer' = "done"
    /\ UNCHANGED <<given, next, main, scanner, ping, pinger, chans, gone, conv, sent, pending, answer, behind, timedOut, stolen>>

-----------------------------------------------------------------------------
(* Pings.                                                                   *)

\* The ticker is stopped when the handler has signalled its end.
PingTick ==
    /\ ping = "wait" /\ pinger \in {"idle", "done"}
    /\ main \in {"wait", "cancel"}
    /\ ping' = "await" /\ pinger' = "lock"
    /\ UNCHANGED <<given, next, main, scanner, writer, chans, gone, output, timedOut, stolen>>

PingLocks ==
    /\ pinger = "lock" /\ Unlocked
    /\ pinger' = "hold"
    /\ UNCHANGED <<given, next, main, scanner, writer, ping, chans, gone, output, timedOut, stolen>>

PingData ==
    /\ pinger = "hold"
    /\ pinger' = "done"
    /\ UNCHANGED <<given, next, main, scanner, writer, ping, chans, gone, output, timedOut, stolen>>

\* An error of the client's connection ends the goroutine.
PingSent ==
    /\ ping = "await" /\ pinger = "done"
    /\ ping' = IF gone THEN "gone" ELSE "wait"
    /\ UNCHANGED <<given, next, main, scanner, writer, pinger, chans, gone, output, timedOut, stolen>>

\* A timeout, of this write or of the whole goroutine.
PingGivesUp ==
    /\ ping \in {"wait", "await"}
    /\ ping' = "gone"
    /\ UNCHANGED <<given, next, main, scanner, writer, pinger, chans, gone, output, timedOut, stolen>>

PingStops ==
    /\ ping \in {"wait", "await"}
    /\ \/ Done /\ UNCHANGED <<stop, stolen>>
       \/ Receive /\ stolen' = (stolen \/ main = "wait")
    /\ ping' = "gone"
    /\ UNCHANGED <<given, next, main, scanner, writer, pinger, closed, cancelled, gone, output, timedOut>>

-----------------------------------------------------------------------------
(* The handler.                                                             *)

MainWakes ==
    /\ main = "wait"
    /\ \/ Receive /\ UNCHANGED timedOut
       \/ gone /\ UNCHANGED <<stop, timedOut>>
       \/ ~calm /\ timedOut' = TRUE /\ UNCHANGED stop
    /\ main' = "cancel"
    /\ UNCHANGED <<given, next, scanner, writer, ping, pinger, closed, cancelled, gone, output, stolen>>

MainCancels ==
    /\ main = "cancel"
    /\ cancelled' = TRUE
    /\ SafeSendBool
    /\ main' = "join"
    /\ UNCHANGED <<given, next, scanner, writer, ping, pinger, closed, gone, output, timedOut, stolen>>

Joined == scanner \in {"bye", "gone"} /\ ping \in {"off", "gone"}

\* wg.Wait(), for at most GoroutineShutdownTimeout.
MainJoins ==
    /\ main = "join"
    /\ \/ Joined /\ UNCHANGED timedOut
       \/ ~calm /\ timedOut' = TRUE
    /\ closed' = TRUE
    /\ main' = "final"
    /\ UNCHANGED <<given, next, scanner, writer, ping, pinger, stop, cancelled, gone, output, stolen>>

Writing == writer \in {"lock", "hold", "send"}

\* Mutant of Flush: the chunk held back is forgotten.
NoFlush == UNCHANGED <<conv, answer>>

Flush == LET r == HandleFinalResponse(conv, held) IN conv' = r.conv /\ answer' = r.events

\* The chunk held back, whatever a writer does meanwhile: the lock is not taken here.
\* Without any chunk there is nothing to unmarshal.
FinalResponse ==
    /\ main = "final"
    /\ IF held = NoChunk THEN main' = "returned" /\ UNCHANGED <<conv, answer>>
       ELSE main' = "answer" /\ Flush
    /\ behind' = Writing
    /\ UNCHANGED <<given, next, scanner, writer, ping, pinger, chans, gone, held, sent, pending, timedOut, stolen>>

MainSends ==
    /\ main = "answer" /\ answer # << >>
    /\ sent' = Append(sent, Head(answer)) /\ answer' = Tail(answer)
    /\ UNCHANGED <<given, next, main, scanner, writer, ping, pinger, chans, gone, held, conv, pending, behind, timedOut, stolen>>

MainReturns ==
    /\ main = "answer" /\ answer = << >>
    /\ conv' = AllDone(conv)
    /\ main' = "returned"
    /\ UNCHANGED <<given, next, scanner, writer, ping, pinger, chans, gone, held, sent, pending, answer, behind, timedOut, stolen>>

ClientLeaves ==
    /\ ~calm /\ ~gone /\ main # "returned"
    /\ gone' = TRUE
    /\ UNCHANGED <<given, next, main, scanner, writer, ping, pinger, chans, output, timedOut, stolen>>

Main    == MainWakes \/ MainCancels \/ MainJoins \/ FinalResponse \/ MainSends \/ MainReturns
Scanner == ScanLine \/ ScanStops \/ ScanEnds \/ Written \/ AwaitEnds \/ ScannerExits
Writer  == WriterLocks \/ DataHandler \/ WriterSends \/ HoldBack
Pinger  == PingLocks \/ PingData
PingEnds == PingSent \/ PingGivesUp \/ PingStops

Next == Main \/ Scanner \/ Writer \/ Pinger \/ PingTick \/ PingEnds \/ ClientLeaves

Spec ==
    /\ Init /\ [][Next]_vars
    /\ WF_vars(Main) /\ WF_vars(Scanner) /\ WF_vars(Writer) /\ WF_vars(Pinger) /\ WF_vars(PingEnds)

-----------------------------------------------------------------------------
(* Properties.                                                              *)

Aborted == gone \/ timedOut

\* A stream that ends by itself leaves no writer behind, so the final response is not
\* written while a chunk still is; and once the scanner has exited, the handler has a
\* signal to wake it, unless the ping goroutine took it (then only the timeout ends the
\* stream).
CleanHandover ==
    /\ main \in {"final", "answer", "returned"} /\ ~Aborted => ~Writing
    /\ scanner = "gone" /\ main = "wait" => stop > 0 \/ stolen

\* However the stream ends, the handler returns and every goroutine exits: closing the
\* body and the channel wakes those that cancel and signal did not, and each write to the
\* client ends some time.
EveryoneExits ==
    <>[](/\ main = "returned" /\ scanner = "gone" /\ ~Writing
         /\ ping \in {"off", "gone"} /\ pinger \in {"idle", "done"})

Is(n, type) == sent[n][1] = type
Opened(n, i) ==    \* block i is open after the first n events
    \E s \in 1..n : sent[s] = Start(i) /\ \A t \in s..n : sent[t] # Stop(i)

\* Every delta belongs to a block that is open.
DeltaInOpenBlock ==
    \A n \in DOMAIN sent : Is(n, "content_block_delta") => Opened(n - 1, sent[n][2])

Orderly == \* thinking, then text, and no tool
    /\ \A i \in DOMAIN stream : stream[i].kind \notin {"tool", "args"}
    /\ \A i, j \in DOMAIN stream : i < j /\ stream[i].kind = "text" => stream[j].kind # "think"

HeadedOnce == \A m, n \in DOMAIN sent : Is(m, "message_start") /\ Is(n, "message_start") => m = n

\* As long as the upstream sends its thinking before its text and no tool calls, the
\* blocks of the message come one after the other, each at an index of its own.  (When
\* only two chunks have arrived, the last is converted as if it were the first: the
\* message begins again, and so may a block.)
BlocksInTurn ==
    Orderly /\ HeadedOnce => \A n \in DOMAIN sent : Is(n, "content_block_start") =>
        \A m \in 1..(n - 1) : Is(m, "content_block_start")
            => sent[m] # sent[n] /\ ~Opened(n - 1, sent[m][2])

Deltas == {n \in DOMAIN sent : Is(n, "content_block_delta")}
Pieces(n) == {i \in 1..n : stream[i].kind \in {"think", "text", "args"}}

\* No piece of the answer is sent twice, however the stream ends, unless a timeout or a
\* client that leaves has the handler overtake a writer; then one piece is, at most: the
\* chunk that is held back until the writer has sent it.  And of a stream that ends by
\* itself each one is sent: neither the one held back nor the one that comes with the end
\* is lost.
EveryPieceOnce ==
    /\ Cardinality(Deltas) <= Cardinality(Pieces(next - 1)) + (IF behind THEN 1 ELSE 0)
    /\ main = "returned" /\ ~Aborted => Cardinality(Deltas) = Cardinality(Pieces(Len(stream)))

\* Nothing follows message_stop.
NothingAfterStop == \A n \in DOMAIN sent : Is(n, "message_stop") => n = Len(sent)

\* A stream of more than two chunks, with a finish_reason, becomes a complete message
\* (a single one lacks its message_start, two have it twice); its stop reason is only
\* lost when the usage comes in a chunk of its own.
CompleteMessage ==
    main = "returned" /\ ~Aborted /\ Len(stream) > 2 /\ (\E i \in DOMAIN stream : stream[i].finish) =>
        /\ Is(1, "message_start") /\ \A n \in 2 .. Len(sent) : ~Is(n, "message_start")
        /\ Is(Len(sent), "message_stop")
        /\ \/ Is(Len(sent) - 1, "message_delta")
           \/ Last(stream).kind = "none"

\* What the client reads is a message of the Claude protocol: deltas in open blocks,
\* blocks one after the other, a start, a stop reason and a stop, and nothing after it;
\* unless the handler overtakes a writer, whose events then mix with those of the final
\* response.
MessageWellFormed ==
    /\ ~behind => DeltaInOpenBlock /\ BlocksInTurn /\ NothingAfterStop
    /\ CompleteMessage
=============================================================================
