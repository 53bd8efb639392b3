---------------------------- MODULE ClaudeEvents ----------------------------
(***************************************************************************)
(* The conversion of one chunk of an OpenAI stream into events of the      *)
(* Claude protocol (StreamResponseOpenAI2Claude), with the state it keeps  *)
(* between the chunks.  A chunk is what its first choice carries:          *)
(*    kind    "role" (an empty delta), "think", "text", "tool" (the name   *)
(*            of a tool call), "args" (its arguments), "none" (no choice)  *)
(*    index   of the tool call                                             *)
(*    finish  whether it has a finish_reason,  usage  whether it reports it *)
(* Events are <<type>>, and <<type, index>> for those of a content block.  *)
(***************************************************************************)
EXTENDS Integers, Sequences

Chunks == [kind : {"role", "think", "text", "tool", "args", "none"}, index : Nat,
           finish : BOOLEAN, usage : BOOLEAN]

\* info.SendResponseCount, LastMessagesType, Index, Done, and whether Usage is set.
NewConversion == [count |-> 0, last |-> "none", index |-> 0, done |-> FALSE, usage |-> FALSE]

Start(i) == <<"content_block_start", i>>
Delta(i) == <<"content_block_delta", i>>
Stop(i)  == <<"content_block_stop", i>>

Holds(kind) == CASE kind = "think" -> "thinking" [] kind = "text" -> "text" [] OTHER -> "tools"

\* A finish_reason ends the block and the message; message_delta needs a usage.
Ending(r, chunk) ==
    IF ~chunk.finish THEN r
    ELSE [events |-> r.events \o <<Stop(r.conv.index)>>
                     \o (IF chunk.usage \/ r.conv.usage THEN << <<"message_delta">> >> ELSE << >>)
                     \o << <<"message_stop">> >>,
          conv |-> [r.conv EXCEPT !.done = TRUE]]

\* The first chunk the client is sent.
First(c, chunk) ==
    [conv |-> IF chunk.kind \in {"role", "none"} THEN c ELSE [c EXCEPT !.last = Holds(chunk.kind)],
     events |-> << <<"message_start">> >>
                \o CASE chunk.kind \in {"think", "text"} -> <<Start(c.index), Delta(c.index)>>
                     [] chunk.kind = "tool" -> <<Start(0)>>
                     [] chunk.kind = "args" -> <<Start(0), Delta(c.index)>>
                     [] OTHER -> << >>]

\* A tool call brings the index of its block along.
Tool(c, chunk) ==
    [conv |-> [c EXCEPT !.last = "tools", !.index = chunk.index],
     events |-> (IF c.last # "tools" THEN <<Stop(c.index)>> ELSE << >>)
                \o (IF chunk.kind = "tool" THEN <<Start(chunk.index)>> ELSE <<Delta(chunk.index)>>)]

Think(c) ==
    [conv |-> [c EXCEPT !.last = "thinking"],
     events |-> (IF c.last # "thinking" THEN <<Start(c.index)>> ELSE << >>) \o <<Delta(c.index)>>]

\* Mutant of TextIndex: the text goes on in the block that has just been stopped.
SameIndex(c) == c.index

TextIndex(c) == IF c.last \in {"thinking", "tools"} THEN c.index + 1 ELSE c.index

Text(c) ==
    [conv |-> [c EXCEPT !.last = "text", !.index = TextIndex(c)],
     events |-> (IF c.last \in {"thinking", "tools"} THEN <<Stop(c.index)>> ELSE << >>)
                \o (IF c.last # "text" THEN <<Start(TextIndex(c))>> ELSE << >>)
                \o <<Delta(TextIndex(c))>>]

Contents(c, chunk) ==
    IF c.count = 1 THEN First(c, chunk)
    ELSE CASE chunk.kind \in {"tool", "args"} -> Tool(c, chunk)
           [] chunk.kind = "think" -> Think(c)
           [] chunk.kind = "text" -> Text(c)
           [] OTHER -> [conv |-> c, events |-> << >>]

\* StreamResponseOpenAI2Claude.
Convert(c, chunk) ==
    IF c.done THEN [conv |-> c, events |-> << >>] ELSE Ending(Contents(c, chunk), chunk)

\* HandleStreamFormat counts the chunk and keeps a usage it reports.
HandleStreamFormat(c, chunk) ==
    Convert([c EXCEPT !.count = @ + 1, !.usage = @ \/ chunk.usage], chunk)

\* HandleFinalResponse: not counted, and the usage has been computed by now.
HandleFinalResponse(c, chunk) == Convert([c EXCEPT !.usage = TRUE], chunk)

\* The conversion is over when the events of the final response have gone out.
AllDone(c) == [c EXCEPT !.done = TRUE]
=============================================================================
