------------------------------ MODULE MCStream ------------------------------
(* Calm streams: all of up to three chunks of content, with every way to end. *)
EXTENDS Stream

Chunk(kind, i) == [kind |-> kind, index |-> i, finish |-> FALSE, usage |-> FALSE]
Finish(usage)  == [kind |-> "role", index |-> 0, finish |-> TRUE, usage |-> usage]
Usage          == [kind |-> "none", index |-> 0, finish |-> FALSE, usage |-> TRUE]

Content == {Chunk(k, 0) : k \in {"role", "think", "text", "tool", "args"}} \cup {Chunk("tool", 1)}

\* Arguments follow the name of their tool directly, and tools are counted from 0.
Sane(s) == \A j \in DOMAIN s :
    /\ s[j].kind = "args" => j > 1 /\ s[j - 1] \in {Chunk("tool", 0), Chunk("args", 0)}
    /\ s[j].kind = "tool" /\ s[j].index = 0 => \A i \in 1..(j - 1) : s[i].kind # "tool"
    /\ s[j].kind = "tool" /\ s[j].index = 1 => \E i \in 1..(j - 1) : s[i] = Chunk("tool", 0)

Ends == {<< >>, <<Finish(FALSE)>>, <<Finish(TRUE)>>, <<Finish(FALSE), Usage>>}

MCCalm == {s \o e : s \in {t \in SeqOf(Content, 3) : Sane(t)}, e \in Ends}
\* Rough streams: all of up to two chunks of content that finish.
MCRough == {s \o <<Finish(FALSE)>> : s \in {t \in SeqOf(Content, 2) : Sane(t)}}
              \cup {<<Chunk("text", 0), Finish(FALSE), Usage>>}
=============================================================================
