---- MODULE MCCommandPath ----
EXTENDS CommandPath

P(verb, tags, vals) == [verb |-> verb, n |-> -1, tags |-> tags, vals |-> vals, whole |-> TRUE]

\* A switch to WFS, a reset, a decoder type and one out of range (it means
\* 0), and packets that are not queued.
MCPackets ==
    {P("/obj/algo", <<"i", "i", "i", "i">>, <<7, 8, 0, 1>>),
     P("/sys/reset", <<>>, <<>>),
     P("/sys/ambi_decoder_type", <<"i">>, <<1>>),
     P("/sys/ambi_decoder_type", <<"i">>, <<9>>),
     P("/scene/list", <<>>, <<>>),
     [P("/sys/reset", <<"b">>, <<0>>) EXCEPT !.whole = FALSE]}

MCCommands == Elements
====
