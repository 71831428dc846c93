------------------------------ MODULE MCCh55x ------------------------------
EXTENDS Ch55x

\* Each kind of command once: a good one, an unknown index, a body too short.
Texts == [tog |-> [t |-> "toggle", i |-> 1, v |-> TRUE, short |-> FALSE],
          far |-> [t |-> "set", i |-> 3, v |-> TRUE, short |-> FALSE],
          cut |-> [t |-> "set", i |-> 0, v |-> TRUE, short |-> TRUE],
          dsc |-> [t |-> "describe", i |-> 3, v |-> TRUE, short |-> FALSE]]

HostBytes == {"tog", "far", "cut", "dsc", "zero", "eol", "ctl", "a1", "a2", "a3"}

Rates == {<<1, 1>>, <<2, 2>>, <<0, 0>>}
Normal == <<1, 1>>
Low == <<2, 2>>

Plan(a, b, open, asks, bytes) ==
    [packets |-> [A |-> a, B |-> b], open |-> open, asks |-> asks, uart |-> bytes,
     stream |-> {}]
\* The host streams on the DATA port and sends one line to the CMD port; both sides stream.
Streams1 == [Plan(<<<<"a1">>>>, <<<<"tog", "eol">>>>, {"B"}, {}, 0)
               EXCEPT !.stream = {"host"}]
Streams2 == [Plan(<<<<"a1">>>>, <<>>, {"A"}, {}, 1) EXCEPT !.stream = {"host", "target"}]
\* A line and a split frame; a frame longer than the buffer; an answer cut by DTR or
\* a halt; data both ways; line coding, touch and descriptors.
HostPlans ==
    {Streams1, Streams2,
     Plan(<<>>, <<<<"ctl", "tog">>, <<"eol", "zero">>, <<"cut", "zero">>>>, {"B"}, {}, 0),
     Plan(<<>>, <<<<"zero", "far">>, <<"far", "far">>, <<"zero">>>>, {}, {}, 0),
     Plan(<<>>, <<<<"zero", "dsc">>, <<"zero">>>>, {"B"},
          [k : {"clear"}, port : {"B"}, dir : {"in"}] \cup [k : {"dtr"}, port : {"B"}, on : {FALSE}], 0),
     Plan(<<<<"a1", "a2">>, <<>>, <<"a3">>>>, <<>>, {}, [k : {"clear"}, port : {"A"}, dir : {"out"}], 0),
     Plan(<<<<"a1">>>>, <<>>, {"A"}, [k : {"clear"}, port : {"A"}, dir : {"in"}], 3),
     Plan(<<>>, <<>>, {"A"},
          [k : {"line"}, port : {"A"}, baud : Rates] \cup
          [k : {"dtr"}, port : {"A"}, on : {FALSE}] \cup [k : {"addr", "plain", "bad"}] \cup
          [k : {"desc"}, size : Descriptors, wlen : Lengths], 1)}
=============================================================================
