------------------------- MODULE MCMetricsWindows --------------------------
(***************************************************************************)
(* Instances of MetricsWindows for TLC.                                    *)
(***************************************************************************)
EXTENDS MetricsWindows

CONSTANTS s1, s2

R(s, i, t, l, e) == [sub |-> s, id |-> i, sentAt |-> t, lat |-> l, err |-> e]

\* Two bots of s1: the first sends two orders, the second one or two, of which
\* the last may fail; s2 has one bot with two orders in two windows.
TwoBots ==
    {s1 :> (<<R(s1, 1, 0, 3, FALSE), R(s1, 2, a, 1, FALSE)>> \o second)
     @@ s2 :> <<R(s2, 1, 2, 2, FALSE), R(s2, 2, 4, 5, FALSE)>> :
        a \in {2, 4},
        second \in {<<R(s1, 3, 0, 2, FALSE)>>, <<R(s1, 3, 5, 2, TRUE)>>,
                    <<R(s1, 3, 1, 2, FALSE), R(s1, 4, 3, 4, FALSE)>>}}

\* Ten orders of s1 in one window, which an eleventh closes: the 50th, 90th and
\* 99th percentiles are three different samples, in the row and in the
\* statistics.
OneFullWindow ==
    {s1 :> Append([i \in 1..10 |-> R(s1, i, i \div 4, (i * 7) % 11, FALSE)],
                  R(s1, 11, 3, 11, FALSE))
     @@ s2 :> <<>>}

\* One bot of s1 sends six orders in time order, in five windows, of which four
\* close: a fault could spoil more than one of them.
FiveWindows ==
    {s1 :> <<R(s1, 1, 0, 1, FALSE), R(s1, 2, 4, 3, FALSE), R(s1, 3, 6, 2, FALSE),
             R(s1, 4, 7, 1, FALSE), R(s1, 5, 9, 2, FALSE), R(s1, 6, 12, 2, FALSE)>>
     @@ s2 :> <<R(s2, 1, 2, 2, FALSE)>>}

MixedRuns == TwoBots \cup OneFullWindow \cup FiveWindows
=============================================================================
