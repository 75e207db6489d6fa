------------------------------- MODULE MCHistory -------------------------------
(* Model checking of History: the values of its constants. *)
EXTENDS History, TLC

CONSTANTS ch1, ch2, ch3, ch4, rec1

\* Two live channels and a recording.
TwoChannels == <<ch1, ch2>>
OneRecording == <<rec1>>
WithRecording == {TwoChannels, OneRecording}

\* All live channels, and a category that has two of them in another order.
ThreeChannels == <<ch1, ch2, ch3>>
Categories == {ThreeChannels, <<ch3, ch2>>}

\* One category, long enough for a page of four entries.
FourChannels == <<ch1, ch2, ch3, ch4>>
OneCategory == {FourChannels}
OnlyTwo == {TwoChannels}

NoRecordings == << >>

Symmetric == Permutations(Blocks)
================================================================================
