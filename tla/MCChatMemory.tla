---------------------------- MODULE MCChatMemory ----------------------------
(* Instances of ChatMemory for TLC.                                         *)
EXTENDS ChatMemory, TLC

CONSTANTS t1, t2, s1, s2

\* Requests are interchangeable, and so are summaries.
Alike == Permutations({t1, t2}) \cup Permutations({s1, s2})
=============================================================================
