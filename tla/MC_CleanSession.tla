--------------------------- MODULE MC_CleanSession ---------------------------
(* Instantiates CleanSession for TLC.  Two channels, five messages whose    *)
(* snowflakes carry one sub-tick bit; at the start two messages are past   *)
(* the bulk-delete ceiling and one more passes it when the clock ticks.    *)
(* Batches and history pages hold 2 messages instead of 100, so a channel  *)
(* of 3 messages needs two pages and a full batch plus a leftover.         *)
EXTENDS CleanSession, TLC

CONSTANTS c1, c2

MCChannels == {c1, c2}
MCGuildOrder == <<c1, c2>>

\* Snowflakes 1, 4, 6 in c1 and 3, 7 in c2; born at ticks 0, 2, 3 and 1, 3.
MCMsgs == {1, 3, 4, 6, 7}
MCChan == (1 :> c1) @@ (4 :> c1) @@ (6 :> c1) @@ (3 :> c2) @@ (7 :> c2)

\* `clean all 5 True *`: the whole cache.
CacheAll == [star |-> TRUE, chans |-> <<>>, cache |-> TRUE, match |-> MCMsgs, traverse |-> 5,
             after |-> None, before |-> None]
\* A regex-style clean of every channel's 3 newest messages through
\* history, whose predicate rejects message 7.
HistoryAll ==
    [star |-> TRUE, chans |-> <<>>, cache |-> FALSE, match |-> MCMsgs \ {7}, traverse |-> 3,
     after |-> None, before |-> None]
\* `clean all 2 True *`: the two oldest cached messages are scanned.
CacheTwo == [star |-> TRUE, chans |-> <<>>, cache |-> TRUE, match |-> MCMsgs, traverse |-> 2,
             after |-> None, before |-> None]

MCRequests == {CacheAll, HistoryAll}

\* For two invocations: c1's three messages and message 7 in c2; each clean
\* reads every channel's history.
MCMsgsTwo == {1, 4, 6, 7}
MCChanTwo == [m \in MCMsgsTwo |-> MCChan[m]]
HistoryTwo ==
    [star |-> TRUE, chans |-> <<>>, cache |-> FALSE, match |-> MCMsgsTwo, traverse |-> 3,
     after |-> None, before |-> None]
\* `clean between` two times in c1 that lie around snowflakes 1 and 4 (the
\* spec's window [0, 5)): history runs oldest first from the lower bound,
\* and the second page, message 6, is filtered out by the upper bound.
BetweenTwo ==
    [star |-> FALSE, chans |-> <<c1>>, cache |-> FALSE, match |-> {1, 4}, traverse |-> 3,
     after |-> 0, before |-> 5]
MCRequestsTwo == {HistoryTwo, BetweenTwo}

\* `clean regex ... #c1 #c1`: CleanChannels.convert keeps a channel named
\* twice, so c1's history is read twice and its one matching message is
\* found twice.
DupC1 ==
    [star |-> FALSE, chans |-> <<c1, c1>>, cache |-> FALSE, match |-> {6}, traverse |-> 3,
     after |-> None, before |-> None]
MCRequestsDup == {DupC1}
MCRequestsCacheTwo == {CacheTwo}
====
