-------------------------- MODULE MC_CleanPredicate --------------------------
(* Two channels, two users, one pattern; limits at times 1 and 2, messages *)
(* at times 1 to 3, so a message can lie before, at or after each limit.  *)
EXTENDS CleanPredicate, TLC

CONSTANTS c1, c2, u1, u2, r1

MCLimits ==
    {None} \cup [kind: {"msg"}, ch: Channels, at: {1, 2}]
           \cup [kind: {"time"}, at: {1, 2}]

MCChannelArgs == {None, Star, {c1}, {c1, c2}}

MCGroupInputs ==
    [users: {None, {u1}}, traverse: {None, 1, MessageLimit + 1},
     first_limit: MCLimits, second_limit: MCLimits,
     use_cache: {None, TRUE, FALSE}, bots_only: BOOLEAN, regex: {None, r1},
     channels: MCChannelArgs]

\* clean_user, clean_all, clean_bots and clean_regex, with the arguments
\* each passes to _clean_messages.
MCSubInputs ==
    LET common == [traverse: {DefaultTraverse, MessageLimit + 1},
                   use_cache: BOOLEAN, channels: MCChannelArgs]
        with(c, b, u, r) ==
            [traverse |-> c.traverse, use_cache |-> c.use_cache,
             channels |-> c.channels, bots_only |-> b, users |-> u,
             regex |-> r]
    IN  {with(c, FALSE, {u}, None) : c \in common, u \in Users}
        \cup {with(c, FALSE, None, None) : c \in common}
        \cup {with(c, TRUE, None, None) : c \in common}
        \cup {with(c, FALSE, None, r1) : c \in common}

MCRangeInputs ==
    [first_limit: MCLimits \ {None}, second_limit: {None},
     channel: {None} \cup Channels]
    \cup [first_limit: MCLimits \ {None}, second_limit: MCLimits \ {None},
          channel: {None} \cup Channels]
=============================================================================
