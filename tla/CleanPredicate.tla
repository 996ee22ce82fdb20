--------------------------- MODULE CleanPredicate ---------------------------
(***************************************************************************)
(* What a clean command decides before it searches anything               *)
(* (src/bot/exts/moderation/clean.py): the arguments the command           *)
(* front-ends pass to _clean_messages, the checks of _validate_input, the  *)
(* resolution of the channel scope and of the limits (lines 367-382), the *)
(* predicate of _build_predicate, and the time window channel.history is   *)
(* asked for (lines 396-402).  These are pure functions of the arguments;  *)
(* a behaviour is one command invocation going through them.              *)
(*                                                                         *)
(* A message keeps what the predicate reads: author, bot flag, the         *)
(* patterns that find a match in its content or embed text, creation time *)
(* and channel.  A time limit (Age or ISODateTime) is a point of time; a   *)
(* message limit also has its channel.  None and the literal "*" are model *)
(* values.                                                                 *)
(***************************************************************************)
EXTENDS Naturals, FiniteSets, Sequences

CONSTANTS
    Channels,          \* text channels of the guild
    Users,             \* users who post messages
    Patterns,          \* compiled regular expressions
    Times,             \* creation times messages and limits can have
    Here,              \* ctx.channel, the channel the command is used in
    MessageLimit,      \* CleanMessages.message_limit
    DefaultTraverse,   \* DEFAULT_TRAVERSE
    None,              \* Python's None
    Star,              \* the channel argument "*"
    GroupInputs,       \* arguments given to clean_group
    SubInputs,         \* arguments of clean_user/all/bots/regex, as passed on
    RangeInputs        \* arguments given to clean_until and clean_between

ASSUME Here \in Channels /\ Times \subseteq Nat
ASSUME {MessageLimit, DefaultTraverse} \subseteq Nat

Messages == [author: Users, bot: BOOLEAN, hits: SUBSET Patterns,
             at: Times, ch: Channels]

\* CleanLimit: a message, or a duration or timestamp resolved to a time.
MessageLimits == [kind: {"msg"}, ch: Channels, at: Times]
TimeLimits == [kind: {"time"}, at: Times]
Limits == {None} \cup MessageLimits \cup TimeLimits

IsMessage(l) == l # None /\ l.kind = "msg"

\* Python truthiness of an optional int, and of an optional list.
TruthyInt(t) == t # None /\ t # 0
Truthy(x) == x # None /\ x # {}

VARIABLES
    args,     \* the arguments _clean_messages is called with
    result    \* error "pending", or what lines 357-385 make of args

vars == <<args, result>>

-----------------------------------------------------------------------------
(* The command front-ends.                                                 *)

Args(traverse, channels, bots_only, users, regex, first_limit, second_limit, use_cache) ==
    [traverse |-> traverse, channels |-> channels, bots_only |-> bots_only,
     users |-> users, regex |-> regex, first_limit |-> first_limit,
     second_limit |-> second_limit, use_cache |-> use_cache]

\* clean_group, line 455: without any argument the help is sent instead.
GroupHelps(users, traverse, first_limit, second_limit, regex, channels) ==
    ~ \/ TruthyInt(traverse) \/ Truthy(users) \/ first_limit # None
      \/ second_limit # None \/ regex # None \/ Truthy(channels)

\* clean_group, lines 459-469: the traverse default depends on first_limit,
\* and the cache is used by default only for "*".
CleanGroup(users, traverse, first_limit, second_limit, use_cache, bots_only, regex, channels) ==
    Args(IF TruthyInt(traverse) THEN traverse
         ELSE IF first_limit # None THEN MessageLimit ELSE DefaultTraverse,
         channels, bots_only, users, regex, first_limit, second_limit,
         IF use_cache = None THEN channels = Star ELSE use_cache)

\* clean_until and clean_between, lines 540-545 and 564-570: the whole
\* message limit is traversed, in the one channel given if any.
CleanRange(first_limit, second_limit, channel) ==
    Args(MessageLimit, IF channel = None THEN None ELSE {channel}, FALSE,
         None, None, first_limit, second_limit, TRUE)

-----------------------------------------------------------------------------
(* Lines 357-385 of _clean_messages.                                       *)

\* _validate_input, lines 99-115: the first check that fails names the
\* exception raised.
ValidateInput(a) ==
    CASE a.traverse > MessageLimit -> "BadArgument"
      [] (IsMessage(a.first_limit) \/ IsMessage(a.second_limit))
            /\ Truthy(a.channels) -> "BadArgument"
      [] IsMessage(a.first_limit) /\ IsMessage(a.second_limit)
            /\ a.first_limit.ch # a.second_limit.ch -> "BadArgument"
      [] Truthy(a.users) /\ a.bots_only -> "BadArgument"
      [] a.second_limit # None /\ a.first_limit = None -> "ValueError"
      [] OTHER -> "ok"

\* Lines 377-380: a message limit becomes its created_at.
CreatedAt(l) == IF l = None THEN None ELSE l.at

\* Mutation: the default channel of lines 368-375 left out.
ResolveChannelsNoDefault(a) == a.channels

\* Lines 368-375: without channels, the channel of a message limit, else the
\* invoking channel.
ResolveChannels(a) ==
    IF Truthy(a.channels) THEN a.channels
    ELSE IF IsMessage(a.first_limit) THEN {a.first_limit.ch}
    ELSE IF IsMessage(a.second_limit) THEN {a.second_limit.ch}
    ELSE {Here}

\* Mutation: the limits not sorted (line 382 left out).
NormalizeUnsorted(a) ==
    [channels |-> ResolveChannels(a),
     first_limit |-> CreatedAt(a.first_limit),
     second_limit |-> CreatedAt(a.second_limit),
     bots_only |-> a.bots_only, users |-> a.users, regex |-> a.regex,
     use_cache |-> a.use_cache]

\* Lines 367-382: the channels and the limits, sorted when both are given.
Normalize(a) ==
    LET f == CreatedAt(a.first_limit)
        s == CreatedAt(a.second_limit)
        both == f # None /\ s # None
    IN [channels |-> ResolveChannels(a),
        first_limit |-> IF both /\ s < f THEN s ELSE f,
        second_limit |-> IF both /\ s < f THEN f ELSE s,
        bots_only |-> a.bots_only, users |-> a.users, regex |-> a.regex,
        use_cache |-> a.use_cache]

BuildPredicate(n) ==
    (IF n.bots_only THEN <<"bots_only">> ELSE <<>>)
    \o (IF Truthy(n.users) THEN <<"specific_users">> ELSE <<>>)
    \o (IF n.regex # None THEN <<"regex">> ELSE <<>>)
    \o (IF n.second_limit # None THEN <<"range">>
        ELSE IF n.first_limit # None THEN <<"after">> ELSE <<>>)

\* The nested predicates of lines 132-166.
Holds(p, n, m) ==
    CASE p = "bots_only" -> m.bot
      [] p = "specific_users" -> m.author \in n.users
      [] p = "regex" -> n.regex \in m.hits
      [] p = "range" -> n.first_limit <= m.at /\ m.at <= n.second_limit
      [] p = "after" -> m.at >= n.first_limit

\* Lines 182-186: no sub-predicate accepts every message, one is used as it
\* is, several are combined with all().
RECURSIVE AllHold(_, _, _)
AllHold(ps, n, m) ==
    ps = <<>> \/ (Holds(Head(ps), n, m) /\ AllHold(Tail(ps), n, m))

Deletes(n, m) == AllHold(BuildPredicate(n), n, m)

\* Lines 396-402 and discord.py's channel.history(before=second_limit,
\* after=first_limit): both bounds become snowflakes of their millisecond
\* (after rounded up, before rounded down), so a message created at a limit
\* is not returned.
Fetched(n, m) ==
    /\ n.first_limit = None \/ m.at > n.first_limit
    /\ n.second_limit = None \/ m.at < n.second_limit

\* Line 390: only "*" with use_cache reads the cache.
UsesCache(n) == n.channels = Star /\ n.use_cache

-----------------------------------------------------------------------------
(* A command invocation.                                                   *)

\* The argument tuples the front-ends can call _clean_messages with:
\* clean_group, and clean_user/all/bots/regex (lines 482, 494, 506, 525),
\* and clean_until/between.
Invocations ==
    UNION {IF GroupHelps(g.users, g.traverse, g.first_limit, g.second_limit,
                         g.regex, g.channels)
           THEN {}
           ELSE {CleanGroup(g.users, g.traverse, g.first_limit,
                            g.second_limit, g.use_cache, g.bots_only,
                            g.regex, g.channels)} : g \in GroupInputs}
    \cup {Args(u.traverse, u.channels, u.bots_only, u.users, u.regex, None,
               None, u.use_cache) : u \in SubInputs}
    \cup {CleanRange(r.first_limit, r.second_limit, r.channel) :
            r \in RangeInputs}

Init ==
    /\ args \in Invocations
    /\ result = [error |-> "pending"]

\* _clean_messages, lines 357-385: validation raises, or the input is
\* resolved and the predicate built.
Run ==
    /\ result.error = "pending"
    /\ LET v == ValidateInput(args)
       IN result' = IF v = "ok" THEN [error |-> "none", filter |-> Normalize(args)]
                    ELSE [error |-> v]
    /\ UNCHANGED args

Next == Run

Spec == Init /\ [][Next]_vars

-----------------------------------------------------------------------------
\* The channel scope of a resolved request: "*" or a non-empty list.
IsScope(x) == x = Star \/ \E S \in SUBSET Channels \ {{}} : x = S

TypeOK ==
    \/ result.error \in {"pending", "BadArgument", "ValueError"}
    \/ LET f == result.filter IN
       /\ result.error = "none"
       /\ IsScope(f.channels)
       /\ f.first_limit \in Times \cup {None}
       /\ f.second_limit \in Times \cup {None}
       /\ f.users \in {None} \cup SUBSET Users
       /\ f.regex \in {None} \cup Patterns
       /\ {f.bots_only, f.use_cache} \subseteq BOOLEAN

\* The FilterSpec of spec section 3, written directly: bots only, the
\* authors, the pattern and the bounds, all of which must hold (4.1).
SpecMatch(n, m) ==
    /\ n.bots_only => m.bot
    /\ Truthy(n.users) => m.author \in n.users
    /\ n.regex # None => n.regex \in m.hits
    /\ n.first_limit # None => m.at >= n.first_limit
    /\ n.second_limit # None => m.at <= n.second_limit

\* Every request _validate_input lets through resolves (lines 367-382) to a
\* FilterSpec with the invariants of spec section 3: a message limit pins
\* the scope to its own channel, an upper bound comes with a lower one,
\* bots only excludes an author list, and the bounds are in order.
FilterSpecInvariants ==
    result.error = "none" =>
        LET n == result.filter IN
        /\ \A l \in {args.first_limit, args.second_limit} :
              IsMessage(l) => n.channels = {l.ch}
        /\ n.second_limit # None => n.first_limit # None
        /\ ~(n.bots_only /\ Truthy(n.users))
        /\ n.first_limit # None /\ n.second_limit # None
              => n.first_limit <= n.second_limit

\* The messages a command names, read from the arguments it was called
\* with: by the users, bots or pattern it names, and in time from its one
\* limit on ("clean until", "Delete all messages until a certain limit",
\* and clean_group's "If only one of them is provided, acts as clean
\* until") or between its two limits in whichever order they were given
\* ("clean between", "Delete all messages within range"), ends included.
CommandNames(a, m) ==
    LET f == CreatedAt(a.first_limit)
        s == CreatedAt(a.second_limit)
    IN /\ a.bots_only => m.bot
       /\ Truthy(a.users) => m.author \in a.users
       /\ a.regex # None => a.regex \in m.hits
       /\ f # None /\ s = None => m.at >= f
       /\ f # None /\ s # None =>
             \/ f <= m.at /\ m.at <= s
             \/ s <= m.at /\ m.at <= f

HistoryFetchesWholeRange ==
    result.error = "none" /\ ~UsesCache(result.filter) =>
        \A m \in Messages :
            SpecMatch(result.filter, m) => Fetched(result.filter, m)
=============================================================================
