----------------------------- MODULE CleanSession -----------------------------
(***************************************************************************)
(* The message-cleaning engine of the Clean cog                            *)
(* (src/bot/exts/moderation/clean.py): Clean._clean_messages with its      *)
(* message sources (_get_messages_from_cache, _get_messages_from_channels) *)
(* and its deleter (_delete_found, _delete_messages_individually), the     *)
(* `clean stop` command and cog_command_error, all sharing the one flag    *)
(* self.cleaning.                                                          *)
(*                                                                         *)
(* Every invocation is a coroutine on one asyncio event loop.  A step of   *)
(* the model is a piece of code that runs without an await; `running`      *)
(* names the coroutine that holds the loop, and everything else (other     *)
(* invocations, the stop command, failing commands, other users deleting   *)
(* messages, the clock) moves only while no coroutine holds it.  A         *)
(* coroutine suspended on a network call is resumed by the step that       *)
(* models the call's completion (or its failure).                          *)
(***************************************************************************)
EXTENDS Integers, Sequences, FiniteSets, SequencesExt

CONSTANTS
    Inv,         \* invocations of the clean commands that reach _clean_messages
    Channels,    \* the guild's text channels
    GuildOrder,  \* ctx.guild.channels: the text channels, in guild order
    Msgs,        \* message snowflakes
    Chan,        \* message.channel, a function Msgs -> Channels
    Requests,    \* argument records that _validate_input accepts
    SnowShift,   \* bits below the timestamp in a snowflake (22 in Discord)
    AgeLimit,    \* the bulk-delete age ceiling (14 days), in clock ticks
    StartTime,   \* the clock, in ticks since the Discord epoch, at the start
    MaxTime,     \* bound on the clock
    BulkCap,     \* messages per channel.delete_messages call (100)
    PageSize,    \* messages per history request (100)
    Others,      \* the messages other users may delete
    MaxCancels,  \* bound on `clean stop` commands
    MaxErrors    \* bound on clean commands that raise before line 360

None == -1        \* Python's None: no bound, or no cursor yet
Ext == "others"   \* a message deleted by someone other than an invocation
Nobody == "nobody"  \* a message not deleted yet
Idle == "loop"    \* no coroutine holds the event loop

\* A request: channels ("*", which `star` stands for, or a sequence), the
\* use_cache flag, the
\* messages its predicate accepts, the traverse count, and the history
\* bounds of lines 400-401 as snowflakes (first_limit and second_limit).
RequestType ==
    [star: BOOLEAN, chans: Seq(Channels), cache: BOOLEAN,
     match: SUBSET Msgs, traverse: Nat \ {0},
     after: Nat \cup {None}, before: Nat \cup {None}]

ASSUME
    /\ Msgs \subseteq Nat /\ Chan \in [Msgs -> Channels] /\ Others \subseteq Msgs
    /\ Requests \subseteq RequestType
    /\ ToSet(GuildOrder) = Channels
    /\ {BulkCap, PageSize} \subseteq Nat \ {0, 1}
    /\ StartTime \in Nat /\ MaxTime >= StartTime

VARIABLES
    cleaning,   \* Clean.cleaning
    now,        \* the wall clock, in ticks since the Discord epoch
    exists,     \* messages still on the platform
    by,         \* who deleted each deleted message
    running,    \* the coroutine that holds the event loop, or Idle
    cancels,    \* `clean stop` commands so far
    errs,       \* failing clean commands so far
    \* the locals of each invocation
    pc,         \* where the invocation is (a label of the code below)
    req,        \* its arguments
    page,       \* messages fetched and not yet tested (a history page, or
                \* the cache slice)
    ch,         \* index of the channel being read, then being deleted in
    hlim,       \* HistoryIterator.limit of the current channel
    hcursor,    \* HistoryIterator.before, or .after when it runs oldest
                \* first: the last message fetched
    forder,     \* the keys of message_mappings, in insertion order
    fmsgs,      \* message_mappings: channel -> found messages
    pos,        \* index of the next message of the channel being deleted
    batch,      \* to_delete: the pending bulk batch
    deleted,    \* the deleted list returned by _delete_found
    audit,      \* the log uploaded by _modlog_cleaned_messages
    \* history of the run, read only by the properties
    snap,       \* the messages that existed when the invocation started
    cancelled,  \* a `clean stop` ran while the invocation was active
    errored,    \* a failing clean command ran while it was active
    interfered  \* someone else deleted a message while it was active

env == <<cleaning, now, exists, by, running, cancels, errs>>
locals == <<pc, req, page, ch, hlim, hcursor, forder, fmsgs, pos, batch,
            deleted, audit>>
ghost == <<snap, cancelled, errored, interfered>>
vars == <<env, locals, ghost>>

\* The labels between Start and line 411, during which the invocation owns
\* the flag.
ActiveLabels ==
    {"delinv", "cache", "fetch", "scan", "enum_end", "del_loop", "bulk_wait",
     "del_after", "left_wait", "del_old", "indiv", "one_wait", "finish"}
Labels ==
    ActiveLabels \cup {"idle", "rejected", "report", "done", "failed",
                       "log_failed"}
Active(i) == pc[i] \in ActiveLabels

-----------------------------------------------------------------------------
(* Helpers *)

FirstN(s, n) == SubSeq(s, 1, IF n < Len(s) THEN n ELSE Len(s))

\* The timestamp part of a snowflake.
Born(m) == m \div (2 ^ SnowShift)

\* Mutation: the 14-day snowflake computed once, when the cog is loaded.
IsOlderThan14dAtLoad(m) == m < (StartTime - AgeLimit) * (2 ^ SnowShift)

\* Mutation: the comparison inclusive, `message.id <= two_weeks_old_snowflake`.
IsOlderThan14dInclusive(m) == m <= (now - AgeLimit) * (2 ^ SnowShift)

\* Clean.is_older_than_14d: the snowflake of "now minus 14 days", recomputed
\* on every call, compared with the message id.
IsOlderThan14d(m) == m < (now - AgeLimit) * (2 ^ SnowShift)

\* Line 390: the cache is used only for "*" with use_cache.
UsesCache(r) == r.star /\ r.cache

\* Lines 393-395: the channels read through history.
HistChannels(r) == IF r.star THEN GuildOrder ELSE r.chans

\* bot.cached_messages: discord.py's message deque, oldest first, from which
\* line 202 takes the first `traverse`.
CachedMessages == SetToSortSeq(exists, <)

\* One history request (logs_from) of the before strategy: the newest `n`
\* messages of channel c older than `before`, newest first.
LogsFrom(c, before, n) ==
    FirstN(SetToSortSeq({m \in exists : Chan[m] = c
                                       /\ (before = None \/ m < before)}, >),
           n)

\* One request of the after strategy: the `n` messages of channel c next
\* after `after`, which the iterator reverses into oldest first.
LogsAfter(c, after, n) ==
    FirstN(SetToSortSeq({m \in exists : Chan[m] = c /\ m > after}, <), n)

\* HistoryIterator.__init__ for channel.history(limit, before, after) with
\* after given: reverse is True, the after strategy starts at `after` and a
\* filter drops messages not older than `before`; without after, the
\* before strategy starts at `before`.
OldestFirst(r) == r.after # None
StartCursor(r) == IF OldestFirst(r) THEN r.after ELSE r.before

\* Mutation: the predicate test of lines 207 and 231 left out.
AddIfMatchUntested(i, m) ==
    /\ fmsgs' = [fmsgs EXCEPT ![i][Chan[m]] = Append(@, m)]
    /\ forder' = IF Chan[m] \in ToSet(forder[i]) THEN forder
                 ELSE [forder EXCEPT ![i] = Append(@, Chan[m])]

\* Lines 207-209 and 231-233: append a message the predicate accepts to
\* message_mappings[message.channel].
AddIfMatch(i, m) ==
    IF m \in req[i].match
    THEN /\ fmsgs' = [fmsgs EXCEPT ![i][Chan[m]] = Append(@, m)]
         /\ forder' = IF Chan[m] \in ToSet(forder[i]) THEN forder
                      ELSE [forder EXCEPT ![i] = Append(@, Chan[m])]
    ELSE UNCHANGED <<forder, fmsgs>>

\* The messages of the channel the deleter is in.
Found(i) == fmsgs[i][forder[i][ch[i]]]

\* What a delete call does on the platform: the messages still there are
\* gone, deleted by invocation i.
DeleteOnPlatform(i, S) ==
    /\ exists' = exists \ S
    /\ by' = [m \in Msgs |-> IF m \in S \cap exists THEN i ELSE by[m]]

Goto(i, l) == pc' = [pc EXCEPT ![i] = l]
Suspend(i, l) == Goto(i, l) /\ running' = Idle
Resume(i, l) == Goto(i, l) /\ running' = i

-----------------------------------------------------------------------------
Init ==
    /\ cleaning = FALSE
    /\ now = StartTime
    /\ exists = Msgs
    /\ by = [m \in Msgs |-> Nobody]
    /\ running = Idle
    /\ cancels = 0 /\ errs = 0
    /\ pc = [i \in Inv |-> "idle"]
    /\ req = [i \in Inv |-> CHOOSE r \in Requests : TRUE]
    /\ page = [i \in Inv |-> <<>>]
    /\ ch = [i \in Inv |-> 1]
    /\ hlim = [i \in Inv |-> 0]
    /\ hcursor = [i \in Inv |-> None]
    /\ forder = [i \in Inv |-> <<>>]
    /\ fmsgs = [i \in Inv |-> [c \in Channels |-> <<>>]]
    /\ pos = [i \in Inv |-> 1]
    /\ batch = [i \in Inv |-> <<>>]
    /\ deleted = [i \in Inv |-> <<>>]
    /\ audit = [i \in Inv |-> <<>>]
    /\ snap = [i \in Inv |-> {}]
    /\ cancelled = [i \in Inv |-> FALSE]
    /\ errored = [i \in Inv |-> FALSE]
    /\ interfered = [i \in Inv |-> FALSE]

-----------------------------------------------------------------------------
(* Clean._clean_messages, lines 357-388, up to the first await.  The       *)
(* arguments passed _validate_input; the flag is free, so it is taken and  *)
(* the invocation suspends in _delete_invocation (ctx.message.delete()).   *)
Start(i) ==
    /\ running = Idle /\ pc[i] = "idle" /\ ~cleaning
    /\ \E r \in Requests : req' = [req EXCEPT ![i] = r]
    /\ cleaning' = TRUE
    /\ Goto(i, "delinv")
    /\ snap' = [snap EXCEPT ![i] = exists]
    /\ UNCHANGED <<now, exists, by, running, cancels, errs, page, ch, hlim,
                   hcursor, forder, fmsgs, pos, batch, deleted, audit,
                   cancelled, errored, interfered>>

\* Lines 359-364: a clean is already going on; the invocation is turned away.
Reject(i) ==
    /\ running = Idle /\ pc[i] = "idle" /\ cleaning
    /\ Goto(i, "rejected")
    /\ UNCHANGED <<env, req, page, ch, hlim, hcursor, forder, fmsgs, pos,
                   batch, deleted, audit, ghost>>

\* Line 388 returns and line 391 scans the cache (synchronously, holding the
\* loop): the slice islice(self.bot.cached_messages, traverse).
ReadCache(i) ==
    /\ running = Idle /\ pc[i] = "delinv" /\ UsesCache(req[i])
    /\ page' = [page EXCEPT ![i] = FirstN(CachedMessages, req[i].traverse)]
    /\ Resume(i, "cache")
    /\ UNCHANGED <<cleaning, now, exists, by, cancels, errs, req, ch, hlim,
                   hcursor, forder, fmsgs, pos, batch, deleted, audit,
                   ghost>>

\* Line 388 returns; lines 393-396 start _get_messages_from_channels, whose
\* first `async for` suspends on the first history request.
ReadHistory(i) ==
    /\ running = Idle /\ pc[i] = "delinv" /\ ~UsesCache(req[i])
    /\ ch' = [ch EXCEPT ![i] = 1]
    /\ hlim' = [hlim EXCEPT ![i] = req[i].traverse]
    /\ hcursor' = [hcursor EXCEPT ![i] = StartCursor(req[i])]
    /\ Goto(i, "fetch")
    /\ UNCHANGED <<env, req, page, forder, fmsgs, pos, batch, deleted,
                   audit, ghost>>

\* _get_messages_from_cache, lines 202-209: one cached message is tested.
CacheTest(i) ==
    /\ running = i /\ pc[i] = "cache" /\ page[i] # <<>> /\ cleaning
    /\ AddIfMatch(i, Head(page[i]))
    /\ page' = [page EXCEPT ![i] = Tail(@)]
    /\ UNCHANGED <<env, pc, req, ch, hlim, hcursor, pos, batch, deleted,
                   audit, ghost>>

\* Lines 203-205 and 211: the slice is exhausted, or the clean was cancelled
\* and what was found so far is returned.
CacheEnd(i) ==
    /\ running = i /\ pc[i] = "cache" /\ (page[i] = <<>> \/ ~cleaning)
    /\ Goto(i, "enum_end")
    /\ UNCHANGED <<env, req, page, ch, hlim, hcursor, forder, fmsgs, pos,
                   batch, deleted, audit, ghost>>

\* A history request of channel.history(limit=traverse, before=second_limit,
\* after=first_limit) completes (HistoryIterator.fill_messages): it
\* retrieves min(limit, 100) messages past the cursor, moves the cursor to
\* the last one in iteration order (the oldest going back, the newest going
\* forward), ends the iterator when fewer than 100 came back, and filters
\* an oldest-first page by `before`.
FetchDone(i) ==
    /\ running = Idle /\ pc[i] = "fetch"
    /\ LET r == req[i]
           c == HistChannels(r)[ch[i]]
           retrieve == IF hlim[i] > PageSize THEN PageSize ELSE hlim[i]
           data == IF OldestFirst(r) THEN LogsAfter(c, hcursor[i], retrieve)
                   ELSE LogsFrom(c, hcursor[i], retrieve)
           BeforeFilter(m) == r.before = None \/ m < r.before
       IN  /\ page' = [page EXCEPT ![i] = IF OldestFirst(r)
                                          THEN SelectSeq(data, BeforeFilter)
                                          ELSE data]
           /\ hlim' = [hlim EXCEPT ![i] = IF Len(data) < PageSize THEN 0
                                          ELSE hlim[i] - retrieve]
           /\ hcursor' = [hcursor EXCEPT ![i] = IF data = <<>> THEN @
                                                ELSE Last(data)]
    /\ Resume(i, "scan")
    /\ UNCHANGED <<cleaning, now, exists, by, cancels, errs, req, ch, forder,
                   fmsgs, pos, batch, deleted, audit, ghost>>

\* _get_messages_from_channels, lines 227-233: one fetched message is tested.
HistoryTest(i) ==
    /\ running = i /\ pc[i] = "scan" /\ page[i] # <<>> /\ cleaning
    /\ AddIfMatch(i, Head(page[i]))
    /\ page' = [page EXCEPT ![i] = Tail(@)]
    /\ UNCHANGED <<env, pc, req, ch, hlim, hcursor, pos, batch, deleted,
                   audit, ghost>>

\* Lines 227-229: cancelled while reading history; everything found so far
\* is thrown away.
HistoryCancelled(i) ==
    /\ running = i /\ pc[i] = "scan" /\ page[i] # <<>> /\ ~cleaning
    /\ forder' = [forder EXCEPT ![i] = <<>>]
    /\ fmsgs' = [fmsgs EXCEPT ![i] = [c \in Channels |-> <<>>]]
    /\ Goto(i, "enum_end")
    /\ UNCHANGED <<env, req, page, ch, hlim, hcursor, pos, batch, deleted,
                   audit, ghost>>

\* The page is used up and the iterator's limit is not: the next request.
NextPage(i) ==
    /\ running = i /\ pc[i] = "scan" /\ page[i] = <<>> /\ hlim[i] > 0
    /\ Suspend(i, "fetch")
    /\ UNCHANGED <<cleaning, now, exists, by, cancels, errs, req, page, ch,
                   hlim, hcursor, forder, fmsgs, pos, batch, deleted,
                   audit, ghost>>

\* Mutation: an off-by-one in the test for a further guild channel.
NextHistoryChannelPastEnd(i) ==
    /\ running = i /\ pc[i] = "scan" /\ page[i] = <<>> /\ hlim[i] = 0
    /\ ch[i] <= Len(HistChannels(req[i]))
    /\ ch' = [ch EXCEPT ![i] = @ + 1]
    /\ hlim' = [hlim EXCEPT ![i] = req[i].traverse]
    /\ hcursor' = [hcursor EXCEPT ![i] = StartCursor(req[i])]
    /\ Suspend(i, "fetch")
    /\ UNCHANGED <<cleaning, now, exists, by, cancels, errs, req, page, forder,
                   fmsgs, pos, batch, deleted, audit, ghost>>

\* Line 224: the iterator of this channel is exhausted; the next channel's
\* history starts with a request.
NextHistoryChannel(i) ==
    /\ running = i /\ pc[i] = "scan" /\ page[i] = <<>> /\ hlim[i] = 0
    /\ ch[i] < Len(HistChannels(req[i]))
    /\ ch' = [ch EXCEPT ![i] = @ + 1]
    /\ hlim' = [hlim EXCEPT ![i] = req[i].traverse]
    /\ hcursor' = [hcursor EXCEPT ![i] = StartCursor(req[i])]
    /\ Suspend(i, "fetch")
    /\ UNCHANGED <<cleaning, now, exists, by, cancels, errs, req, page, forder,
                   fmsgs, pos, batch, deleted, audit, ghost>>

\* Line 235: every channel has been read.
HistoryEnd(i) ==
    /\ running = i /\ pc[i] = "scan" /\ page[i] = <<>> /\ hlim[i] = 0
    /\ ch[i] = Len(HistChannels(req[i]))
    /\ Goto(i, "enum_end")
    /\ UNCHANGED <<env, req, page, ch, hlim, hcursor, forder, fmsgs, pos,
                   batch, deleted, audit, ghost>>

\* Lines 404-406: the clean was cancelled during the search; the command
\* returns without touching the flag.
EnumCancelled(i) ==
    /\ running = i /\ pc[i] = "enum_end" /\ ~cleaning
    /\ Suspend(i, "done")
    /\ UNCHANGED <<cleaning, now, exists, by, cancels, errs, req, page, ch,
                   hlim, hcursor, forder, fmsgs, pos, batch, deleted,
                   audit, ghost>>

\* Lines 409-410: _delete_found starts on the first channel of
\* message_mappings (and returns [] at once when nothing was found).
StartDeleting(i) ==
    /\ running = i /\ pc[i] = "enum_end" /\ cleaning
    /\ ch' = [ch EXCEPT ![i] = 1]
    /\ pos' = [pos EXCEPT ![i] = 1]
    /\ batch' = [batch EXCEPT ![i] = <<>>]
    /\ Goto(i, IF forder[i] = <<>> THEN "finish" ELSE "del_loop")
    /\ UNCHANGED <<env, req, page, hlim, hcursor, forder, fmsgs, deleted,
                   audit, ghost>>

-----------------------------------------------------------------------------
(* Clean._delete_found, lines 269-307, and _delete_messages_individually,  *)
(* lines 249-259.                                                          *)

\* Lines 275-277 (and 293-294, 301-302): cancelled; the messages deleted so
\* far are returned.
DeleteCancelled(i) ==
    /\ running = i /\ pc[i] \in {"del_loop", "del_after", "del_old"}
    /\ ~cleaning
    /\ Goto(i, "finish")
    /\ UNCHANGED <<env, req, page, ch, hlim, hcursor, forder, fmsgs, pos,
                   batch, deleted, audit, ghost>>

\* Lines 279-282: the first message too old for a bulk delete; it and the
\* rest of the channel are left for individual deletion.
CutOld(i) ==
    /\ running = i /\ pc[i] = "del_loop" /\ cleaning
    /\ IsOlderThan14d(Found(i)[pos[i]])
    /\ Goto(i, "del_after")
    /\ UNCHANGED <<env, req, page, ch, hlim, hcursor, forder, fmsgs, pos,
                   batch, deleted, audit, ghost>>

\* Line 284: the message joins the bulk batch, which is not full yet.
AddToBatch(i) ==
    /\ running = i /\ pc[i] = "del_loop" /\ cleaning
    /\ ~IsOlderThan14d(Found(i)[pos[i]])
    /\ Len(batch[i]) + 1 < BulkCap
    /\ batch' = [batch EXCEPT ![i] = Append(@, Found(i)[pos[i]])]
    /\ pos' = [pos EXCEPT ![i] = @ + 1]
    /\ Goto(i, IF pos[i] = Len(Found(i)) THEN "del_after" ELSE "del_loop")
    /\ UNCHANGED <<env, req, page, ch, hlim, hcursor, forder, fmsgs,
                   deleted, audit, ghost>>

\* Lines 284-289: the batch reaches 100 and channel.delete_messages is
\* called on it; the invocation suspends on the call.
FlushFullBatch(i) ==
    /\ running = i /\ pc[i] = "del_loop" /\ cleaning
    /\ ~IsOlderThan14d(Found(i)[pos[i]])
    /\ Len(batch[i]) + 1 = BulkCap
    /\ batch' = [batch EXCEPT ![i] = Append(@, Found(i)[pos[i]])]
    /\ pos' = [pos EXCEPT ![i] = @ + 1]
    /\ Suspend(i, "bulk_wait")
    /\ UNCHANGED <<cleaning, now, exists, by, cancels, errs, req, page, ch,
                   hlim, hcursor, forder, fmsgs, deleted, audit, ghost>>

\* Lines 288-291: the bulk delete completes (a NotFound is suppressed); the
\* whole batch is added to the result and cleared.
FullBatchDone(i) ==
    /\ running = Idle /\ pc[i] = "bulk_wait"
    /\ DeleteOnPlatform(i, ToSet(batch[i]))
    /\ deleted' = [deleted EXCEPT ![i] = @ \o batch[i]]
    /\ batch' = [batch EXCEPT ![i] = <<>>]
    /\ Resume(i, IF pos[i] > Len(Found(i)) THEN "del_after" ELSE "del_loop")
    /\ UNCHANGED <<cleaning, now, cancels, errs, req, page, ch, hlim, hcursor,
                   forder, fmsgs, pos, audit, ghost>>

\* Lines 295-298: channel.delete_messages is called on the leftover batch.
FlushLeftover(i) ==
    /\ running = i /\ pc[i] = "del_after" /\ cleaning /\ batch[i] # <<>>
    /\ Suspend(i, "left_wait")
    /\ UNCHANGED <<cleaning, now, exists, by, cancels, errs, req, page, ch,
                   hlim, hcursor, forder, fmsgs, pos, batch, deleted, audit,
                   ghost>>

\* Line 295: no leftover batch.
NoLeftover(i) ==
    /\ running = i /\ pc[i] = "del_after" /\ cleaning /\ batch[i] = <<>>
    /\ Goto(i, "del_old")
    /\ UNCHANGED <<env, req, page, ch, hlim, hcursor, forder, fmsgs, pos,
                   batch, deleted, audit, ghost>>

\* Lines 297-299: the leftover delete completes; the batch joins the result.
LeftoverDone(i) ==
    /\ running = Idle /\ pc[i] = "left_wait"
    /\ DeleteOnPlatform(i, ToSet(batch[i]))
    /\ deleted' = [deleted EXCEPT ![i] = @ \o batch[i]]
    /\ Resume(i, "del_old")
    /\ UNCHANGED <<cleaning, now, cancels, errs, req, page, ch, hlim, hcursor,
                   forder, fmsgs, pos, batch, audit, ghost>>

\* Line 270: on to the next channel of message_mappings, or return.
NextChannel(i) ==
    IF ch[i] < Len(forder[i])
    THEN /\ ch' = [ch EXCEPT ![i] = @ + 1]
         /\ pos' = [pos EXCEPT ![i] = 1]
         /\ batch' = [batch EXCEPT ![i] = <<>>]
         /\ Goto(i, "del_loop")
    ELSE /\ Goto(i, "finish")
         /\ UNCHANGED <<ch, pos, batch>>

\* Mutation: individual deletion starts after the cut point
\* (messages[current_index + 1:]).
StartIndividualAfterCut(i) ==
    /\ running = i /\ pc[i] = "del_old" /\ cleaning /\ pos[i] <= Len(Found(i))
    /\ pos' = [pos EXCEPT ![i] = @ + 1]
    /\ Goto(i, "indiv")
    /\ UNCHANGED <<env, req, page, ch, hlim, hcursor, forder, fmsgs, batch,
                   deleted, audit, ghost>>

\* Lines 303-304: a cut point was found; individual deletion starts at
\* messages[current_index].
StartIndividual(i) ==
    /\ running = i /\ pc[i] = "del_old" /\ cleaning /\ pos[i] <= Len(Found(i))
    /\ Goto(i, "indiv")
    /\ UNCHANGED <<env, req, page, ch, hlim, hcursor, forder, fmsgs, pos,
                   batch, deleted, audit, ghost>>

\* Line 303: no cut point; the channel is done.
ChannelDone(i) ==
    /\ running = i /\ pc[i] = "del_old" /\ cleaning /\ pos[i] > Len(Found(i))
    /\ NextChannel(i)
    /\ UNCHANGED <<env, req, page, hlim, hcursor, forder, fmsgs, deleted,
                   audit, ghost>>

\* Mutation: the individual loop without its cancellation check.
DeleteOneUnchecked(i) ==
    /\ running = i /\ pc[i] = "indiv" /\ pos[i] <= Len(Found(i))
    /\ Suspend(i, "one_wait")
    /\ UNCHANGED <<cleaning, now, exists, by, cancels, errs, req, page, ch,
                   hlim, hcursor, forder, fmsgs, pos, batch, deleted, audit,
                   ghost>>

\* Lines 252-257: message.delete() is called on the next old message.
DeleteOne(i) ==
    /\ running = i /\ pc[i] = "indiv" /\ cleaning /\ pos[i] <= Len(Found(i))
    /\ Suspend(i, "one_wait")
    /\ UNCHANGED <<cleaning, now, exists, by, cancels, errs, req, page, ch,
                   hlim, hcursor, forder, fmsgs, pos, batch, deleted, audit,
                   ghost>>

\* Lines 256-258: the delete completes; a NotFound (the message is already
\* gone) skips the append.
DeleteOneDone(i) ==
    /\ running = Idle /\ pc[i] = "one_wait"
    /\ LET m == Found(i)[pos[i]]
       IN  /\ DeleteOnPlatform(i, {m})
           /\ deleted' = [deleted EXCEPT ![i] = IF m \in exists THEN Append(@, m)
                                                ELSE @]
    /\ pos' = [pos EXCEPT ![i] = @ + 1]
    /\ Resume(i, "indiv")
    /\ UNCHANGED <<cleaning, now, cancels, errs, req, page, ch, hlim, hcursor,
                   forder, fmsgs, batch, audit, ghost>>

\* Lines 252-255 and 305: the old messages are used up, or the clean was
\* cancelled; _delete_found extends its result and moves to the next channel.
IndividualEnd(i) ==
    /\ running = i /\ pc[i] = "indiv"
    /\ (pos[i] > Len(Found(i)) \/ ~cleaning)
    /\ NextChannel(i)
    /\ UNCHANGED <<env, req, page, hlim, hcursor, forder, fmsgs, deleted,
                   audit, ghost>>

-----------------------------------------------------------------------------
(* The end of _clean_messages, lines 411-413, and the other ways out.      *)

\* Mutation: line 411 missing; the flag stays set after a clean.
FinishKeepsFlag(i) ==
    /\ running = i /\ pc[i] = "finish"
    /\ Suspend(i, "report")
    /\ UNCHANGED <<cleaning, now, exists, by, cancels, errs, req, page, ch,
                   hlim, hcursor, forder, fmsgs, pos, batch, deleted, audit,
                   ghost>>

\* Line 411 frees the flag; _modlog_cleaned_messages then suspends on
\* upload_log (or on the "no matching messages" reply).
Finish(i) ==
    /\ running = i /\ pc[i] = "finish"
    /\ cleaning' = FALSE
    /\ Suspend(i, "report")
    /\ UNCHANGED <<now, exists, by, cancels, errs, req, page, ch, hlim,
                   hcursor, forder, fmsgs, pos, batch, deleted, audit,
                   ghost>>

\* Lines 311-318: the deleted messages, reversed, are uploaded to the mod
\* log (nothing is uploaded when the list is empty).
Report(i) ==
    /\ running = Idle /\ pc[i] = "report"
    /\ audit' = [audit EXCEPT ![i] = Reverse(deleted[i])]
    /\ Goto(i, "done")
    /\ UNCHANGED <<env, req, page, ch, hlim, hcursor, forder, fmsgs, pos,
                   batch, deleted, ghost>>

\* The upload fails; the exception reaches cog_command_error (line 592).
ReportFails(i) ==
    /\ running = Idle /\ pc[i] = "report" /\ deleted[i] # <<>>
    /\ cleaning' = FALSE
    /\ Goto(i, "log_failed")
    /\ UNCHANGED <<now, exists, by, running, cancels, errs, req, page, ch,
                   hlim, hcursor, forder, fmsgs, pos, batch, deleted,
                   audit, ghost>>

\* The deletion of the invocation (line 193), a history request or a delete
\* call fails with an HTTP error other than NotFound: the exception leaves
\* _clean_messages and cog_command_error (lines 590-592) clears the flag.
\* The deleted list is lost.
CallFails(i) ==
    /\ running = Idle
    /\ pc[i] \in {"delinv", "fetch", "bulk_wait", "left_wait", "one_wait"}
    /\ cleaning' = FALSE
    /\ Goto(i, "failed")
    /\ UNCHANGED <<now, exists, by, running, cancels, errs, req, page, ch,
                   hlim, hcursor, forder, fmsgs, pos, batch, deleted,
                   audit, ghost>>

-----------------------------------------------------------------------------
(* The environment of the invocations. *)

\* Clean.clean_cancel, lines 575-579: `clean stop` clears the flag (it is
\* already clear when no clean is going on).
Cancel ==
    /\ running = Idle /\ cancels < MaxCancels
    /\ cleaning' = FALSE
    /\ cancels' = cancels + 1
    /\ cancelled' = [i \in Inv |-> cancelled[i] \/ Active(i)]
    /\ UNCHANGED <<now, exists, by, running, errs, locals, snap, errored,
                   interfered>>

\* Clean.cog_command_error, lines 590-592: any clean command that raises
\* (a BadArgument from _validate_input at line 357, a failed role check in
\* cog_check, a bad conversion) clears the flag.
CogCommandError ==
    /\ running = Idle /\ errs < MaxErrors
    /\ cleaning' = FALSE
    /\ errs' = errs + 1
    /\ errored' = [i \in Inv |-> errored[i] \/ Active(i)]
    /\ UNCHANGED <<now, exists, by, running, cancels, locals, snap, cancelled,
                   interfered>>

\* Someone else deletes a message.
OtherDeletes(m) ==
    /\ running = Idle /\ m \in exists
    /\ exists' = exists \ {m}
    /\ by' = [by EXCEPT ![m] = Ext]
    /\ interfered' = [i \in Inv |-> interfered[i] \/ Active(i)]
    /\ UNCHANGED <<cleaning, now, running, cancels, errs, locals, snap,
                   cancelled, errored>>

\* Time passes while the loop waits.
Tick ==
    /\ running = Idle /\ now < MaxTime
    /\ now' = now + 1
    /\ UNCHANGED <<cleaning, exists, by, running, cancels, errs, locals, ghost>>

-----------------------------------------------------------------------------
\* Everything invocation i does once it has been invoked.
Step(i) ==
    \/ ReadCache(i) \/ ReadHistory(i)
    \/ CacheTest(i) \/ CacheEnd(i)
    \/ FetchDone(i) \/ HistoryTest(i) \/ HistoryCancelled(i)
    \/ NextPage(i) \/ NextHistoryChannel(i) \/ HistoryEnd(i)
    \/ EnumCancelled(i) \/ StartDeleting(i)
    \/ DeleteCancelled(i) \/ CutOld(i) \/ AddToBatch(i) \/ FlushFullBatch(i)
    \/ FullBatchDone(i) \/ FlushLeftover(i) \/ NoLeftover(i)
    \/ LeftoverDone(i) \/ StartIndividual(i) \/ ChannelDone(i)
    \/ DeleteOne(i) \/ DeleteOneDone(i) \/ IndividualEnd(i)
    \/ Finish(i) \/ Report(i) \/ ReportFails(i) \/ CallFails(i)

Next ==
    \/ \E i \in Inv : Start(i) \/ Reject(i) \/ Step(i)
    \/ Cancel \/ CogCommandError \/ Tick
    \/ \E m \in Others : OtherDeletes(m)

\* The event loop runs a ready coroutine, and every network call of
\* discord.py completes or fails (aiohttp's timeout), so each invoked
\* coroutine keeps moving.  Users need not invoke anything.
Fairness == \A i \in Inv : WF_vars(Step(i))

Spec == Init /\ [][Next]_vars /\ Fairness

-----------------------------------------------------------------------------
(* Properties *)

TypeOK ==
    /\ cleaning \in BOOLEAN
    /\ now \in StartTime..MaxTime
    /\ exists \subseteq Msgs
    /\ by \in [Msgs -> Inv \cup {Ext, Nobody}]
    /\ running \in Inv \cup {Idle}
    /\ cancels \in 0..MaxCancels /\ errs \in 0..MaxErrors
    /\ pc \in [Inv -> Labels]
    /\ req \in [Inv -> Requests]
    /\ page \in [Inv -> Seq(Msgs)]
    /\ ch \in [Inv -> 1..Cardinality(Channels)]
    /\ \A i \in Inv : pc[i] \in {"fetch", "scan"} =>
          ch[i] <= Len(HistChannels(req[i]))
    /\ hlim \in [Inv -> Nat] /\ pos \in [Inv -> Nat]
    /\ hcursor \in [Inv -> Nat \cup {None}]
    /\ forder \in [Inv -> Seq(Channels)]
    /\ fmsgs \in [Inv -> [Channels -> Seq(Msgs)]]
    /\ batch \in [Inv -> Seq(Msgs)]
    /\ deleted \in [Inv -> Seq(Msgs)] /\ audit \in [Inv -> Seq(Msgs)]

\* The platform's rule for a bulk delete, stated from the clock: a message
\* created more than the age ceiling ago cannot be bulk deleted.
TooOldForBulk(m) == now - Born(m) > AgeLimit

\* A step in which invocation i issues channel.delete_messages(to_delete).
BulkCallIssued(i) ==
    /\ pc'[i] \in {"bulk_wait", "left_wait"}
    /\ pc[i] \notin {"bulk_wait", "left_wait"}

\* A step in which invocation i issues any delete call.
DeleteIssued(i) ==
    /\ pc'[i] \in {"bulk_wait", "left_wait", "one_wait"}
    /\ pc'[i] # pc[i]

\* Every channel.delete_messages call of _delete_found (lines 289 and 298)
\* is one the platform accepts: at most 100 messages and, when there is more
\* than one (a real bulk delete), no message twice (the bulk-delete endpoint
\* answers 400 to a repeated id) and none older than 14 days at the time of
\* the call, although the clock moves on at every await of a long clean.
BulkCallsAccepted ==
    [][\A i \in Inv :
        BulkCallIssued(i) =>
            /\ Len(batch'[i]) <= BulkCap
            /\ Len(batch'[i]) > 1 =>
                 /\ IsInjective(batch'[i])
                 /\ \A k \in 1..Len(batch'[i]) : ~TooOldForBulk(batch'[i][k])]_vars

\* _delete_found cuts each channel's list at its first message too old for
\* a bulk delete and deletes that one and every later one singly (lines
\* 279-282 and 303-304), relying on the list running newest first so that
\* the rest are older still.  So a message deleted one at a time (line 256)
\* is one the platform would no longer take in a bulk delete.  The list runs
\* newest first only for a history read with no lower bound: the cache and
\* history(after=...) run oldest first, where the cut point sends young
\* messages to one-at-a-time deletion (slow, but every message still goes).
IndividualOnlyTooOld ==
    [][\A i \in Inv :
        (/\ ~req[i].cache /\ req[i].after = None
         /\ pc'[i] = "one_wait" /\ pc[i] # "one_wait") =>
            TooOldForBulk(Found(i)[pos[i]])]_vars

\* Once `clean stop` (or a failing clean command, which clears the same flag)
\* has run while an invocation is active, that invocation issues no further
\* delete call: _delete_found and _delete_messages_individually poll
\* self.cleaning before every call.
StopHonoured ==
    [][\A i \in Inv : (cancelled[i] \/ errored[i]) => ~DeleteIssued(i)]_vars

\* The messages an invocation should delete, from the spec (section 4.3):
\* the `traverse` newest messages of the cache, or of each channel's
\* history between the bounds, that the predicate accepts, as they were
\* when it started.
Expected(i) ==
    LET r == req[i]
        Newest(S) == ToSet(FirstN(SetToSortSeq(S, >), r.traverse))
        InWindow(m) == (r.after = None \/ m > r.after)
                       /\ (r.before = None \/ m < r.before)
    IN  IF UsesCache(r) THEN Newest(snap[i]) \cap r.match
        ELSE UNION {Newest({m \in snap[i] : Chan[m] = c /\ InWindow(m)})
                      \cap r.match : c \in ToSet(HistChannels(r))}

\* An invocation that nobody stopped and nobody disturbed (no stop, no
\* failing command, no message deleted by someone else while it ran) logs
\* exactly the messages it should delete, whichever mix of bulk deletes and
\* individual deletes the 14-day cut point and the 100-message batches gave.
CleanDeletesWhatMatched ==
    \A i \in Inv :
        pc[i] = "done" /\ ~cancelled[i] /\ ~errored[i] /\ ~interfered[i]
            => ToSet(audit[i]) = Expected(i)

\* The same, where only `clean stop` counts as stopping a clean: a failing
\* clean command of somebody else does not end a running one.
UnstoppedCleanCompletes ==
    \A i \in Inv :
        pc[i] = "done" /\ ~cancelled[i] /\ ~interfered[i]
            => ToSet(audit[i]) = Expected(i)

\* The mod log of a clean that has ended lists exactly the messages that
\* clean deleted (spec section 3: a message already removed is excluded
\* from the result; section 7: on a provider error the messages already
\* deleted are kept).
LogIsOwnDeletions ==
    \A i \in Inv :
        pc[i] \in {"done", "failed"} =>
            ToSet(audit[i]) = {m \in Msgs : by[m] = i}

\* The flag never stays set: every clean, whether it ends, is cancelled or
\* fails, frees it (spec section 4.5: a crashed session must not wedge the
\* engine).
NoWedge == cleaning ~> ~cleaning
-----------------------------------------------------------------------------
(* The refinement: an invocation's labels are the phases of CleanAbstract. *)

PhaseOf(l) ==
    CASE l \in {"delinv", "cache", "fetch", "scan", "enum_end"} -> "searching"
      [] l = "report" -> "reporting"
      [] l \in ActiveLabels -> "deleting"
      [] OTHER -> "idle"

Sessions ==
    INSTANCE CleanAbstract
    WITH busy <- cleaning,
         present <- exists,
         phase <- [i \in Inv |-> PhaseOf(pc[i])],
         scope <- [i \in Inv |-> req[i].match],
         found <- [i \in Inv |-> UNION {ToSet(fmsgs[i][c]) : c \in Channels}],
         gone <- [i \in Inv |-> {m \in Msgs : by[m] = i}],
         log <- [i \in Inv |-> ToSet(audit[i])],
         Scopes <- {r.match : r \in Requests}

\* _clean_messages implements the abstract clean session: taking the flag
\* at lines 360-365, it finds only messages on the platform that the
\* predicate accepts (lines 202-209 and 224-233), deletes (lines 269-307)
\* only after the search and only what it found, and its mod-log upload
\* (lines 311-318) lists every message it deleted.  For one invocation at
\* a time; with two, the second Start after a stop is no abstract step.
ImplementsSessions == Sessions!Spec
====
