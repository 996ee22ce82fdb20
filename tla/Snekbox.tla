------------------------------ MODULE Snekbox ------------------------------
(***************************************************************************)
(* The eval jobs of the Snekbox cog (src/bot/exts/utils/snekbox.py):       *)
(* run_eval, the send_func it awaits (send_eval or send_timeit) and the    *)
(* re-evaluation wait of continue_eval, for several invocations of the     *)
(* eval and timeit commands that share the cog's `jobs` dict, against the  *)
(* authors, who edit, react to and delete their invocation messages.     *)
(*                                                                         *)
(* Each action is a stretch of code between two awaits, so it runs         *)
(* atomically on the event loop.  The awaits inside send_func touch        *)
(* nothing modelled and are collapsed into the step that ends the call.   *)
(* A message's content is a record: whether it invokes eval or timeit,     *)
(* and the argument text, from a small set Args.  Output and the posted   *)
(* responses are left out.                                                 *)
(* What a job posts is a function of the results the service returns,     *)
(* kept out of the state: SnekboxFormat defines it, and the properties at  *)
(* the end hold it for every results dict once a job has posted.          *)
(***************************************************************************)
EXTENDS Naturals, FiniteSets, SnekboxInput

CONSTANTS
    Evals,       \* invocations of the eval and timeit commands
    Authors,     \* the users who invoke them
    Owner,       \* Owner[e]: ctx.author of invocation e
    MaxReevals,  \* bound on the re-evaluations of one invocation
    Kind,        \* Kind[e]: "eval" (send_eval) or "timeit" (send_timeit)
    Args         \* the argument texts a message may carry ("" among them)

ASSUME Owner \in [Evals -> Authors] /\ MaxReevals \in Nat
ASSUME Kind \in [Evals -> {"eval", "timeit"}]
ASSUME "" \in Args

VARIABLES
    jobs,        \* the keys of self.jobs (the author ids)
    pc,          \* where each invocation is
    reevals,     \* re-evaluations each invocation has started
    content,     \* content[e]: the current content of ctx.message
    code,        \* code[e]: what get_code took from the edit seen
    gone,        \* gone[e]: ctx.message has been deleted
    emoji        \* emoji[e]: the bot's REEVAL_EMOJI is on ctx.message

vars == <<jobs, pc, reevals, content, code, gone, emoji>>
user == <<content, gone>>

\* Python's None.
None == "None"

\* A message: an invocation of eval or timeit with an argument, or any
\* other text.
Contents == [cmd : BOOLEAN, arg : Args]

\* get_code, lines 319-337 (new_ctx.command is eval or timeit exactly when
\* the content invokes them): the argument, None if there is none, or the
\* whole content.  eval_command's `code` is the same of the invocation.
GetCode(c) == IF c.cmd THEN (IF c.arg = "" THEN None ELSE c.arg) ELSE c.arg

\* `not code` (line 352 and line 379).
Falsy(x) == x \in {"", None}

\* The labels at which an invocation has left run_eval.
Ended == {"rejected", "help", "done", "failed", "keyerror"}

\* The awaits of continue_eval.
Waits == {"edit_wait", "add_react", "react_wait", "clear", "del_resp", "clear_to"}

Labels == {"idle", "send"} \cup Waits \cup Ended

-----------------------------------------------------------------------------
\* Snekbox.__init__: no job is running.
Init ==
    /\ jobs = {}
    /\ pc = [e \in Evals |-> "idle"]
    /\ reevals = [e \in Evals |-> 0]
    /\ content \in [Evals -> {c \in Contents : c.cmd}]
    /\ code = [e \in Evals |-> None]
    /\ gone = [e \in Evals |-> FALSE]
    /\ emoji = [e \in Evals |-> FALSE]

\* Mutation: the job keyed by the invocation (ctx.message.id) instead of
\* the author.
StartJobByMessage(e) ==
    /\ jobs' = jobs \cup {e}
    /\ pc' = [pc EXCEPT ![e] = "send"]

\* Lines 370-374: jobs[ctx.author.id] is set, with no test of whether it is
\* already there, and send_func is awaited.
StartJob(e) ==
    /\ jobs' = jobs \cup {Owner[e]}
    /\ pc' = [pc EXCEPT ![e] = "send"]

\* run_eval, lines 345-374, as eval_command (397) or timeit_command (413)
\* call it with the argument of ctx.message: an author with a job is turned
\* away (345-350), empty code gets the help (352-354), other code starts
\* the first job.
Invoke(e) ==
    /\ pc[e] = "idle"
    /\ \/ /\ Owner[e] \in jobs
          /\ pc' = [pc EXCEPT ![e] = "rejected"]
          /\ UNCHANGED jobs
       \/ /\ Owner[e] \notin jobs
          /\ Falsy(GetCode(content[e]))
          /\ pc' = [pc EXCEPT ![e] = "help"]
          /\ UNCHANGED jobs
       \/ /\ Owner[e] \notin jobs
          /\ ~Falsy(GetCode(content[e]))
          /\ StartJob(e)
    /\ UNCHANGED <<reevals, code, user, emoji>>

\* Mutation: jobs[ctx.author.id] deleted after send_func returns instead of
\* in a finally clause, so a failing send leaves the key behind.
SendEndsNoFinally(e) ==
    /\ pc[e] = "send"
    /\ \/ /\ Owner[e] \notin jobs
          /\ pc' = [pc EXCEPT ![e] = "keyerror"]
          /\ UNCHANGED jobs
       \/ /\ Owner[e] \in jobs
          /\ \E ok \in BOOLEAN :
                /\ pc' = [pc EXCEPT ![e] = IF ok THEN "edit_wait" ELSE "failed"]
                /\ jobs' = IF ok THEN jobs \ {Owner[e]} ELSE jobs
    /\ UNCHANGED <<reevals, code, user, emoji>>

\* Lines 373-378: send_func returns (the result was posted) or raises (the
\* snekbox request or a message send failed); either way the finally clause
\* deletes jobs[ctx.author.id].  A key that is no longer there raises
\* KeyError out of run_eval.  After a success continue_eval registers its
\* wait for an edit (line 296).
SendEnds(e) ==
    /\ pc[e] = "send"
    /\ \/ /\ Owner[e] \notin jobs
          /\ pc' = [pc EXCEPT ![e] = "keyerror"]
          /\ UNCHANGED jobs
       \/ /\ Owner[e] \in jobs
          /\ jobs' = jobs \ {Owner[e]}
          /\ \E ok \in BOOLEAN :
                pc' = [pc EXCEPT ![e] = IF ok THEN "edit_wait" ELSE "failed"]
    /\ UNCHANGED <<reevals, code, user, emoji>>

-----------------------------------------------------------------------------
(* continue_eval, lines 285-317, and the end of the loop, lines 378-381.   *)
(* Every Discord call in it is inside suppress(NotFound): on a deleted     *)
(* message the call raises NotFound and continue_eval returns None.  Any  *)
(* other HTTPException leaves run_eval.                                    *)

Goto(e, l) == pc' = [pc EXCEPT ![e] = l]

\* The author edits ctx.message while continue_eval waits for an edit: the
\* content changes (predicate_eval_message_edit, lines 415-418), the
\* wait_for of lines 296-300 returns the edited message, whose code
\* get_code (line 307) will read, and add_reaction is awaited (301).
EditSeen(e) ==
    /\ pc[e] = "edit_wait" /\ ~gone[e] /\ reevals[e] < MaxReevals
    /\ \E c \in Contents \ {content[e]} :
          /\ content' = [content EXCEPT ![e] = c]
          /\ code' = [code EXCEPT ![e] = GetCode(c)]
    /\ Goto(e, "add_react")
    /\ UNCHANGED <<jobs, reevals, gone, emoji>>

\* The author edits ctx.message at any other time: no wait_for is listening
\* for it, so the edit is lost to the session.
EditUnseen(e) ==
    /\ pc[e] \in {"send", "add_react", "react_wait", "clear", "del_resp", "clear_to"}
    /\ ~gone[e]
    /\ \E c \in Contents \ {content[e]} : content' = [content EXCEPT ![e] = c]
    /\ UNCHANGED <<jobs, pc, reevals, code, gone, emoji>>

\* The author (or a moderator) deletes ctx.message, and its reactions.
DeleteMessage(e) ==
    /\ pc[e] \in {"send"} \cup Waits /\ ~gone[e]
    /\ gone' = [gone EXCEPT ![e] = TRUE]
    /\ emoji' = [emoji EXCEPT ![e] = FALSE]
    /\ UNCHANGED <<jobs, pc, reevals, content, code>>

\* Line 301: add_reaction(REEVAL_EMOJI) returns, and the wait for the
\* author's reaction starts (302-306); or it raises NotFound; or it fails.
AddReaction(e) ==
    /\ pc[e] = "add_react"
    /\ \/ /\ ~gone[e]
          /\ emoji' = [emoji EXCEPT ![e] = TRUE]
          /\ Goto(e, "react_wait")
       \/ /\ gone[e]
          /\ Goto(e, "done")
          /\ UNCHANGED emoji
       \/ /\ ~gone[e]
          /\ Goto(e, "failed")
          /\ UNCHANGED emoji
    /\ UNCHANGED <<jobs, reevals, user, code>>

\* The author adds REEVAL_EMOJI (predicate_eval_emoji_reaction, lines
\* 421-423); get_context (line 327) is awaited and clear_reaction (308).
React(e) ==
    /\ pc[e] = "react_wait" /\ ~gone[e]
    /\ Goto(e, "clear")
    /\ UNCHANGED <<jobs, reevals, user, code, emoji>>

\* Mutation: the reaction awaited with no timeout.
TimeoutEditOnly(e) ==
    /\ pc[e] = "edit_wait"
    /\ Goto(e, "clear_to")
    /\ UNCHANGED <<jobs, reevals, user, code, emoji>>

\* Lines 296-306 and 311: a wait_for times out, REEVAL_TIMEOUT (30 s)
\* after the result was posted or 10 s after the reaction was added, and
\* clear_reaction is awaited (312).
Timeout(e) ==
    /\ pc[e] \in {"edit_wait", "react_wait"}
    /\ Goto(e, "clear_to")
    /\ UNCHANGED <<jobs, reevals, user, code, emoji>>

\* The outcomes of clear_reaction: it raises NotFound on a deleted message
\* and continue_eval returns None; it removes the emoji and execution goes
\* on at `next`; or it fails.
ClearOutcome(e, next) ==
    \/ /\ gone[e]
       /\ Goto(e, "done")
       /\ UNCHANGED emoji
    \/ /\ ~gone[e]
       /\ emoji' = [emoji EXCEPT ![e] = FALSE]
       /\ Goto(e, next)
    \/ /\ ~gone[e]
       /\ Goto(e, "failed")
       /\ UNCHANGED emoji

\* Mutation: the timeout path returns None without clearing the reaction.
ClearAfterTimeoutSkipped(e) ==
    /\ pc[e] = "clear_to"
    /\ Goto(e, "done")
    /\ UNCHANGED <<jobs, reevals, user, code, emoji>>

\* Lines 311-313: clear_reaction after a timeout, then return None, which
\* ends the loop (379-380).
ClearAfterTimeout(e) ==
    /\ pc[e] = "clear_to"
    /\ ClearOutcome(e, "done")
    /\ UNCHANGED <<jobs, reevals, user, code>>

\* Line 308: clear_reaction after the author's reaction; then
\* response.delete() is awaited (309-310).
ClearReaction(e) ==
    /\ pc[e] = "clear"
    /\ ClearOutcome(e, "del_resp")
    /\ UNCHANGED <<jobs, reevals, user, code>>

\* Lines 309-317 and 378-381: response.delete() returns or its
\* HTTPException is suppressed; the code is returned, and run_eval ends on
\* empty code or starts the job again.
DeleteResponse(e) ==
    /\ pc[e] = "del_resp"
    /\ \/ /\ Falsy(code[e])
          /\ Goto(e, "done")
          /\ UNCHANGED <<jobs, reevals>>
       \/ /\ ~Falsy(code[e])
          /\ reevals' = [reevals EXCEPT ![e] = @ + 1]
          /\ StartJob(e)
    /\ UNCHANGED <<user, code, emoji>>

\* The steps of the bot, which the event loop runs.
BotStep(e) ==
    \/ SendEnds(e) \/ AddReaction(e) \/ Timeout(e)
    \/ ClearAfterTimeout(e) \/ ClearReaction(e) \/ DeleteResponse(e)

\* The steps of the author.
UserStep(e) == EditSeen(e) \/ EditUnseen(e) \/ DeleteMessage(e) \/ React(e)

Next == \E e \in Evals : Invoke(e) \/ BotStep(e) \/ UserStep(e)

\* The snekbox request has an HTTP timeout and both wait_for calls of
\* continue_eval have one, so a started invocation keeps moving whatever
\* its author does.  Nothing forces a command, an edit, a reaction or a
\* deletion: Invoke and the user's steps are not fair.
Fairness == \A e \in Evals : WF_vars(BotStep(e))

Spec == Init /\ [][Next]_vars /\ Fairness
-----------------------------------------------------------------------------
TypeOK ==
    /\ jobs \subseteq Authors
    /\ pc \in [Evals -> Labels]
    /\ reevals \in [Evals -> 0..MaxReevals]
    /\ content \in [Evals -> Contents]
    /\ code \in [Evals -> Args \cup {None}]
    /\ gone \in [Evals -> BOOLEAN] /\ emoji \in [Evals -> BOOLEAN]

\* An invocation of `author` that is waiting on send_func.
Running(a) == {e \in Evals : Owner[e] = a /\ pc[e] = "send"}

\* The jobs dict never holds a stale entry: an author listed in self.jobs
\* (and so turned away at line 345) has a job waiting on send_func.  A
\* leaked entry would lock the author out of eval for good.
JobsNotStale == \A a \in jobs : Running(a) # {}

\* At most one job per author is in flight (the single in-flight job per
\* requester that the test at line 345 is meant to give, spec section 9).
OneJobPerAuthor == \A a \in Authors : Cardinality(Running(a)) <= 1

\* Invocations whose send_func has returned: their message is posted.
Posted(kind) == {e \in Evals : Kind[e] = kind /\ pc[e] \in Waits \cup {"done"}}

\* Once an eval or timeit job has posted, format_output has shown the whole
\* output it was given or said that it cut it (lines 156-177), whatever the
\* job printed.
OutputShownOrNoticed == Posted("eval") \cup Posted("timeit") # {} => AllOutputsShownOrNoticed

\* Once an eval job has posted (send_eval, lines 188-214), its message has
\* only the bot's two fences and pings nobody but the author, whatever the
\* job printed and whatever return code it had.
EvalMessageIntact == Posted("eval") # {} => AllEvalMessagesIntact

\* The same of a posted timeit message (send_timeit, lines 248-278), whose
\* timing line get_time (220-235) takes from the job's stdout.
TimeitMessageIntact == Posted("timeit") # {} => AllTimeitMessagesIntact

\* The bot's REEVAL_EMOJI is on an invocation message only while
\* continue_eval waits for the author's reaction or is about to clear it,
\* or after a clear_reaction call failed: every way out of continue_eval
\* (timeout, reaction, deletion) clears it before the session ends or the
\* job runs again.
EmojiOnlyWhileWaiting ==
    \A e \in Evals :
        emoji[e] => pc[e] \in {"react_wait", "clear", "clear_to", "failed"}

\* Every invocation that has started leaves run_eval in the end, however
\* its author edits, reacts to or deletes the message: each wait of
\* continue_eval has a timeout.
EveryInvocationEnds == \A e \in Evals : pc[e] # "idle" ~> pc[e] \in Ended

\* Once a job has started, the code it was given went through prepare_input
\* (line 372), which hands the snekbox service exactly the code its author
\* wrote, for every code and Markdown form of the bounded set.
InputPreparedAsWritten == (\E e \in Evals : pc[e] = "send") => AllInputsExtracted
=============================================================================
