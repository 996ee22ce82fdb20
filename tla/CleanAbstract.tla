---------------------------- MODULE CleanAbstract ----------------------------
(***************************************************************************)
(* What the clean engine of src/bot/exts/moderation/clean.py promises,     *)
(* without its pages, batches, cut points and awaits: clean sessions that  *)
(* run one at a time under the busy flag, each going through the phases   *)
(* of spec section 4.5.                                                    *)
(*                                                                         *)
(*   idle -> searching -> deleting -> reporting -> idle                    *)
(*                                                                         *)
(* A session finds messages its predicate accepts among those on the       *)
(* platform.  Only after the search does it remove any, and only ones it   *)
(* found.  Its report lists every message it removed, and nothing it did   *)
(* not find.  A stop clears the flag in any phase.  A stopped search gives *)
(* up, and a stopped deletion runs on to its report.  An error ends the    *)
(* session wherever it is.                                                 *)
(*                                                                         *)
(* CleanSession implements this for one invocation (ImplementsSessions).   *)
(***************************************************************************)
EXTENDS FiniteSets

CONSTANTS
    Inv,      \* the sessions (invocations of the clean commands)
    Msgs,     \* messages
    Scopes    \* the sets of messages a request's predicate can accept

Phases == {"idle", "searching", "deleting", "reporting"}

VARIABLES
    busy,     \* the engine's busy flag
    present,  \* messages on the platform
    phase,    \* phase[i]: the phase of session i
    scope,    \* scope[i]: the messages session i's predicate accepts
    found,    \* found[i]: the messages session i has found
    gone,     \* gone[i]: the messages session i has removed
    log       \* log[i]: the messages session i's report lists

avars == <<busy, present, phase, scope, found, gone, log>>

Init ==
    /\ busy = FALSE
    /\ present = Msgs
    /\ phase = [i \in Inv |-> "idle"]
    /\ scope \in [Inv -> Scopes]
    /\ found = [i \in Inv |-> {}]
    /\ gone = [i \in Inv |-> {}]
    /\ log = [i \in Inv |-> {}]

\* A session starts when the flag is clear and no other session is under
\* way, and takes the flag.
Begin(i) ==
    /\ ~busy /\ \A j \in Inv : phase[j] = "idle"
    /\ busy' = TRUE
    /\ phase' = [phase EXCEPT ![i] = "searching"]
    /\ \E s \in Scopes : scope' = [scope EXCEPT ![i] = s]
    /\ found' = [found EXCEPT ![i] = {}]
    /\ UNCHANGED <<present, gone, log>>

\* The search adds accepted messages that are on the platform to what was
\* found, or throws away everything it found.
Search(i) ==
    /\ phase[i] = "searching"
    /\ \E F \in SUBSET (scope[i] \cap present) :
          found' = [found EXCEPT ![i] = IF F = {} THEN {} ELSE @ \cup F]
    /\ UNCHANGED <<busy, present, phase, scope, gone, log>>

\* The search ends while the session still holds the flag.
EndSearch(i) ==
    /\ phase[i] = "searching" /\ busy
    /\ phase' = [phase EXCEPT ![i] = "deleting"]
    /\ UNCHANGED <<busy, present, scope, found, gone, log>>

\* The search was stopped; the session ends without deleting or reporting.
GiveUp(i) ==
    /\ phase[i] = "searching" /\ ~busy
    /\ phase' = [phase EXCEPT ![i] = "idle"]
    /\ UNCHANGED <<busy, present, scope, found, gone, log>>

\* Some messages the session found are removed; the ones still present are
\* removed by it.
Delete(i, S) ==
    /\ phase[i] = "deleting" /\ S \subseteq found[i]
    /\ present' = present \ S
    /\ gone' = [gone EXCEPT ![i] = @ \cup (S \cap present)]
    /\ UNCHANGED <<busy, phase, scope, found, log>>

\* Deletion is over; the flag is released before the report.
Finish(i) ==
    /\ phase[i] = "deleting"
    /\ busy' = FALSE
    /\ phase' = [phase EXCEPT ![i] = "reporting"]
    /\ UNCHANGED <<present, scope, found, gone, log>>

\* The report lists every message the session removed, out of those it
\* found.
Report(i) ==
    /\ phase[i] = "reporting"
    /\ \E L \in SUBSET found[i] :
          /\ gone[i] \subseteq L
          /\ log' = [log EXCEPT ![i] = L]
    /\ phase' = [phase EXCEPT ![i] = "idle"]
    /\ UNCHANGED <<busy, present, scope, found, gone>>

\* An error ends the session in any phase and clears the flag.
Fail(i) ==
    /\ phase[i] # "idle"
    /\ busy' = FALSE
    /\ phase' = [phase EXCEPT ![i] = "idle"]
    /\ UNCHANGED <<present, scope, found, gone, log>>

\* A stop, or an error of another command, clears the flag.
Stop ==
    /\ busy' = FALSE
    /\ UNCHANGED <<present, phase, scope, found, gone, log>>

\* Someone else removes a message.
OtherDelete(m) ==
    /\ m \in present
    /\ present' = present \ {m}
    /\ UNCHANGED <<busy, phase, scope, found, gone, log>>

Next ==
    \/ \E i \in Inv :
          \/ Begin(i) \/ Search(i) \/ EndSearch(i) \/ GiveUp(i)
          \/ \E S \in SUBSET Msgs : Delete(i, S)
          \/ Finish(i) \/ Report(i) \/ Fail(i)
    \/ Stop
    \/ \E m \in Msgs : OtherDelete(m)

Spec == Init /\ [][Next]_avars
====
