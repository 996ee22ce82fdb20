----------------------------- MODULE MC_Snekbox -----------------------------
(* Two invocations of one author and one of another, with re-evaluation:  *)
(* an eval and a timeit of alice, an eval of bob.                         *)
(* The texts they post: every stdout of up to four characters, the return *)
(* codes of a clean exit, an error, a timeout, a signal and an NsJail     *)
(* failure, and limits scaled so that each branch of format_output is     *)
(* taken.                                                                  *)
EXTENDS Snekbox, TLC

CONSTANTS e1, e2, e3, alice, bob

MCEvals == {e1, e2, e3}
\* Alice's eval and timeit alone.
MCEvalsAlice == {e1, e2}
MCAuthors == {alice, bob}
MCOwner == (e1 :> alice) @@ (e2 :> alice) @@ (e3 :> bob)
MCKind == (e1 :> "eval") @@ (e2 :> "timeit") @@ (e3 :> "eval")
MCOwnerAlice == [e \in MCEvalsAlice |-> MCOwner[e]]
MCKindAlice == [e \in MCEvalsAlice |-> MCKind[e]]

MCStdouts == BoundedSeq(Chars, 4)
MCReturnCodes == {0, 1, 137, 139, 255}
MCServiceErrors == {<<"a", "a">>}
MCNoCode == -1
\* An empty argument and one piece of code.
MCArgs == {"", "v"}
=============================================================================
