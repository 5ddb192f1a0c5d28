---------------------------- MODULE OneTimeCode ----------------------------
(***************************************************************************)
(* What a one-time code promises, whoever issues it: it is granted at most *)
(* once, to one party, only while it is open and after a bounded number of *)
(* tries; a code that has become void is never worth anything again.       *)
(***************************************************************************)
EXTENDS Naturals

CONSTANTS Code, Tries

VARIABLES st,     \* code -> "unissued", "open", "granted" or "void"
          wins,   \* code -> parties that have been answered with its secret
          tries   \* code -> attempts admitted

ocVars == <<st, wins, tries>>

Init ==
    /\ st = [c \in Code |-> "unissued"]
    /\ wins = [c \in Code |-> 0] /\ tries = [c \in Code |-> 0]

\* What the code opens may have been withdrawn before it is issued.
Issue(c) ==
    /\ st[c] = "unissued"
    /\ \E s \in {"open", "void"} : st' = [st EXCEPT ![c] = s]
    /\ UNCHANGED <<wins, tries>>

Try(c) ==
    /\ st[c] = "open" /\ tries[c] < Tries
    /\ tries' = [tries EXCEPT ![c] = @ + 1]
    /\ UNCHANGED <<st, wins>>

Grant(c) ==
    /\ st[c] = "open" /\ wins[c] = 0
    /\ st' = [st EXCEPT ![c] = "granted"] /\ wins' = [wins EXCEPT ![c] = 1]
    /\ UNCHANGED tries

\* Expired, exhausted, scrubbed or revoked.
Void(C) ==
    /\ \A c \in C : st[c] \in {"open", "granted"}
    /\ st' = [c \in Code |-> IF c \in C THEN "void" ELSE st[c]]
    /\ UNCHANGED <<wins, tries>>

\* A void code's secret may still be handed out, once: it opens nothing.
HandDead(c) ==
    /\ st[c] = "void" /\ wins[c] = 0
    /\ wins' = [wins EXCEPT ![c] = 1]
    /\ UNCHANGED <<st, tries>>

Next ==
    \/ \E c \in Code : Issue(c) \/ Try(c) \/ Grant(c) \/ HandDead(c)
    \/ \E C \in SUBSET Code : C # {} /\ Void(C)

Spec == Init /\ [][Next]_ocVars
=============================================================================
