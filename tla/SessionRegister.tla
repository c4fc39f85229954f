-------------------------- MODULE SessionRegister --------------------------
(***************************************************************************)
(* What the server promises of refresh tokens, without requests, statements*)
(* or locks: a session takes the token that was presented last and the one *)
(* it was exchanged for, and an exchange is one step.  A token that is not *)
(* taken any more, or was drawn for an exchange that failed, is never taken*)
(* again, by this session or another.                                      *)
(***************************************************************************)
EXTENDS Naturals

CONSTANTS
    Clients,
    Exchanging  \* those whose renewals exchange the token

VARIABLES
    accepted,  \* per client the tokens its session takes, none without a session
    used       \* tokens that were taken once, or were wasted

vars == <<accepted, used>>

Init ==
    /\ accepted = [c \in Clients |-> {}]
    /\ used = {}

\* Nobody has been given t.
New(t) == t \in Nat \ used

Open(c) ==
    /\ accepted[c] = {}
    /\ \E t \in Nat :
        /\ New(t)
        /\ accepted' = [accepted EXCEPT ![c] = {t}]
        /\ used' = used \cup {t}

\* The presented token is taken once more, for a reply that is lost.
Exchange(c) ==
    \E t \in Nat, presented \in accepted[c] :
        /\ New(t)
        /\ accepted' = [accepted EXCEPT ![c] = {t, presented}]
        /\ used' = used \cup {t}

\* Sessions end, and tokens drawn for them or for nobody are wasted.
Close(ended) ==
    /\ accepted' = [c \in Clients |-> IF c \in ended THEN {} ELSE accepted[c]]
    /\ used' \in SUBSET Nat
    /\ used \subseteq used'

Next ==
    \/ \E c \in Clients : Open(c)
    \/ \E c \in Exchanging : Exchange(c)
    \/ \E ended \in SUBSET Clients : Close(ended)

Spec == Init /\ [][Next]_vars
=============================================================================
