----------------------------- MODULE HandleTable -----------------------------
(***************************************************************************)
(* What handles::claim promises: a table of owners in which a claim either *)
(* takes effect at once, for a handle that is free or already the key's,   *)
(* or does not, and in which an owner never changes.  Only a claim that    *)
(* took effect is answered with success; one that took effect may still be *)
(* answered with an error.  Module Broker uses a claim in this form.       *)
(***************************************************************************)
CONSTANTS Task, Peer, Handle, None

VARIABLES
    owner,      \* [Handle -> Peer or None]
    outcome     \* [Task -> the last answer: <<p, h>> granted, or None]

tableVars == <<owner, outcome>>

TableInit ==
    /\ owner = [h \in Handle |-> None]
    /\ outcome = [t \in Task |-> None]

\* The claim takes effect.
Grant(t, p, h) ==
    /\ owner[h] \in {None, p}
    /\ owner' = [owner EXCEPT ![h] = p]
    /\ \E answer \in {None, <<p, h>>} : outcome' = [outcome EXCEPT ![t] = answer]

\* The claim does not take effect, or t begins another one.
Refuse(t) ==
    /\ outcome' = [outcome EXCEPT ![t] = None]
    /\ UNCHANGED owner

TableNext ==
    \E t \in Task : Refuse(t) \/ \E p \in Peer, h \in Handle : Grant(t, p, h)

TableSpec == TableInit /\ [][TableNext]_tableVars
=============================================================================
