---------------------------- MODULE HandleClaims ----------------------------
(***************************************************************************)
(* handles::claim and db::claim_handle: one claim is an upsert of the      *)
(* claiming key's peers row followed by a transaction of four statements.  *)
(* A Task is a session that is registering; it makes one claim at a time,  *)
(* for any key and handle, and may come back with another.                 *)
(*                                                                         *)
(* Postgres runs the transaction at READ COMMITTED: a SELECT sees the rows *)
(* committed when it runs.  The constraints of the migrations decide what  *)
(* waits and what fails.  handles.handle is a primary key, so an INSERT    *)
(* waits for an uncommitted row with the same handle and fails on a        *)
(* committed one.  handles.pubkey references peers, so the INSERT locks    *)
(* the key's peers row FOR KEY SHARE.  peers.handle is unique, so the      *)
(* UPDATE locks that row FOR UPDATE.  Locks and uncommitted rows follow    *)
(* from where a task stands, at[t], and need no variables.                 *)
(***************************************************************************)
EXTENDS Database

CONSTANTS Task, Handle

ASSUME ClaimAssumption ==
    /\ None \notin Handle
    /\ \A p \in Peer, h \in Handle : None # <<p, h>>

VARIABLES
    handles,        \* committed: [Handle -> handles.pubkey, or None]
    peers_handle,   \* committed: [Peer -> peers.handle, or None]
    at,             \* the statement task t runs next
    who, want,      \* the key and the handle it claims
    answer          \* what its last claim returned

claimVars == <<handles, peers_handle, at, who, want, answer>>

Statements == {"idle", "upsert", "own", "free", "insert", "foreign_key",
               "update", "commit"}

ClaimInit ==
    /\ handles = [h \in Handle |-> None]
    /\ peers_handle = [p \in Peer |-> None]
    /\ at = [t \in Task |-> "idle"]
    /\ who \in [Task -> Peer]
    /\ want \in [Task -> Handle]
    /\ answer = [t \in Task |-> "none"]

\* Task t goes on to a statement of its transaction.
Run(t, statement) ==
    /\ at' = [at EXCEPT ![t] = statement]
    /\ UNCHANGED <<handles, peers_handle, who, want, answer>>

\* claim returns; an open transaction is rolled back.
Return(t, result) ==
    /\ at' = [at EXCEPT ![t] = "idle"]
    /\ answer' = [answer EXCEPT ![t] = result]
    /\ UNCHANGED <<handles, peers_handle, who, want>>

\* The rows task t has locked, or inserted and not committed.
HasInserted(t) == at[t] \in {"foreign_key", "update", "commit"}
HasKeyShare(t) == at[t] \in {"update", "commit"}
HasForUpdate(t) == at[t] = "commit"

Rivals(t) == {u \in Task \ {t} : who[u] = who[t]}

\* Fault: a session that claims again gives up what it has claimed.
BeginClaimAnew(t) ==
    LET had == answer[t] = "ok"
    IN /\ at[t] = "idle"
       /\ handles' = IF had THEN [handles EXCEPT ![want[t]] = None] ELSE handles
       /\ peers_handle' = IF had THEN [peers_handle EXCEPT ![who[t]] = None]
                          ELSE peers_handle
       /\ \E p \in Peer, h \in Handle : /\ who' = [who EXCEPT ![t] = p]
                                        /\ want' = [want EXCEPT ![t] = h]
       /\ at' = [at EXCEPT ![t] = "upsert"]
       /\ answer' = [answer EXCEPT ![t] = "none"]

\* handles::claim, for a key and a handle that passes validate_handle or not.
BeginClaim(t) ==
    /\ at[t] = "idle"
    /\ \E p \in Peer, h \in Handle :
         /\ who' = [who EXCEPT ![t] = p]
         /\ want' = [want EXCEPT ![t] = h]
    /\ \/ /\ at' = [at EXCEPT ![t] = "upsert"]
          /\ answer' = [answer EXCEPT ![t] = "none"]
       \/ /\ answer' = [answer EXCEPT ![t] = "malformed"]
          /\ UNCHANGED at
    /\ UNCHANGED <<handles, peers_handle>>

\* Fault: upsert_peer, which runs before the transaction, stores the handle.
UpsertPeerHandle(t) ==
    /\ at[t] = "upsert"
    /\ \A u \in Rivals(t) : ~HasKeyShare(u)
    /\ \A p \in Peer \ {who[t]} : peers_handle[p] # want[t]
    /\ peers_handle' = [peers_handle EXCEPT ![who[t]] = want[t]]
    /\ at' = [at EXCEPT ![t] = "own"]
    /\ UNCHANGED <<handles, who, want, answer>>

\* upsert_peer updates last_seen, which waits for a FOR UPDATE lock only.
UpsertPeer(t) ==
    /\ at[t] = "upsert"
    /\ \A u \in Rivals(t) : ~HasForUpdate(u)
    /\ Run(t, "own")

\* Fault: any handle the key owns passes for the one it claims.
CheckOwnAny(t) ==
    /\ at[t] = "own"
    /\ \/ /\ \E h \in Handle : handles[h] = who[t]
          /\ Return(t, "ok")
       \/ /\ \A h \in Handle : handles[h] # who[t]
          /\ Run(t, "free")

\* SELECT handle FROM handles WHERE pubkey: one of the key's rows, if any.
CheckOwn(t) ==
    /\ at[t] = "own"
    /\ \/ \E h \in Handle : /\ handles[h] = who[t]
                            /\ Return(t, IF h = want[t] THEN "ok" ELSE "owned")
       \/ /\ \A h \in Handle : handles[h] # who[t]
          /\ Run(t, "free")

\* SELECT pubkey FROM handles WHERE handle.
CheckFree(t) ==
    /\ at[t] = "free"
    /\ IF handles[want[t]] # None THEN Return(t, "taken") ELSE Run(t, "insert")

\* INSERT INTO handles: the primary key.
InsertHandle(t) ==
    /\ at[t] = "insert"
    /\ IF handles[want[t]] # None THEN Return(t, "error")
       ELSE /\ \A u \in Task \ {t} : ~(HasInserted(u) /\ want[u] = want[t])
            /\ Run(t, "foreign_key")

\* INSERT INTO handles: the foreign key.
LockPeer(t) ==
    /\ at[t] = "foreign_key"
    /\ \A u \in Rivals(t) : ~HasForUpdate(u)
    /\ Run(t, "update")

\* UPDATE peers SET handle: waits for every other lock on the row; its unique
\* constraint refuses a handle that stands in another row.
UpdatePeer(t) ==
    /\ at[t] = "update"
    /\ \A u \in Rivals(t) : ~HasKeyShare(u)
    /\ IF \E p \in Peer \ {who[t]} : peers_handle[p] = want[t]
       THEN Return(t, "error") ELSE Run(t, "commit")

\* Fault: the UPDATE binds the key in place of the handle.
CommitWrongBind(t) ==
    /\ at[t] = "commit"
    /\ handles' = [handles EXCEPT ![want[t]] = who[t]]
    /\ peers_handle' = [peers_handle EXCEPT ![who[t]] = who[t]]
    /\ at' = [at EXCEPT ![t] = "idle"]
    /\ \E result \in {"ok", "error"} : answer' = [answer EXCEPT ![t] = result]
    /\ UNCHANGED <<who, want>>

\* COMMIT; its answer may be lost.
Commit(t) ==
    /\ at[t] = "commit"
    /\ handles' = [handles EXCEPT ![want[t]] = who[t]]
    /\ peers_handle' = [peers_handle EXCEPT ![who[t]] = want[t]]
    /\ at' = [at EXCEPT ![t] = "idle"]
    /\ \E result \in {"ok", "error"} : answer' = [answer EXCEPT ![t] = result]
    /\ UNCHANGED <<who, want>>

\* A statement fails: the connection to the database is lost, or Postgres ends
\* a deadlock, as between two tasks that both wait to UPDATE one row.
DatabaseError(t) == at[t] # "idle" /\ Return(t, "error")

ClaimStep(t) ==
    \/ BeginClaim(t) \/ UpsertPeer(t) \/ CheckOwn(t) \/ CheckFree(t)
    \/ InsertHandle(t) \/ LockPeer(t) \/ UpdatePeer(t) \/ Commit(t)
    \/ DatabaseError(t)

ClaimNext == \E t \in Task : ClaimStep(t)

ClaimSpec == ClaimInit /\ [][ClaimNext]_claimVars

-----------------------------------------------------------------------------
\* The tables and the claims in progress are well typed.
ClaimTypeOK ==
    /\ handles \in [Handle -> Peer \cup {None}]
    /\ peers_handle \in [Peer -> Handle \cup {None}]
    /\ at \in [Task -> Statements]
    /\ who \in [Task -> Peer]
    /\ want \in [Task -> Handle]
    /\ answer \in [Task -> {"none", "ok", "owned", "taken", "error", "malformed"}]

(***************************************************************************)
(* A claim that returned Ok owns its handle, and goes on owning it however *)
(* many claims race with it afterwards.                                    *)
(***************************************************************************)
ClaimHonoured == \A t \in Task : answer[t] = "ok" => handles[want[t]] = who[t]

(***************************************************************************)
(* peers.handle names a handle that the key owns in handles; so no two     *)
(* rows of peers name the same handle and the UPDATE of claim_handle never *)
(* meets the unique constraint, in whatever order transactions commit.     *)
(***************************************************************************)
PeersHandleOwned ==
    \A p \in Peer : peers_handle[p] # None => handles[peers_handle[p]] = p

(***************************************************************************)
(* The free-tier rule: a key owns at most one handle.                      *)
(***************************************************************************)
OneHandlePerKey ==
    \A g, h \in Handle : handles[g] # None /\ handles[g] = handles[h] => g = h

(***************************************************************************)
(* claim_handle implements the table of owners that HandleTable promises:  *)
(* a claim takes effect when its transaction commits.                      *)
(***************************************************************************)
Outcome ==
    [t \in Task |-> IF answer[t] = "ok" THEN <<who[t], want[t]>> ELSE None]

Table == INSTANCE HandleTable WITH owner <- handles, outcome <- Outcome

TableSpec == Table!TableSpec
=============================================================================
