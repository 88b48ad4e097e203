---------------------------- MODULE DatabaseProofs ----------------------------
(***************************************************************************)
(* Handle claims and team announcements, for any number of sessions, keys, *)
(* handles and teams.                                                      *)
(***************************************************************************)
EXTENDS HandleClaims, Teams, TLAPS

\* The primary key lets one task at a time insert a handle,
OneInserts ==
    \A t, u \in Task :
        t # u /\ HasInserted(t) /\ HasInserted(u) => want[t] # want[u]

\* and only one that nobody owns.
InsertsFree == \A t \in Task : HasInserted(t) => handles[want[t]] = None

ClaimInv ==
    /\ ClaimTypeOK /\ ClaimHonoured /\ PeersHandleOwned
    /\ OneInserts /\ InsertsFree

\* No claim has started.
LEMMA InitClaims == ClaimInit => ClaimInv
  BY DEF ClaimInit, ClaimInv, ClaimTypeOK, ClaimHonoured, PeersHandleOwned,
     OneInserts, InsertsFree, HasInserted, Statements

\* Task t moves to a statement that leaves its transaction without a new row.
LEMMA RunClaims ==
    ASSUME ClaimInv, NEW t \in Task, NEW statement \in Statements,
           Run(t, statement),
           statement \in {"foreign_key", "update", "commit"} =>
               /\ handles[want[t]] = None
               /\ \A u \in Task \ {t} : HasInserted(u) => want[u] # want[t]
    PROVE  ClaimInv'
<1>1. ClaimTypeOK'
  BY DEF Run, ClaimInv, ClaimTypeOK
<1>2. ClaimHonoured' /\ PeersHandleOwned'
  BY DEF Run, ClaimInv, ClaimHonoured, PeersHandleOwned
<1>3. OneInserts' /\ InsertsFree'
  BY DEF Run, ClaimInv, ClaimTypeOK, OneInserts, InsertsFree, HasInserted
<1> QED BY <1>1, <1>2, <1>3 DEF ClaimInv

\* Task t returns with something else than a claim it has not made.
LEMMA ReturnClaims ==
    ASSUME ClaimInv, NEW t \in Task,
           NEW result \in {"ok", "owned", "taken", "error"},
           Return(t, result),
           result = "ok" => handles[want[t]] = who[t]
    PROVE  ClaimInv'
<1>1. ClaimTypeOK'
  BY DEF Return, ClaimInv, ClaimTypeOK, Statements
<1>2. ClaimHonoured' /\ PeersHandleOwned'
  BY DEF Return, ClaimInv, ClaimTypeOK, ClaimHonoured, PeersHandleOwned
<1>3. OneInserts' /\ InsertsFree'
  BY DEF Return, ClaimInv, ClaimTypeOK, OneInserts, InsertsFree, HasInserted
<1> QED BY <1>1, <1>2, <1>3 DEF ClaimInv

\* A transaction begins.
LEMMA BeginClaims ==
    ASSUME ClaimInv, NEW t \in Task, BeginClaim(t)
    PROVE  ClaimInv'
<1>1. PICK p \in Peer, h \in Handle : /\ who' = [who EXCEPT ![t] = p]
                                      /\ want' = [want EXCEPT ![t] = h]
  BY DEF BeginClaim
<1>2. /\ \/ at' = [at EXCEPT ![t] = "upsert"] \/ at' = at
      /\ \/ answer' = [answer EXCEPT ![t] = "none"]
         \/ answer' = [answer EXCEPT ![t] = "malformed"]
      /\ at[t] = "idle" /\ handles' = handles /\ peers_handle' = peers_handle
  BY DEF BeginClaim
<1>3. ClaimTypeOK'
  BY <1>1, <1>2 DEF ClaimInv, ClaimTypeOK, Statements
<1>4. ClaimHonoured' /\ PeersHandleOwned'
  BY <1>1, <1>2 DEF ClaimInv, ClaimTypeOK, ClaimHonoured, PeersHandleOwned
<1>5. /\ ~HasInserted(t)'
      /\ \A u \in Task \ {t} : /\ HasInserted(u)' = HasInserted(u)
                               /\ want'[u] = want[u]
  BY <1>1, <1>2 DEF ClaimInv, ClaimTypeOK, HasInserted
<1>6. OneInserts' /\ InsertsFree'
  BY <1>2, <1>5 DEF ClaimInv, OneInserts, InsertsFree
<1> QED BY <1>3, <1>4, <1>6 DEF ClaimInv

\* A transaction commits and its row becomes visible.
LEMMA CommitClaims ==
    ASSUME ClaimInv, NEW t \in Task, Commit(t)
    PROVE  ClaimInv'
<1>1. /\ handles[want[t]] = None
      /\ want[t] \in Handle /\ who[t] \in Peer /\ None \notin Peer
      /\ \A u \in Task \ {t} : HasInserted(u) => want[u] # want[t]
  BY ClaimAssumption, DatabaseAssumption
     DEF Commit, ClaimInv, ClaimTypeOK, OneInserts, InsertsFree, HasInserted
<1>2. /\ handles' = [handles EXCEPT ![want[t]] = who[t]]
      /\ peers_handle' = [peers_handle EXCEPT ![who[t]] = want[t]]
      /\ at' = [at EXCEPT ![t] = "idle"]
      /\ who' = who /\ want' = want
  BY DEF Commit
<1>3. PICK result \in {"ok", "error"} : answer' = [answer EXCEPT ![t] = result]
  BY DEF Commit
<1>4. ClaimTypeOK'
  BY <1>1, <1>2, <1>3 DEF ClaimInv, ClaimTypeOK, Statements
<1>5. ClaimHonoured'
  BY <1>1, <1>2, <1>3 DEF ClaimInv, ClaimTypeOK, ClaimHonoured
<1>6. PeersHandleOwned'
  BY <1>1, <1>2 DEF ClaimInv, ClaimTypeOK, PeersHandleOwned
<1>7. OneInserts' /\ InsertsFree'
  BY <1>1, <1>2 DEF ClaimInv, ClaimTypeOK, OneInserts, InsertsFree, HasInserted
<1> QED BY <1>4, <1>5, <1>6, <1>7 DEF ClaimInv

\* Any step.
LEMMA StepClaims == ClaimInv /\ [ClaimNext]_claimVars => ClaimInv'
<1> SUFFICES ASSUME ClaimInv, [ClaimNext]_claimVars PROVE ClaimInv'
  OBVIOUS
<1>1. ASSUME NEW t \in Task, ClaimStep(t) PROVE ClaimInv'
  <2>1. CASE UpsertPeer(t) \/ CheckFree(t)
    BY <2>1, RunClaims, ReturnClaims DEF UpsertPeer, CheckFree, Statements
  <2>2. CASE CheckOwn(t)
    BY <2>2, RunClaims, ReturnClaims DEF CheckOwn, Statements
  <2>3. CASE InsertHandle(t)
    <3>1. CASE Return(t, "error")
      BY <3>1, ReturnClaims
    <3>2. CASE ~Return(t, "error")
      BY <2>3, <3>2, RunClaims DEF InsertHandle, Statements
    <3> QED BY <3>1, <3>2
  <2>4. CASE LockPeer(t) \/ UpdatePeer(t)
    <3>1. CASE Return(t, "error")
      BY <3>1, ReturnClaims
    <3>2. CASE ~Return(t, "error")
      <4>1. PICK statement \in {"update", "commit"} : Run(t, statement)
        BY <2>4, <3>2 DEF LockPeer, UpdatePeer
      <4>2. /\ handles[want[t]] = None
            /\ \A u \in Task \ {t} : HasInserted(u) => want[u] # want[t]
        BY <2>4 DEF LockPeer, UpdatePeer, ClaimInv, OneInserts, InsertsFree,
           HasInserted
      <4> QED BY <4>1, <4>2, RunClaims DEF Statements
    <3> QED BY <3>1, <3>2
  <2>5. CASE DatabaseError(t)
    BY <2>5, ReturnClaims DEF DatabaseError
  <2> QED BY <1>1, <2>1, <2>2, <2>3, <2>4, <2>5, BeginClaims, CommitClaims
          DEF ClaimStep
<1>2. ASSUME UNCHANGED claimVars PROVE ClaimInv'
  BY <1>2 DEF ClaimInv, ClaimTypeOK, ClaimHonoured, PeersHandleOwned,
     OneInserts, InsertsFree, HasInserted, claimVars
<1> QED BY <1>1, <1>2 DEF ClaimNext

\* The strengthened invariant holds throughout.
LEMMA ClaimInvariant == ClaimSpec => []ClaimInv
  BY InitClaims, StepClaims, PTL DEF ClaimSpec

\* The rows, the statements under way and the answers of claim are well typed.
THEOREM ClaimTypeCorrect == ClaimSpec => []ClaimTypeOK
<1>1. ClaimInv => ClaimTypeOK
  BY DEF ClaimInv
<1> QED BY <1>1, ClaimInvariant, PTL

\* A handle that claim granted stays with the key it was granted to, whatever
\* the transactions of other sessions insert, block on or roll back.
THEOREM ClaimsHonoured == ClaimSpec => []ClaimHonoured
<1>1. ClaimInv => ClaimHonoured
  BY DEF ClaimInv
<1> QED BY <1>1, ClaimInvariant, PTL

\* peers.handle, which claim updates in a statement of its own, names a handle
\* that the handles table gives to that key.
THEOREM PeersHandlesOwned == ClaimSpec => []PeersHandleOwned
<1>1. ClaimInv => PeersHandleOwned
  BY DEF ClaimInv
<1> QED BY <1>1, ClaimInvariant, PTL

-----------------------------------------------------------------------------
(***************************************************************************)
(* The refinement: the step that sets the answer is the claim.             *)
(***************************************************************************)
\* A step of t changes t's outcome only.
LEMMA OutcomeOfOne ==
    ASSUME NEW t \in Task,
           \A u \in Task \ {t} : /\ answer'[u] = answer[u]
                                 /\ who'[u] = who[u] /\ want'[u] = want[u]
    PROVE  Outcome' = [Outcome EXCEPT ![t] = Outcome'[t]]
  BY DEF Outcome

\* A statement inside the transaction is invisible in the table.
LEMMA RunRefines ==
    ASSUME NEW t \in Task, NEW statement, Run(t, statement)
    PROVE  UNCHANGED <<handles, Outcome>>
  BY DEF Run, Outcome

\* An answer is the step of the table that gives it.
LEMMA ReturnRefines ==
    ASSUME ClaimInv, NEW t \in Task, NEW result, Return(t, result),
           result = "ok" => handles[want[t]] = who[t]
    PROVE  Table!TableNext
<1>1. /\ answer' = [answer EXCEPT ![t] = result]
      /\ handles' = handles /\ who' = who /\ want' = want
  BY DEF Return
<1>2. Outcome' = [Outcome EXCEPT ![t] = Outcome'[t]]
  BY <1>1, OutcomeOfOne DEF ClaimInv, ClaimTypeOK
<1>3. CASE result = "ok"
  <2>1. Outcome'[t] = <<who[t], want[t]>>
    BY <1>1, <1>3 DEF Outcome, ClaimInv, ClaimTypeOK
  <2>2. /\ who[t] \in Peer /\ want[t] \in Handle
        /\ handles = [handles EXCEPT ![want[t]] = who[t]]
    BY <1>3 DEF ClaimInv, ClaimTypeOK
  <2>3. Table!Grant(t, who[t], want[t])
    BY <1>1, <1>2, <1>3, <2>1, <2>2 DEF Table!Grant
  <2> QED BY <2>2, <2>3 DEF Table!TableNext
<1>4. CASE result # "ok"
  <2>1. Outcome'[t] = None
    BY <1>1, <1>4 DEF Outcome, ClaimInv, ClaimTypeOK
  <2> QED BY <1>1, <1>2, <2>1 DEF Table!Refuse, Table!TableNext
<1> QED BY <1>3, <1>4

\* A claim that begins has no outcome yet.
LEMMA BeginRefines ==
    ASSUME ClaimInv, NEW t \in Task, BeginClaim(t)
    PROVE  Table!TableNext
<1>1. PICK p \in Peer, h \in Handle : /\ who' = [who EXCEPT ![t] = p]
                                      /\ want' = [want EXCEPT ![t] = h]
  BY DEF BeginClaim
<1>2. PICK result \in {"none", "malformed"} :
          answer' = [answer EXCEPT ![t] = result]
  BY DEF BeginClaim
<1>3. Outcome' = [Outcome EXCEPT ![t] = Outcome'[t]]
  BY <1>1, <1>2, OutcomeOfOne DEF ClaimInv, ClaimTypeOK
<1>4. Outcome'[t] = None
  BY <1>2 DEF Outcome, ClaimInv, ClaimTypeOK
<1> QED BY <1>3, <1>4 DEF BeginClaim, Table!Refuse, Table!TableNext

\* The commit grants the handle.
LEMMA CommitRefines ==
    ASSUME ClaimInv, NEW t \in Task, Commit(t)
    PROVE  Table!TableNext
<1>1. handles[want[t]] = None /\ want[t] \in Handle /\ who[t] \in Peer
  BY DEF Commit, ClaimInv, ClaimTypeOK, InsertsFree, HasInserted
<1>2. PICK result \in {"ok", "error"} : answer' = [answer EXCEPT ![t] = result]
  BY DEF Commit
<1>3. who' = who /\ want' = want
      /\ handles' = [handles EXCEPT ![want[t]] = who[t]]
  BY DEF Commit
<1>4. Outcome' = [Outcome EXCEPT ![t] = Outcome'[t]]
  BY <1>2, <1>3, OutcomeOfOne DEF ClaimInv, ClaimTypeOK
<1>5. Outcome'[t] \in {None, <<who[t], want[t]>>}
  BY <1>2, <1>3 DEF Outcome, ClaimInv, ClaimTypeOK
<1>6. Table!Grant(t, who[t], want[t])
  BY <1>1, <1>3, <1>4, <1>5 DEF Table!Grant
<1> QED BY <1>1, <1>6 DEF Table!TableNext

\* Every step is a step of the table or a stutter of it.
LEMMA StepRefines ==
    ClaimInv /\ [ClaimNext]_claimVars => [Table!TableNext]_(Table!tableVars)
<1> SUFFICES ASSUME ClaimInv, [ClaimNext]_claimVars
             PROVE  [Table!TableNext]_(Table!tableVars)
  OBVIOUS
<1>1. ASSUME NEW t \in Task, ClaimStep(t)
      PROVE  Table!TableNext \/ UNCHANGED <<handles, Outcome>>
  <2>1. CASE UpsertPeer(t) \/ LockPeer(t)
    BY <2>1, RunRefines DEF UpsertPeer, LockPeer
  <2>2. CASE CheckOwn(t)
    BY <2>2, RunRefines, ReturnRefines DEF CheckOwn
  <2>3. CASE CheckFree(t) \/ InsertHandle(t) \/ UpdatePeer(t) \/ DatabaseError(t)
    BY <2>3, RunRefines, ReturnRefines
       DEF CheckFree, InsertHandle, UpdatePeer, DatabaseError
  <2> QED BY <1>1, <2>1, <2>2, <2>3, BeginRefines, CommitRefines DEF ClaimStep
<1>2. ASSUME UNCHANGED claimVars PROVE UNCHANGED <<handles, Outcome>>
  BY <1>2 DEF claimVars, Outcome
<1> QED BY <1>1, <1>2 DEF ClaimNext, Table!tableVars

(***************************************************************************)
(* claim_handle is an atomic claim: its transactions implement the table   *)
(* of owners on which the broker's registration relies.                    *)
(***************************************************************************)
THEOREM ClaimsRefineTable == ClaimSpec => TableSpec
<1>1. ClaimInit => Table!TableInit
  BY DEF ClaimInit, Table!TableInit, Outcome
<1> QED BY <1>1, ClaimInvariant, StepRefines, PTL
        DEF ClaimSpec, TableSpec, Table!TableSpec

-----------------------------------------------------------------------------
\* An announcement past the signature check has the teams row it named, its
\* signature covers that, under an admin it named for the team, and its key is
\* recorded before it becomes a member.
PastCheck(s) ==
    /\ step[s] # "idle" => msg[s] \in Announcement /\ reply[s] = "none"
    /\ reply[s] = "ok" => msg[s] \in Announcement /\ row[s] \in Team
    /\ step[s] \in {"peer", "member"} =>
           /\ row[s] \in Team /\ msg[s].team_id \in {row[s], None}
           /\ Covers(msg[s], row[s]) /\ NamedAdmin(row[s], msg[s].admin)
    /\ step[s] = "member" => msg[s].who \in peers

TeamInv ==
    /\ TeamTypeOK /\ MemberVouched /\ MembersRecorded /\ AnnounceHonoured
    /\ \A s \in Session : PastCheck(s)

\* No step takes back that a key was named as the admin of a team.
NamesKept == \A t \in Team, a \in Peer : NamedAdmin(t, a) => NamedAdmin(t, a)'

\* Empty tables.
LEMMA InitTeams == TeamInit => TeamInv
<1> SUFFICES ASSUME TeamInit PROVE TeamInv
  OBVIOUS
<1>1. TeamTypeOK
  BY DEF TeamInit, TeamTypeOK
<1>2. MemberVouched /\ MembersRecorded /\ AnnounceHonoured
  BY DEF TeamInit, MemberVouched, MembersRecorded, AnnounceHonoured
<1>3. \A s \in Session : PastCheck(s)
  BY DEF TeamInit, PastCheck
<1> QED BY <1>1, <1>2, <1>3 DEF TeamInv

\* What a session leaves as it is.
LEMMA OtherSession ==
    ASSUME TeamInv, NamesKept, NEW s \in Session, peers \subseteq peers',
           step'[s] = step[s], msg'[s] = msg[s], row'[s] = row[s],
           reply'[s] = reply[s]
    PROVE  PastCheck(s)'
<1>1. PastCheck(s) /\ (step[s] # "idle" => msg[s].admin \in Peer)
  BY DEF TeamInv, PastCheck, Announcement
<1>2. step[s] \in {"peer", "member"} => NamedAdmin(row[s], msg[s].admin)'
  BY <1>1 DEF PastCheck, NamesKept, NamedAdmin
<1> QED BY <1>1, <1>2 DEF PastCheck, Covers

\* Rows that stay stay vouched for.
LEMMA SameMembers ==
    ASSUME TeamInv, NamesKept, UNCHANGED team_members
    PROVE  MemberVouched'
<1>1. \A t \in Team, p \in Peer :
        team_members[<<t, p>>] # None => team_members[<<t, p>>][1] \in Peer
  BY DEF TeamInv, TeamTypeOK, Signature
<1> QED BY <1>1 DEF TeamInv, MemberVouched, NamesKept, NamedAdmin

\* An announcement fails, whatever it has written to teams and peers.
LEMMA FailTeams ==
    ASSUME TeamInv, NEW s \in Session, NEW how \in {"refused", "error"},
           Fail(s, how), teams' \in [Team -> Peer \cup {None}],
           peers \subseteq peers', peers' \subseteq Peer,
           overruled' \subseteq Team \X Peer, NamesKept, UNCHANGED team_members
    PROVE  TeamInv'
<1>1. TeamTypeOK'
  BY DEF TeamInv, TeamTypeOK, Fail
<1>2. MemberVouched' /\ MembersRecorded'
  BY SameMembers DEF TeamInv, MembersRecorded
<1>3. /\ step' = [step EXCEPT ![s] = "idle"] /\ reply' = [reply EXCEPT ![s] = how]
      /\ msg' = [msg EXCEPT ![s] = None] /\ row' = [row EXCEPT ![s] = None]
  BY DEF Fail
<1>4. AnnounceHonoured'
  BY <1>3 DEF TeamInv, TeamTypeOK, AnnounceHonoured
<1>5. ASSUME NEW u \in Session PROVE PastCheck(u)'
  <2>1. CASE u = s
    BY <1>3, <2>1 DEF TeamInv, TeamTypeOK, PastCheck
  <2>2. CASE u # s
    BY <1>3, <2>2, OtherSession DEF TeamInv, TeamTypeOK
  <2> QED BY <2>1, <2>2
<1> QED BY <1>1, <1>2, <1>4, <1>5 DEF TeamInv

\* An announcement passes the check, or its key is recorded.
LEMMA GoOnTeams ==
    ASSUME TeamInv, NEW s \in Session, NEW next \in {"peer", "member"},
           NEW t \in Team, GoOn(s, next, t), step[s] # "idle",
           Covers(msg[s], t), msg[s].team_id \in {t, None},
           teams' \in [Team -> Peer \cup {None}],
           peers \subseteq peers', peers' \subseteq Peer,
           next = "member" => msg[s].who \in peers',
           overruled' \subseteq Team \X Peer, NamesKept,
           teams'[t] = msg[s].admin \/ <<t, msg[s].admin>> \in overruled',
           UNCHANGED team_members
    PROVE  TeamInv'
<1>1. TeamTypeOK'
  BY DEF TeamInv, TeamTypeOK, GoOn
<1>2. MemberVouched' /\ MembersRecorded'
  BY SameMembers DEF TeamInv, MembersRecorded
<1>3. /\ step' = [step EXCEPT ![s] = next] /\ row' = [row EXCEPT ![s] = t]
      /\ UNCHANGED <<msg, reply>>
  BY DEF GoOn
<1>4. msg[s] \in Announcement /\ reply[s] = "none"
  BY DEF TeamInv, PastCheck
<1>5. AnnounceHonoured'
  <2> SUFFICES ASSUME NEW u \in Session, reply'[u] = "ok"
               PROVE  /\ team_members'[<<row'[u], msg'[u].who>>] # None
                      /\ msg'[u].team_id \in {row'[u], None}
    BY DEF AnnounceHonoured
  <2>1. u # s
    BY <1>3, <1>4
  <2> QED BY <1>3, <2>1 DEF TeamInv, TeamTypeOK, AnnounceHonoured
<1>6. ASSUME NEW u \in Session PROVE PastCheck(u)'
  <2>1. CASE u = s
    <3>1. /\ step'[s] = next /\ row'[s] = t /\ msg'[s] = msg[s]
          /\ reply'[s] = "none"
      BY <1>3, <1>4 DEF TeamInv, TeamTypeOK
    <3> QED BY <1>4, <2>1, <3>1 DEF PastCheck, Covers, NamedAdmin
  <2>2. CASE u # s
    BY <1>3, <2>2, OtherSession DEF TeamInv, TeamTypeOK
  <2> QED BY <2>1, <2>2
<1> QED BY <1>1, <1>2, <1>5, <1>6 DEF TeamInv

\* An announcement arrives.
LEMMA AnnounceTeams ==
    ASSUME TeamInv, NEW s \in Session, Announce(s)
    PROVE  TeamInv'
<1>1. PICK m \in Announcement : msg' = [msg EXCEPT ![s] = m]
  BY DEF Announce
<1>2. /\ step' = [step EXCEPT ![s] = "team"] /\ row' = [row EXCEPT ![s] = None]
      /\ reply' = [reply EXCEPT ![s] = "none"]
      /\ UNCHANGED <<teams, team_members, peers, told, overruled>> /\ NamesKept
  BY DEF Announce, NamesKept, NamedAdmin
<1>3. TeamTypeOK'
  BY <1>1, <1>2 DEF TeamInv, TeamTypeOK
<1>4. MemberVouched' /\ MembersRecorded'
  BY <1>2, SameMembers DEF TeamInv, MembersRecorded
<1>5. AnnounceHonoured'
  BY <1>1, <1>2 DEF TeamInv, TeamTypeOK, AnnounceHonoured
<1>6. ASSUME NEW u \in Session PROVE PastCheck(u)'
  <2>1. CASE u = s
    <3>1. step'[s] = "team" /\ msg'[s] = m /\ reply'[s] = "none"
      BY <1>1, <1>2 DEF TeamInv, TeamTypeOK
    <3> QED BY <2>1, <3>1 DEF PastCheck
  <2>2. CASE u # s
    BY <1>1, <1>2, <2>2, OtherSession DEF TeamInv, TeamTypeOK
  <2> QED BY <2>1, <2>2
<1> QED BY <1>3, <1>4, <1>5, <1>6 DEF TeamInv

\* add_team_member writes the row, and announce is answered.
LEMMA MemberTeams ==
    ASSUME TeamInv, NEW s \in Session, step[s] = "member",
           team_members' = [team_members EXCEPT
                              ![<<row[s], msg[s].who>>] = SignatureColumn(s)],
           Succeed(s) \/ Fail(s, "error"),
           UNCHANGED <<teams, peers, overruled>>
    PROVE  TeamInv'
<1> DEFINE key == <<row[s], msg[s].who>>
           sig == msg[s].admin_signature
<1>0. NamesKept
  BY DEF NamesKept, NamedAdmin
<1>1. /\ msg[s] \in Announcement /\ row[s] \in Team /\ msg[s].who \in peers
      /\ msg[s].team_id \in {row[s], None} /\ Covers(msg[s], row[s])
      /\ NamedAdmin(row[s], msg[s].admin)
  BY DEF TeamInv, PastCheck
<1>2. /\ sig \in Signature(Team) /\ msg[s].who \in Peer /\ key \in Team \X Peer
      /\ sig[1] = msg[s].admin /\ sig[2] = row[s] /\ sig[3] = msg[s].who
      /\ sig # None
  <2>1. sig \in Signature(Team) /\ msg[s].who \in Peer
    BY <1>1 DEF Announcement
  <2>2. sig # None
    BY <2>1, TeamAssumption DEF Signature, Team
  <2> QED BY <1>1, <2>1, <2>2 DEF Covers
<1>3. /\ team_members' = [team_members EXCEPT ![key] = sig]
      /\ team_members \in [Team \X Peer -> Signature(Team) \cup {None}]
  BY DEF SignatureColumn, TeamInv, TeamTypeOK
<1>4. team_members' \in [Team \X Peer -> Signature(Team) \cup {None}]
  BY <1>2, <1>3
<1>5. \A k \in Team \X Peer : team_members'[k] = IF k = key THEN sig ELSE team_members[k]
  BY <1>3
<1>6. TeamTypeOK'
  BY <1>1, <1>4 DEF TeamInv, TeamTypeOK, Succeed, Fail
<1>7. MemberVouched'
  <2>1. NamedAdmin(row[s], sig[1])
    BY <1>1, <1>2
  <2> SUFFICES ASSUME NEW t \in Team, NEW p \in Peer, team_members'[<<t, p>>] # None
               PROVE  /\ team_members'[<<t, p>>][2] = t
                      /\ team_members'[<<t, p>>][3] = p
                      /\ NamedAdmin(t, team_members'[<<t, p>>][1])
    BY DEF MemberVouched, NamedAdmin
  <2>2. CASE <<t, p>> = key
    BY <1>2, <1>5, <2>1, <2>2
  <2>3. CASE <<t, p>> # key
    BY <1>5, <2>3 DEF TeamInv, MemberVouched
  <2> QED BY <2>2, <2>3
<1>8. MembersRecorded'
  BY <1>1, <1>5 DEF TeamInv, MembersRecorded
<1>9. /\ step' = [step EXCEPT ![s] = "idle"]
      /\ reply' \in {[reply EXCEPT ![s] = "ok"], [reply EXCEPT ![s] = "error"]}
      /\ reply'[s] = "ok" => UNCHANGED <<msg, row>>
      /\ \A u \in Session \ {s} : msg'[u] = msg[u] /\ row'[u] = row[u]
  BY DEF Succeed, Fail, TeamInv, TeamTypeOK
<1>10. AnnounceHonoured'
  <2> SUFFICES ASSUME NEW u \in Session, reply'[u] = "ok"
               PROVE  /\ team_members'[<<row'[u], msg'[u].who>>] # None
                      /\ msg'[u].team_id \in {row'[u], None}
    BY DEF AnnounceHonoured
  <2>1. CASE u = s
    <3>1. msg'[u] = msg[s] /\ row'[u] = row[s]
      BY <1>9, <2>1
    <3> QED BY <1>1, <1>2, <1>5, <3>1
  <2>2. CASE u # s
    <3>1. reply[u] = "ok" /\ msg'[u] = msg[u] /\ row'[u] = row[u]
      BY <1>9, <2>2 DEF TeamInv, TeamTypeOK
    <3>2. msg[u] \in Announcement /\ row[u] \in Team
      BY <3>1 DEF TeamInv, PastCheck
    <3>3. <<row[u], msg[u].who>> \in Team \X Peer
      BY <3>2 DEF Announcement
    <3>4. team_members[<<row[u], msg[u].who>>] # None
          /\ msg[u].team_id \in {row[u], None}
      BY <3>1 DEF TeamInv, AnnounceHonoured
    <3> QED BY <1>2, <1>5, <3>1, <3>3, <3>4
  <2> QED BY <2>1, <2>2
<1>11. ASSUME NEW u \in Session PROVE PastCheck(u)'
  <2>1. CASE u = s
    <3>1. step'[s] = "idle"
      BY <1>9 DEF TeamInv, TeamTypeOK
    <3>2. reply'[s] = "ok" => msg'[s] = msg[s] /\ row'[s] = row[s]
      BY <1>9
    <3> QED BY <1>1, <2>1, <3>1, <3>2 DEF PastCheck
  <2>2. CASE u # s
    <3>1. step'[u] = step[u] /\ reply'[u] = reply[u]
      BY <1>9, <2>2 DEF TeamInv, TeamTypeOK
    <3> QED BY <1>0, <1>9, <2>2, <3>1, OtherSession
  <2> QED BY <2>1, <2>2
<1> QED BY <1>6, <1>7, <1>8, <1>10, <1>11 DEF TeamInv

\* The teams row is written, and the signature checked.
LEMMA UpsertTeamTeams ==
    ASSUME TeamInv, NEW s \in Session, UpsertTeam(s)
    PROVE  TeamInv'
<1>1. msg[s] \in Announcement
  BY DEF UpsertTeam, TeamInv, PastCheck
<1>2. PICK t \in IF msg[s].team_id # None THEN {msg[s].team_id}
                 ELSE {u \in Minted : teams[u] = None} :
        /\ UpsertRow(t, msg[s].admin)
        /\ overruled' = overruled \cup Overrules(t, msg[s].admin)
        /\ \/ Covers(msg[s], t) /\ GoOn(s, "peer", t)
           \/ ~Covers(msg[s], t) /\ Fail(s, "refused")
           \/ Fail(s, "error")
  BY DEF UpsertTeam
<1>3. t \in Team /\ msg[s].team_id \in {t, None} /\ msg[s].admin \in Peer
  BY <1>1, <1>2 DEF Announcement, Team
<1>4. teams' \in [Team -> Peer \cup {None}]
  BY <1>2, <1>3 DEF UpsertRow, TeamInv, TeamTypeOK
<1>5. UNCHANGED <<team_members, peers>> /\ step[s] # "idle" /\ peers \subseteq Peer
  BY DEF UpsertTeam, TeamInv, TeamTypeOK
<1>6. overruled \subseteq overruled' /\ overruled' \subseteq Team \X Peer
  BY <1>2, <1>3 DEF Overrules, TeamInv, TeamTypeOK
<1>7. NamesKept
  <2>1. \A u \in Team : teams[u] # None => teams'[u] = teams[u]
    BY <1>2, <1>3 DEF UpsertRow, TeamInv, TeamTypeOK
  <2>2. \A a \in Peer : a # None
    BY DatabaseAssumption
  <2> QED BY <1>6, <2>1, <2>2 DEF NamesKept, NamedAdmin
<1>8. teams'[t] = msg[s].admin \/ <<t, msg[s].admin>> \in overruled'
  BY <1>2, <1>3 DEF UpsertRow, Overrules, TeamInv, TeamTypeOK
<1> QED BY <1>2, <1>3, <1>4, <1>5, <1>6, <1>7, <1>8, FailTeams, GoOnTeams

\* The announcing key's peers row is written.
LEMMA UpsertAnnouncerTeams ==
    ASSUME TeamInv, NEW s \in Session, UpsertAnnouncer(s)
    PROVE  TeamInv'
<1>1. /\ msg[s] \in Announcement /\ row[s] \in Team
      /\ msg[s].team_id \in {row[s], None} /\ Covers(msg[s], row[s])
      /\ NamedAdmin(row[s], msg[s].admin)
  BY DEF UpsertAnnouncer, TeamInv, PastCheck
<1>2. /\ peers' = peers \cup {msg[s].who}
      /\ UNCHANGED <<teams, team_members, overruled>>
      /\ GoOn(s, "member", row[s]) \/ Fail(s, "error")
      /\ step[s] # "idle"
  BY DEF UpsertAnnouncer
<1>3. /\ peers \subseteq peers' /\ peers' \subseteq Peer /\ msg[s].who \in peers'
      /\ teams' \in [Team -> Peer \cup {None}]
  BY <1>1, <1>2 DEF TeamInv, TeamTypeOK, Announcement
<1>4. /\ overruled' \subseteq Team \X Peer /\ NamesKept
      /\ \/ teams'[row[s]] = msg[s].admin
         \/ <<row[s], msg[s].admin>> \in overruled'
  BY <1>1, <1>2 DEF TeamInv, TeamTypeOK, NamesKept, NamedAdmin
<1> QED BY <1>1, <1>2, <1>3, <1>4, FailTeams, GoOnTeams

\* Any step.
LEMMA StepTeams == TeamInv /\ [TeamNext]_teamVars => TeamInv'
<1>1. ASSUME TeamInv, UNCHANGED teamVars PROVE TeamInv'
  <2>1. TeamTypeOK' /\ MemberVouched' /\ MembersRecorded' /\ AnnounceHonoured'
    BY <1>1 DEF TeamInv, TeamTypeOK, MemberVouched, MembersRecorded,
       AnnounceHonoured, NamedAdmin, teamVars
  <2>2. \A s \in Session : PastCheck(s)'
    BY <1>1, OtherSession DEF teamVars, NamesKept, NamedAdmin
  <2> QED BY <2>1, <2>2 DEF TeamInv
<1>2. ASSUME TeamInv, NEW s \in Session, AddTeamMember(s) PROVE TeamInv'
  BY <1>2, MemberTeams DEF AddTeamMember
<1>3. ASSUME TeamInv, NEW s \in Session, StatementError(s) PROVE TeamInv'
  <2>1. NamesKept
    BY <1>3 DEF StatementError, NamesKept, NamedAdmin
  <2> QED BY <1>3, <2>1, FailTeams DEF StatementError, TeamInv, TeamTypeOK
<1> QED BY <1>1, <1>2, <1>3, AnnounceTeams, UpsertTeamTeams,
           UpsertAnnouncerTeams DEF TeamNext

\* What announce relies on holds throughout.
LEMMA TeamInvariant == TeamSpec => []TeamInv
  BY InitTeams, StepTeams, PTL DEF TeamSpec

\* The team tables and the sessions inside announce are well typed.
THEOREM TeamTypeCorrect == TeamSpec => []TeamTypeOK
<1>1. TeamInv => TeamTypeOK
  BY DEF TeamInv
<1> QED BY <1>1, TeamInvariant, PTL

\* A member row carries a signature over that team and that key, although
\* announce verifies it only after it has written the teams row; and it is the
\* signature of the team's admin, unless an announcement named another key as
\* the admin of a team that had one, which announce does not refuse.
THEOREM MembersVouched == TeamSpec => []MemberVouched
<1>1. TeamInv => MemberVouched
  BY DEF TeamInv
<1> QED BY <1>1, TeamInvariant, PTL

\* Every member has a peers row, though announce writes it in an earlier
\* statement that commits on its own.
THEOREM MembersHaveRows == TeamSpec => []MembersRecorded
<1>1. TeamInv => MembersRecorded
  BY DEF TeamInv
<1> QED BY <1>1, TeamInvariant, PTL

\* An announcement that was answered made its key a member of its team.
THEOREM AnnouncesHonoured == TeamSpec => []AnnounceHonoured
<1>1. TeamInv => AnnounceHonoured
  BY DEF TeamInv
<1> QED BY <1>1, TeamInvariant, PTL

(***************************************************************************)
(* upsert_team never changes the admin of a team, though it writes the row *)
(* before announce has checked the admin's signature.                      *)
(***************************************************************************)
THEOREM TeamAdminKept == TeamSpec => AdminKept
<1>1. TeamInv /\ [TeamNext]_teamVars =>
        [\A t \in Team : teams[t] # None => teams'[t] = teams[t]]_teamVars
  <2> SUFFICES ASSUME TeamInv, TeamNext, NEW t \in Team, teams[t] # None
               PROVE  teams'[t] = teams[t]
    OBVIOUS
  <2>1. ASSUME NEW s \in Session, UpsertTeam(s) PROVE teams'[t] = teams[t]
    BY <2>1 DEF UpsertTeam, UpsertRow, TeamInv, TeamTypeOK
  <2> QED BY <2>1 DEF TeamNext, Announce, UpsertAnnouncer, AddTeamMember,
          StatementError
<1> QED BY <1>1, TeamInvariant, PTL DEF TeamSpec, AdminKept
===============================================================================
