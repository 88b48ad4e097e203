------------------------------- MODULE Teams -------------------------------
(***************************************************************************)
(* teams::announce of src/teams.rs over the tables teams, team_members and *)
(* peers.  An announcement is four statements, each committed on its own,  *)
(* with the check of the admin's signature after the first.  A Session     *)
(* makes one announcement at a time, for any key, and may come back with   *)
(* another.  Of a teams row only the admin matters here; its name is what  *)
(* the last announcement called it.                                        *)
(*                                                                         *)
(* A signature is the triple of the key that made it and the team and      *)
(* member it covers, and a key is its one spelling.  Clients use ids they have chosen or were told; the   *)
(* ids that gen_random_uuid draws (Minted) are unknown until returned.     *)
(***************************************************************************)
EXTENDS Database

CONSTANTS Session, Chosen, Minted

ASSUME TeamAssumption ==
    /\ Chosen \cap Minted = {}
    /\ None \notin Chosen \cup Minted
    /\ None \notin Peer \X (Chosen \cup Minted) \X Peer

VARIABLES
    teams,          \* [Team -> teams.admin_pubkey, or None without a row]
    team_members,   \* [Team \X Peer -> admin_signature, or None without a row]
    peers,          \* the keys with a peers row
    told,           \* the ids announce has returned
    overruled,      \* history: the pairs of a team and an admin that some
                    \* announcement named for it and the row did not take
    step,           \* the statement a session runs next
    msg, row,       \* its announcement, and the id of the teams row
    reply           \* how its last announcement ended

teamVars == <<teams, team_members, peers, told, overruled, step, msg, row, reply>>

Team == Chosen \cup Minted

Signature(teamIds) == Peer \X teamIds \X Peer

Announcement == [who : Peer, team_id : Team \cup {None}, admin : Peer,
                 admin_signature : Signature(Team)]

TeamInit ==
    /\ teams = [t \in Team |-> None]
    /\ team_members = [tm \in Team \X Peer |-> None]
    /\ peers = {} /\ told = {} /\ overruled = {}
    /\ step = [s \in Session |-> "idle"]
    /\ msg = [s \in Session |-> None]
    /\ row = [s \in Session |-> None]
    /\ reply = [s \in Session |-> "none"]

\* A team_announce arrives; the session was idle.
Announce(s) ==
    /\ step[s] = "idle"
    /\ \E m \in Announcement :
         /\ m.team_id \in Chosen \cup told \cup {None}
         /\ m.admin_signature \in Signature(Chosen \cup told)
         /\ msg' = [msg EXCEPT ![s] = m]
    /\ step' = [step EXCEPT ![s] = "team"]
    /\ row' = [row EXCEPT ![s] = None]
    /\ reply' = [reply EXCEPT ![s] = "none"]
    /\ UNCHANGED <<teams, team_members, peers, told, overruled>>

\* announce goes on to its next statement, with the teams row t.
GoOn(s, next, t) ==
    /\ step' = [step EXCEPT ![s] = next]
    /\ row' = [row EXCEPT ![s] = t]
    /\ UNCHANGED <<msg, reply, told>>

\* announce returns an error, and its locals are gone.
Fail(s, how) ==
    /\ step' = [step EXCEPT ![s] = "idle"]
    /\ msg' = [msg EXCEPT ![s] = None]
    /\ row' = [row EXCEPT ![s] = None]
    /\ reply' = [reply EXCEPT ![s] = how]
    /\ UNCHANGED told

\* announce returns Ok(id).
Succeed(s) ==
    /\ step' = [step EXCEPT ![s] = "idle"]
    /\ reply' = [reply EXCEPT ![s] = "ok"]
    /\ told' = told \cup {row[s]}
    /\ UNCHANGED <<msg, row>>

\* Fault: verified under the announcing key.
CoversOwn(m, t) == m.admin_signature = <<m.who, t, m.who>>

\* verify_detached over admin_signed_bytes, under the admin key of the message.
Covers(m, t) == m.admin_signature = <<m.admin, t, m.who>>

\* Fault: ON CONFLICT also takes the new admin.
UpsertRowAdmin(t, admin) == teams' = [teams EXCEPT ![t] = admin]

\* INSERT INTO teams, ON CONFLICT DO UPDATE SET name.
UpsertRow(t, admin) ==
    teams' = [teams EXCEPT ![t] = IF @ = None THEN admin ELSE @]

\* The admin an announcement names for team t, when the row has another one.
Overrules(t, admin) == IF teams[t] \in {None, admin} THEN {} ELSE {<<t, admin>>}

\* upsert_team, and the check of the signature that follows it.
UpsertTeam(s) ==
    /\ step[s] = "team"
    /\ \E t \in IF msg[s].team_id # None THEN {msg[s].team_id}
                ELSE {u \in Minted : teams[u] = None} :
         /\ UpsertRow(t, msg[s].admin)
         /\ overruled' = overruled \cup Overrules(t, msg[s].admin)
         /\ \/ Covers(msg[s], t) /\ GoOn(s, "peer", t)
            \/ ~Covers(msg[s], t) /\ Fail(s, "refused")
            \/ Fail(s, "error")
    /\ UNCHANGED <<team_members, peers>>

\* Fault: a failed upsert_peer is ignored.
UpsertAnnouncerAnyway(s) ==
    /\ step[s] = "peer"
    /\ \E done \in BOOLEAN : peers' = IF done THEN peers \cup {msg[s].who} ELSE peers
    /\ GoOn(s, "member", row[s])
    /\ UNCHANGED <<teams, team_members, overruled>>

\* upsert_peer.
UpsertAnnouncer(s) ==
    /\ step[s] = "peer"
    /\ peers' = peers \cup {msg[s].who}
    /\ GoOn(s, "member", row[s]) \/ Fail(s, "error")
    /\ UNCHANGED <<teams, team_members, overruled>>

\* Fault: the wrong column is bound.
SignatureColumnAdmin(s) == msg[s].admin

SignatureColumn(s) == msg[s].admin_signature

\* Fault: the result of add_team_member is ignored.
AddTeamMemberMaybe(s) ==
    /\ step[s] = "member"
    /\ \E sig \in {team_members[<<row[s], msg[s].who>>], msg[s].admin_signature} :
         team_members' = [team_members EXCEPT ![<<row[s], msg[s].who>>] = sig]
    /\ Succeed(s)
    /\ UNCHANGED <<teams, peers, overruled>>

\* add_team_member, whose foreign key needs the teams row, and Ok(id).
AddTeamMember(s) ==
    /\ step[s] = "member"
    /\ teams[row[s]] # None
    /\ team_members' = [team_members EXCEPT
                          ![<<row[s], msg[s].who>>] = SignatureColumn(s)]
    /\ Succeed(s) \/ Fail(s, "error")
    /\ UNCHANGED <<teams, peers, overruled>>

\* A statement fails without effect; the disjuncts above that end in an error
\* are those whose answer is lost.
StatementError(s) ==
    /\ step[s] # "idle"
    /\ Fail(s, "error")
    /\ UNCHANGED <<teams, team_members, peers, overruled>>

TeamNext ==
    \E s \in Session : \/ Announce(s) \/ UpsertTeam(s) \/ UpsertAnnouncer(s)
                       \/ AddTeamMember(s) \/ StatementError(s)

TeamSpec == TeamInit /\ [][TeamNext]_teamVars

-----------------------------------------------------------------------------
\* The tables and the announcements in progress are well typed.
TeamTypeOK ==
    /\ teams \in [Team -> Peer \cup {None}]
    /\ team_members \in [Team \X Peer -> Signature(Team) \cup {None}]
    /\ peers \subseteq Peer /\ told \subseteq Team
    /\ overruled \subseteq Team \X Peer
    /\ step \in [Session -> {"idle", "team", "peer", "member"}]
    /\ msg \in [Session -> Announcement \cup {None}]
    /\ row \in [Session -> Team \cup {None}]
    /\ reply \in [Session -> {"none", "ok", "refused", "error"}]

\* The key a is the admin of team t, or was named as its admin in vain.
NamedAdmin(t, a) == teams[t] = a \/ <<t, a>> \in overruled

(***************************************************************************)
(* A row of team_members carries a signature over that very team and       *)
(* member, however announcements for it fail, race or are repeated.  It is *)
(* the signature of the team's admin, or of a key that some announcement   *)
(* named as the admin of that team when the team had another one.          *)
(***************************************************************************)
MemberVouched ==
    \A t \in Team, p \in Peer :
        LET sig == team_members[<<t, p>>]
        IN sig # None => sig[2] = t /\ sig[3] = p /\ NamedAdmin(t, sig[1])

(***************************************************************************)
(* The admin of a team signs for its members: the signature in a row of    *)
(* team_members is by the key in the team's row.                           *)
(***************************************************************************)
AdminSigned ==
    \A t \in Team, p \in Peer :
        team_members[<<t, p>>] # None => team_members[<<t, p>>][1] = teams[t]

(***************************************************************************)
(* A member has a peers row, which no constraint of the schema asks for:   *)
(* announce writes it first, and stops when that fails.                    *)
(***************************************************************************)
MembersRecorded ==
    \A t \in Team, p \in Peer : team_members[<<t, p>>] # None => p \in peers

(***************************************************************************)
(* An announcement that was answered with an id made its key a member of   *)
(* that team, and of the team it named, for good.                          *)
(***************************************************************************)
AnnounceHonoured ==
    \A s \in Session :
        reply[s] = "ok" => /\ team_members[<<row[s], msg[s].who>>] # None
                           /\ msg[s].team_id \in {row[s], None}

(***************************************************************************)
(* The admin of a team is the one its first announcement named.  Later     *)
(* announcements, which write the row before their signature is checked,   *)
(* never change it.                                                        *)
(***************************************************************************)
AdminKept ==
    [][\A t \in Team : teams[t] # None => teams'[t] = teams[t]]_teamVars
=============================================================================
