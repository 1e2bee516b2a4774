------------------------------- MODULE Members -------------------------------
(***************************************************************************)
(* Who may act for an organization: its members, their sign-in and its API *)
(* keys (routes/members.py, routes/api_keys.py, services/sso_service.py,   *)
(* routes/clerk.py, middleware/auth.py).                                   *)
(*                                                                         *)
(* Every request reads a row without a lock, decides, and writes the       *)
(* columns it has changed: the UPDATE, or the INSERT under the unique      *)
(* index, waits for a transaction that has written the row before and      *)
(* keeps others waiting until its own commit.  Administrators' changes are *)
(* audited between their write and their commit; a sign-in is not.         *)
(*                                                                         *)
(* One organization; a person is an e-mail address, verified by Clerk.     *)
(***************************************************************************)
EXTENDS Naturals, Sequences, SequencesExt, FiniteSets

CONSTANTS
  Asks,          \* the requests
  People,
  ApiKeys,
  Roles,         \* the roles that play a part
  JoinRole,      \* what map_identity_role makes of the claims of a newcomer
  AutoJoin       \* sso_auto_join, in an organization that has SSO for the domain

ASSUME MembersAssumption ==
  /\ IsFiniteSet(Asks) /\ "nobody" \notin Asks /\ IsFiniteSet(People)
  /\ JoinRole \in Roles
  /\ AutoJoin \in BOOLEAN

VARIABLES
  member,        \* the committed rows of org_members
  key,           \* the committed rows of api_keys
  holder,        \* holder[p]: the request whose transaction has written p's row
  ask,           \* what each request wants, has read, and has come to
  trail          \* the requests in the order of their audit events; an event
                 \* counts once its request has committed

memberVars == <<member, key, holder, ask, trail>>

MemberStatus == {"none", "invited", "active", "revoked"}
MemberRow == [status : MemberStatus, role : Roles]
KeyRow == [revoked : BOOLEAN, used : BOOLEAN]

Audited == {"invite", "set_role", "revoke"}
AskKinds == Audited \cup {"sign_in"}
KeyKinds == {"use_key", "revoke_key"}

AskPlaces == {"new", "read", "written", "audited", "committed", "conflict", "forbidden",
              "not_found", "failed"}

MembersTypeOK ==
  /\ member \in [People -> MemberRow]
  /\ key \in [ApiKeys -> KeyRow]
  /\ holder \in [People -> Asks \cup {"nobody"}]
  /\ \A a \in Asks :
       /\ ask[a].pc \in AskPlaces /\ ask[a].role \in Roles
       /\ \/ ask[a].kind \in AskKinds /\ ask[a].target \in People /\ ask[a].seen \in MemberRow
          \/ ask[a].kind \in KeyKinds /\ ask[a].target \in ApiKeys /\ ask[a].seen \in KeyRow
  /\ trail \in Seq(Asks)

NoMember == [status |-> "none", role |-> JoinRole]

NewKey == [revoked |-> FALSE, used |-> FALSE]

(* Somebody is a member or is not. *)
FirstRows == {NoMember} \cup [status : {"invited", "active"}, role : Roles]

(* Requests about the row of a member, or of a key. *)
MemberAsks == [kind : AskKinds, target : People, role : Roles, pc : {"new"}, seen : {NoMember}]
KeyAsks == [kind : KeyKinds, target : ApiKeys, role : {JoinRole}, pc : {"new"}, seen : {NewKey}]

MembersInit(rows, asks) ==
  /\ member \in [People -> rows]
  /\ key = [k \in ApiKeys |-> NewKey]
  /\ holder = [p \in People |-> "nobody"]
  /\ ask \in [Asks -> asks]
  /\ trail = <<>>

Wants(a, kind, pc) == ask[a].kind = kind /\ ask[a].pc = pc

(* A request that ends without having written anything. *)
Refuse(a, pc) ==
  /\ ask' = [ask EXCEPT ![a].pc = pc]
  /\ UNCHANGED <<member, key, holder, trail>>

Reads(a, row) ==
  /\ ask' = [ask EXCEPT ![a].pc = "read", ![a].seen = row]
  /\ UNCHANGED <<member, key, holder, trail>>

-------------------------------------------------------------------------------
(* The reads, and what they decide *)

(* Only an invited or active member is in the way of an invitation.        *)
InviteMember(a) ==
  /\ Wants(a, "invite", "new")
  /\ LET row == member[ask[a].target] IN
       IF row.status \in {"invited", "active"} THEN Refuse(a, "conflict") ELSE Reads(a, row)

UpdateMemberRole(a) ==
  /\ Wants(a, "set_role", "new")
  /\ LET row == member[ask[a].target] IN
       IF row.status = "none" THEN Refuse(a, "not_found") ELSE Reads(a, row)

RevokeMember(a) ==
  /\ Wants(a, "revoke", "new")
  /\ LET row == member[ask[a].target] IN
       CASE row.status = "none" -> Refuse(a, "not_found")
         [] row.status = "revoked" -> Refuse(a, "conflict")
         [] OTHER -> Reads(a, row)

(* resolve_session_access: a member who is not revoked may sign in, and a  *)
(* newcomer where the organization lets its domain join.                   *)
ResolveSessionAccess(a) ==
  /\ Wants(a, "sign_in", "new")
  /\ LET row == member[ask[a].target] IN
       IF row.status = "revoked" \/ (row.status = "none" /\ ~AutoJoin)
       THEN Refuse(a, "forbidden")
       ELSE Reads(a, row)

-------------------------------------------------------------------------------
(* The writes *)

(* The ORM sends no UPDATE for a column that is given the value it has.    *)
ChangesNothing(a) ==
  \/ ask[a].kind = "sign_in" /\ ask[a].seen.status = "active"
  \/ ask[a].kind = "set_role" /\ ask[a].seen.role = ask[a].role

Inserts(a) == ask[a].kind = "invite" \/ ask[a].seen.status = "none"

(* Who has written the row once request a has flushed. *)
HolderAfterFlush(a) == a

Flush(a) ==
  /\ ask[a].pc = "read" /\ ask[a].kind \in AskKinds
  /\ LET p == ask[a].target IN
       IF ChangesNothing(a)
       THEN /\ ask' = [ask EXCEPT ![a].pc = "written"]
            /\ UNCHANGED <<member, key, holder, trail>>
       ELSE /\ holder[p] = "nobody"
            /\ IF Inserts(a) /\ member[p].status # "none"
               THEN Refuse(a, "failed")            \* UNIQUE (org_id, email)
               ELSE /\ holder' = [holder EXCEPT ![p] = HolderAfterFlush(a)]
                    /\ ask' = [ask EXCEPT ![a].pc = "written"]
                    /\ UNCHANGED <<member, key, trail>>

(* create_audit_event *)
AuditMember(a) ==
  /\ ask[a].pc = "written" /\ ask[a].kind \in Audited
  /\ ask' = [ask EXCEPT ![a].pc = "audited"]
  /\ trail' = Append(trail, a)
  /\ UNCHANGED <<member, key, holder>>

(* The sign-in of somebody whom it has not found. *)
Joins(a) == ask[a].kind = "sign_in" /\ ask[a].seen.status = "none"

(* A variant that writes every column as it was read.                      *)
WholeRow(a, row) ==
  CASE ask[a].kind = "invite" -> [status |-> "invited", role |-> ask[a].role]
    [] ask[a].kind = "set_role" -> [ask[a].seen EXCEPT !.role = ask[a].role]
    [] ask[a].kind = "revoke" -> [ask[a].seen EXCEPT !.status = "revoked"]
    [] Joins(a) -> [status |-> "active", role |-> JoinRole]
    [] OTHER -> [ask[a].seen EXCEPT !.status = "active"]

(* The row after the commit: only the columns that were changed.           *)
Updated(a, row) ==
  CASE ask[a].kind = "invite" -> [status |-> "invited", role |-> ask[a].role]
    [] ask[a].kind = "set_role" -> [row EXCEPT !.role = ask[a].role]
    [] ask[a].kind = "revoke" -> [row EXCEPT !.status = "revoked"]
    [] Joins(a) -> [status |-> "active", role |-> JoinRole]
    [] OTHER -> [row EXCEPT !.status = "active"]

Release(a) == [p \in People |-> IF holder[p] = a THEN "nobody" ELSE holder[p]]

(* The sign-in inserts its session, with the role it has read, in the same *)
(* transaction.                                                            *)
CommitMember(a) ==
  /\ \/ ask[a].pc = "audited"
     \/ Wants(a, "sign_in", "written")
  /\ member' = IF ChangesNothing(a) THEN member
               ELSE [member EXCEPT ![ask[a].target] = Updated(a, @)]
  /\ holder' = Release(a)
  /\ ask' = [ask EXCEPT ![a].pc = "committed"]
  /\ UNCHANGED <<key, trail>>

(* Anything that raises before the commit: its event will never count.     *)
RollBack(a) ==
  /\ ask[a].pc \in {"read", "written", "audited"}
  /\ ask' = [ask EXCEPT ![a].pc = "failed"]
  /\ holder' = Release(a)
  /\ UNCHANGED <<member, key, trail>>

-------------------------------------------------------------------------------
(* API keys *)

(* _lookup_org finds the keys that are not revoked. *)
LookUpKey(a) ==
  /\ Wants(a, "use_key", "new")
  /\ IF key[ask[a].target].revoked THEN Refuse(a, "forbidden")
                                    ELSE Reads(a, key[ask[a].target])

(* last_used_at, and nothing else. *)
Touch(a, row) == [row EXCEPT !.used = TRUE]

(* The request is let in by what the lookup has found. *)
Authenticate(a) ==
  /\ Wants(a, "use_key", "read")
  /\ key' = [key EXCEPT ![ask[a].target] = Touch(a, @)]
  /\ ask' = [ask EXCEPT ![a].pc = "committed"]
  /\ UNCHANGED <<member, holder, trail>>

FindKey(a) ==
  /\ Wants(a, "revoke_key", "new")
  /\ Reads(a, key[ask[a].target])

RevokeApiKey(a) ==
  /\ Wants(a, "revoke_key", "read")
  /\ key' = [key EXCEPT ![ask[a].target].revoked = TRUE]
  /\ ask' = [ask EXCEPT ![a].pc = "committed"]
  /\ UNCHANGED <<member, holder, trail>>

MembersNext ==
  \E a \in Asks :
    \/ InviteMember(a) \/ UpdateMemberRole(a) \/ RevokeMember(a)
    \/ ResolveSessionAccess(a)
    \/ Flush(a) \/ AuditMember(a) \/ CommitMember(a) \/ RollBack(a)
    \/ LookUpKey(a) \/ Authenticate(a) \/ FindKey(a) \/ RevokeApiKey(a)

MembersSpec == MembersInit(FirstRows, MemberAsks \cup KeyAsks) /\ [][MembersNext]_memberVars

-------------------------------------------------------------------------------
(* Properties *)

(* A committed audit event that gave a person a role.                      *)
GivesRole(a) ==
  /\ ask[a].pc = "committed"
  /\ \/ ask[a].kind = "invite"
     \/ ask[a].kind = "set_role" /\ ~ChangesNothing(a)

(* The audit trail tells the role of a member: whichever administrators    *)
(* change it at once, the row holds what the last event says that changed  *)
(* it.  (An event of a change that changes nothing may come after another's *)
(* and say an older role.)                                                 *)
TrailTellsRole ==
  \A i \in DOMAIN trail :
    LET p == ask[trail[i]].target IN
    /\ GivesRole(trail[i])
    /\ \A j \in i + 1..Len(trail) : ask[trail[j]].target = p => ~GivesRole(trail[j])
    => member[p].role = ask[trail[i]].role

(* A key that has been revoked stays so, whatever requests that have found *)
(* it before write to its row.                                             *)
RevokedKeysStay ==
  \A a \in Asks : Wants(a, "revoke_key", "committed") => key[ask[a].target].revoked

(* An administrator's change lasts, whatever else is written to its row at *)
(* the same time.                                                          *)
ChangesStick == TrailTellsRole /\ RevokedKeysStay

(* "Revokes the member's access" (routes/members.py): nobody but an        *)
(* administrator gives it back.                                            *)
RevokedStaysRevoked ==
  [][\A p \in People : member[p].status = "revoked" => member'[p].status = "revoked"]_memberVars
===============================================================================
