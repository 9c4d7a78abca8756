------------------------------ MODULE Membership ------------------------------
(***************************************************************************)
(* Who belongs to an organisation, and as what: the founder's ownership,   *)
(* invitations, join requests, and the administrators' member management.  *)
(*                                                                         *)
(* Accepting an invitation and deciding a request lock their own row.      *)
(* Nothing locks the membership: an administrator's edit saves every       *)
(* column of a row read earlier, and puts it back if it was removed since. *)
(* Beldium staff may do whatever an administrator may, so no action waits  *)
(* for an administrator to be there.                                       *)
(***************************************************************************)
EXTENDS Naturals

CONSTANTS
  Persons, Founder,
  Invitations,
  MaxEntries,   \* bound: membership rows ever created
  Absent        \* no row

VARIABLES
  member,       \* [Persons -> membership row or Absent]
  entries,      \* rows created so far
  edit,         \* [Persons -> the row an administrator's edit read, or Absent]
  invitation,   \* [Invitations -> row or Absent]
  joining       \* [Persons -> the user's last join request, or Absent]

memberVars == <<member, entries, edit, invitation, joining>>

-----------------------------------------------------------------------------
Role == {"owner", "admin", "member"}
Row == [entry : 1..MaxEntries, role : Role, active : BOOLEAN]
\* `accepted` counts the acceptances; `revoking` is a revocation that has
\* checked the invitation and not yet saved.
Invitation == [to : Persons, role : Role, lapsed : BOOLEAN, accepted : Nat,
               revoked : BOOLEAN, revoking : BOOLEAN]
JoinRequest == [asked : Role, status : {"pending", "approved", "rejected"}, granted : BOOLEAN]

ASSUME MembershipAssumption ==
  Founder \in Persons /\ MaxEntries \in Nat \ {0} /\ Absent \notin Row \cup Invitation \cup JoinRequest

Managed(u) == member[u] # Absent /\ member[u].role # "owner"

\* update_or_create: an existing row keeps its identity.
Enrol(u, role) ==
  IF member[u] # Absent
  THEN /\ member' = [member EXCEPT ![u].role = role, ![u].active = TRUE]
       /\ UNCHANGED entries
  ELSE /\ entries < MaxEntries /\ entries' = entries + 1
       /\ member' = [member EXCEPT ![u] = [entry |-> entries + 1, role |-> role, active |-> TRUE]]

-----------------------------------------------------------------------------
Invite(i, u, role) ==
  /\ invitation[i] = Absent /\ role # "owner"
  /\ invitation' = [invitation EXCEPT ![i] =
       [to |-> u, role |-> role, lapsed |-> FALSE, accepted |-> 0, revoked |-> FALSE, revoking |-> FALSE]]
  /\ UNCHANGED <<member, entries, edit, joining>>

Open(i) == invitation[i] # Absent /\ invitation[i].accepted = 0 /\ ~invitation[i].revoked

RevokeCheck(i) ==
  /\ Open(i) /\ ~invitation[i].revoking
  /\ invitation' = [invitation EXCEPT ![i].revoking = TRUE]
  /\ UNCHANGED <<member, entries, edit, joining>>

RevokeSave(i) ==
  /\ invitation[i] # Absent /\ invitation[i].revoking
  /\ invitation' = [invitation EXCEPT ![i].revoking = FALSE, ![i].revoked = TRUE]
  /\ UNCHANGED <<member, entries, edit, joining>>

InvitationLapses(i) ==
  /\ invitation[i] # Absent /\ ~invitation[i].lapsed
  /\ invitation' = [invitation EXCEPT ![i].lapsed = TRUE]
  /\ UNCHANGED <<member, entries, edit, joining>>

AcceptInvitation(i) ==
  /\ Open(i) /\ ~invitation[i].lapsed
  /\ Enrol(invitation[i].to, invitation[i].role)
  /\ invitation' = [invitation EXCEPT ![i].accepted = @ + 1]
  /\ UNCHANGED <<edit, joining>>

-----------------------------------------------------------------------------
AskToJoin(u, role) ==
  /\ role \notin {"owner", "admin"}
  /\ member[u] # Absent => ~member[u].active
  /\ joining[u] # Absent => joining[u].status # "pending"
  /\ joining' = [joining EXCEPT ![u] =
       [asked |-> role, status |-> "pending", granted |-> joining[u] # Absent /\ joining[u].granted]]
  /\ UNCHANGED <<member, entries, edit, invitation>>

Asking(u) == joining[u] # Absent /\ joining[u].status = "pending"

\* The administrator may grant another role than the one asked for; a grant
\* of ownership is refused, and the decision rolled back with it.
ApproveAsAny(u, role) ==
  /\ Asking(u) /\ Enrol(u, role)
  /\ joining' = [joining EXCEPT ![u].status = "approved", ![u].granted = TRUE]
  /\ UNCHANGED <<edit, invitation>>
ApproveJoin(u, role) ==
  /\ Asking(u) /\ role # "owner" /\ Enrol(u, role)
  /\ joining' = [joining EXCEPT ![u].status = "approved", ![u].granted = TRUE]
  /\ UNCHANGED <<edit, invitation>>

RejectJoin(u) ==
  /\ Asking(u)
  /\ joining' = [joining EXCEPT ![u].status = "rejected"]
  /\ UNCHANGED <<member, entries, edit, invitation>>

-----------------------------------------------------------------------------
EditRead(u) ==
  /\ Managed(u) /\ edit[u] = Absent
  /\ edit' = [edit EXCEPT ![u] = member[u]]
  /\ UNCHANGED <<member, entries, invitation, joining>>

\* A row removed since is inserted again; if the user has come back under a
\* new row the insertion breaks the unique constraint and nothing is saved.
EditSave(u, role) ==
  /\ edit[u] # Absent /\ role # "owner"
  /\ member' = IF member[u] = Absent \/ member[u].entry = edit[u].entry
               THEN [member EXCEPT ![u] = [edit[u] EXCEPT !.role = role]] ELSE member
  /\ edit' = [edit EXCEPT ![u] = Absent]
  /\ UNCHANGED <<entries, invitation, joining>>

SuspendMember(u) ==
  /\ Managed(u) /\ member' = [member EXCEPT ![u].active = FALSE]
  /\ UNCHANGED <<entries, edit, invitation, joining>>

\* An owner's row may be activated, though not suspended.
ActivateMember(u) ==
  /\ member[u] # Absent /\ member' = [member EXCEPT ![u].active = TRUE]
  /\ UNCHANGED <<entries, edit, invitation, joining>>

RemoveMember(u) ==
  /\ Managed(u) /\ member' = [member EXCEPT ![u] = Absent]
  /\ UNCHANGED <<entries, edit, invitation, joining>>

-----------------------------------------------------------------------------
\* Creating the organisation enrols its founder in the same transaction.
MembershipInit ==
  /\ member = [u \in Persons |-> IF u = Founder
                               THEN [entry |-> 1, role |-> "owner", active |-> TRUE] ELSE Absent]
  /\ entries = 1
  /\ edit = [u \in Persons |-> Absent] /\ joining = [u \in Persons |-> Absent]
  /\ invitation = [i \in Invitations |-> Absent]

MembershipNext ==
  \/ \E i \in Invitations :
       \/ \E u \in Persons, role \in Role : Invite(i, u, role)
       \/ RevokeCheck(i) \/ RevokeSave(i) \/ InvitationLapses(i) \/ AcceptInvitation(i)
  \/ \E u \in Persons :
       \/ \E role \in Role : AskToJoin(u, role) \/ ApproveJoin(u, role) \/ EditSave(u, role)
       \/ RejectJoin(u) \/ EditRead(u)
       \/ SuspendMember(u) \/ ActivateMember(u) \/ RemoveMember(u)

MembershipSpec == MembershipInit /\ [][MembershipNext]_memberVars

-----------------------------------------------------------------------------
MembershipTypeOK ==
  /\ member \in [Persons -> Row \cup {Absent}] /\ edit \in [Persons -> Row \cup {Absent}]
  /\ entries \in 0..MaxEntries
  /\ invitation \in [Invitations -> Invitation \cup {Absent}]
  /\ joining \in [Persons -> JoinRequest \cup {Absent}]

\* Whatever invitations, requests and overlapping edits run, stale rows put
\* back included: nobody but the founder ever owns the organisation, nobody is
\* in it who did not accept an invitation or have a request granted, and an
\* invitation lets its user in once.
MembershipHolds ==
  /\ \A u \in Persons \ {Founder} : member[u] # Absent =>
       /\ member[u].role # "owner"
       /\ \/ joining[u] # Absent /\ joining[u].granted
          \/ \E i \in Invitations : /\ invitation[i] # Absent
                                    /\ invitation[i].to = u /\ invitation[i].accepted = 1
  /\ \A i \in Invitations : invitation[i] # Absent => invitation[i].accepted <= 1
=============================================================================
