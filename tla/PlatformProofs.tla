---------------------------- MODULE PlatformProofs ----------------------------
(* What holds around the desks for any number of people, rows and requests:   *)
(* who belongs to an organisation, what a marketplace sells, what a partner   *)
(* submits, what samples, registers and decisions say, and what a start of    *)
(* the web process leaves alone.                                              *)
EXTENDS MCPlatform, Marketplace, VaultProofs, SumProofs, TLAPS

-----------------------------------------------------------------------------
(* Membership.  An edit saves a row read some steps before, so what is said of *)
(* members must hold of the rows being edited too, removed ones included.      *)

\* A person was let in: a request was granted or an invitation accepted.
LetIn(u) ==
  \/ joining[u] # Absent /\ joining[u].granted
  \/ \E i \in Invitations : invitation[i] # Absent /\ invitation[i].to = u /\ invitation[i].accepted = 1

\* A row of anybody but the founder, as it is stored or as an edit read it.
Earned(u, saved) == saved # Absent /\ u # Founder => saved.role # "owner" /\ LetIn(u)

MembershipIInv ==
  /\ MembershipTypeOK
  /\ \A u \in Persons : Earned(u, member[u]) /\ Earned(u, edit[u])
  /\ \A u \in Persons : edit[u] # Absent => edit[u].role # "owner"
  /\ \A i \in Invitations : invitation[i] # Absent =>
       invitation[i].accepted <= 1 /\ invitation[i].role # "owner"

LEMMA MembershipStart == MembershipInit => MembershipIInv
<1> SUFFICES ASSUME MembershipInit PROVE MembershipIInv
  OBVIOUS
<1>1. [entry |-> 1, role |-> "owner", active |-> TRUE] \in Row
  BY MembershipAssumption DEF Row, Role
<1>2. MembershipTypeOK
  BY <1>1, MembershipAssumption DEF MembershipInit, MembershipTypeOK
<1> QED BY <1>2 DEF MembershipInit, MembershipIInv, Earned

\* Whoever was let in stays so: grants and acceptances are never taken back.
LEMMA MembershipKept ==
  ASSUME MembershipIInv, MembershipTypeOK',
         \A u \in Persons : LetIn(u) => LetIn(u)',
         \A u \in Persons : \/ member'[u] \in {member[u], Absent}
                            \/ member'[u].role # "owner" /\ LetIn(u)'
                            \/ u = Founder
                            \/ member[u] # Absent /\ member'[u].role = member[u].role,
         \A u \in Persons : \/ edit'[u] \in {edit[u], Absent}
                            \/ edit'[u] = member[u] /\ member[u].role # "owner",
         \A i \in Invitations : invitation'[i] # Absent =>
           invitation'[i].accepted <= 1 /\ invitation'[i].role # "owner"
  PROVE  MembershipIInv'
<1>1. \A u \in Persons : Earned(u, member[u])' /\ Earned(u, edit[u])'
  BY DEF MembershipIInv, Earned
<1>2. \A u \in Persons : edit'[u] # Absent => edit'[u].role # "owner"
  BY DEF MembershipIInv
<1> QED BY <1>1, <1>2 DEF MembershipIInv

\* Enrolling somebody who is let in by the same step.
LEMMA Enrolled ==
  ASSUME MembershipIInv, NEW u \in Persons, NEW role \in Role, role # "owner", Enrol(u, role)
  PROVE  /\ member' \in [Persons -> Row \cup {Absent}] /\ entries' \in 0..MaxEntries
         /\ member'[u].role # "owner" /\ \A v \in Persons : v # u => member'[v] = member[v]
<1>1. /\ member \in [Persons -> Row \cup {Absent}] /\ entries \in 0..MaxEntries
      /\ MaxEntries \in Nat /\ Absent \notin Row
  BY MembershipAssumption DEF MembershipIInv, MembershipTypeOK
<1>2. CASE member[u] # Absent
  <2> DEFINE saved == [member[u] EXCEPT !.role = role, !.active = TRUE]
  <2>1. saved \in Row /\ saved.role = role
    BY <1>1, <1>2 DEF Row
  <2>2. member' = [member EXCEPT ![u] = saved] /\ entries' = entries
    BY <1>2 DEF Enrol
  <2> HIDE DEF saved
  <2> QED BY <1>1, <2>1, <2>2
<1>3. CASE member[u] = Absent
  <2> DEFINE saved == [entry |-> entries + 1, role |-> role, active |-> TRUE]
  <2>1. entries < MaxEntries /\ member' = [member EXCEPT ![u] = saved] /\ entries' = entries + 1
    BY <1>3 DEF Enrol
  <2>2. saved \in Row /\ saved.role = role
    BY <1>1, <2>1 DEF Row
  <2> HIDE DEF saved
  <2> QED BY <1>1, <2>1, <2>2
<1> QED BY <1>2, <1>3

\* The steps of an invitation that enrol nobody.
LEMMA InvitationStep ==
  ASSUME MembershipIInv, NEW i \in Invitations,
         \/ \E u \in Persons, role \in Role : Invite(i, u, role)
         \/ RevokeCheck(i) \/ RevokeSave(i) \/ InvitationLapses(i)
  PROVE  MembershipIInv'
<1>1. PICK saved \in Invitation :
        /\ invitation' = [invitation EXCEPT ![i] = saved] /\ saved.role # "owner" /\ saved.accepted <= 1
        /\ invitation[i] # Absent => saved.to = invitation[i].to /\ saved.accepted = invitation[i].accepted
        /\ UNCHANGED <<member, entries, edit, joining>>
  <2>1. ASSUME NEW u \in Persons, NEW role \in Role, Invite(i, u, role)
        PROVE  [to |-> u, role |-> role, lapsed |-> FALSE, accepted |-> 0, revoked |-> FALSE,
                revoking |-> FALSE] \in Invitation
    BY DEF Invitation
  <2>2. CASE \E u \in Persons, role \in Role : Invite(i, u, role)
    <3>1. PICK u \in Persons, role \in Role : Invite(i, u, role)
      BY <2>2
    <3> DEFINE saved == [to |-> u, role |-> role, lapsed |-> FALSE, accepted |-> 0, revoked |-> FALSE,
                       revoking |-> FALSE]
    <3>2. saved \in Invitation /\ saved.role = role /\ saved.accepted = 0
      BY <2>1, <3>1
    <3>3. /\ invitation[i] = Absent /\ role # "owner" /\ invitation' = [invitation EXCEPT ![i] = saved]
          /\ UNCHANGED <<member, entries, edit, joining>>
      BY <3>1 DEF Invite
    <3> HIDE DEF saved
    <3>4. saved.accepted <= 1
      BY <3>2
    <3> QED BY <3>2, <3>3, <3>4
  <2>3. CASE RevokeCheck(i) \/ RevokeSave(i) \/ InvitationLapses(i)
    <3>1. invitation[i] # Absent /\ invitation[i] \in Invitation /\ invitation[i].role # "owner"
          /\ invitation[i].accepted <= 1
      BY <2>3 DEF RevokeCheck, RevokeSave, InvitationLapses, Open, MembershipIInv, MembershipTypeOK
    <3>2. PICK lapsed, revoked, revoking \in BOOLEAN :
            /\ invitation' = [invitation EXCEPT ![i] =
                 [invitation[i] EXCEPT !.lapsed = lapsed, !.revoked = revoked, !.revoking = revoking]]
            /\ UNCHANGED <<member, entries, edit, joining>>
      <4>1. invitation[i] = [invitation[i] EXCEPT !.lapsed = invitation[i].lapsed,
                               !.revoked = invitation[i].revoked, !.revoking = invitation[i].revoking]
        BY <3>1 DEF Invitation
      <4>2. CASE RevokeCheck(i)
        <5>1. invitation' = [invitation EXCEPT ![i] =
                [invitation[i] EXCEPT !.lapsed = invitation[i].lapsed,
                   !.revoked = invitation[i].revoked, !.revoking = TRUE]]
          BY <3>1, <4>2 DEF RevokeCheck, Invitation
        <5> QED BY <3>1, <4>2, <5>1 DEF RevokeCheck, Invitation
      <4>3. CASE RevokeSave(i)
        <5>1. invitation' = [invitation EXCEPT ![i] =
                [invitation[i] EXCEPT !.lapsed = invitation[i].lapsed,
                   !.revoked = TRUE, !.revoking = FALSE]]
          BY <3>1, <4>3 DEF RevokeSave, Invitation
        <5> QED BY <3>1, <4>3, <5>1 DEF RevokeSave, Invitation
      <4>4. CASE InvitationLapses(i)
        <5>1. invitation' = [invitation EXCEPT ![i] =
                [invitation[i] EXCEPT !.lapsed = TRUE,
                   !.revoked = invitation[i].revoked, !.revoking = invitation[i].revoking]]
          BY <3>1, <4>4 DEF InvitationLapses, Invitation
        <5> QED BY <3>1, <4>4, <5>1 DEF InvitationLapses, Invitation
      <4> QED BY <2>3, <4>2, <4>3, <4>4
    <3> DEFINE saved == [invitation[i] EXCEPT !.lapsed = lapsed, !.revoked = revoked, !.revoking = revoking]
    <3>3. /\ saved \in Invitation /\ saved.role = invitation[i].role /\ saved.to = invitation[i].to
          /\ saved.accepted = invitation[i].accepted
      BY <3>1 DEF Invitation
    <3> QED BY <3>1, <3>2, <3>3
  <2> QED BY <2>2, <2>3
<1>2. MembershipTypeOK'
  BY <1>1 DEF MembershipIInv, MembershipTypeOK
<1>3. /\ invitation'[i] = saved /\ saved # Absent
      /\ \A j \in Invitations : j # i => invitation'[j] = invitation[j]
  BY <1>1, MembershipAssumption DEF MembershipIInv, MembershipTypeOK
<1>4. \A u \in Persons : LetIn(u) => LetIn(u)'
  BY <1>1, <1>3 DEF LetIn
<1> QED BY <1>1, <1>2, <1>3, <1>4, MembershipKept DEF MembershipIInv

LEMMA AcceptInvitationStep ==
  ASSUME MembershipIInv, NEW i \in Invitations, AcceptInvitation(i)
  PROVE  MembershipIInv'
<1>1. /\ invitation[i] # Absent /\ invitation[i] \in Invitation /\ invitation[i].accepted = 0
      /\ invitation[i].role # "owner" /\ Absent \notin Invitation
      /\ Enrol(invitation[i].to, invitation[i].role)
      /\ invitation' = [invitation EXCEPT ![i] = [invitation[i] EXCEPT !.accepted = @ + 1]]
      /\ UNCHANGED <<edit, joining>>
  BY MembershipAssumption DEF AcceptInvitation, Open, MembershipIInv, MembershipTypeOK
<1> PICK u \in Persons : u = invitation[i].to
  BY <1>1 DEF Invitation
<1> DEFINE saved == [invitation[i] EXCEPT !.accepted = @ + 1]
<1>2. /\ saved \in Invitation /\ saved.to = u /\ saved.accepted = 1 /\ saved.role = invitation[i].role
      /\ invitation[i].role \in Role /\ invitation' = [invitation EXCEPT ![i] = saved]
  BY <1>1 DEF Invitation
<1>3. /\ invitation'[i] = saved /\ saved # Absent
      /\ \A j \in Invitations : j # i => invitation'[j] = invitation[j]
  BY <1>1, <1>2 DEF MembershipIInv, MembershipTypeOK
<1> HIDE DEF saved
<1>4. LetIn(u)'
  BY <1>1, <1>2, <1>3 DEF LetIn
<1>8. ASSUME NEW v \in Persons, LetIn(v) PROVE LetIn(v)'
  <2>1. CASE joining[v] # Absent /\ joining[v].granted
    BY <1>1, <2>1 DEF LetIn
  <2>2. CASE \E j \in Invitations : invitation[j] # Absent /\ invitation[j].to = v
                                   /\ invitation[j].accepted = 1
    BY <1>1, <1>3, <2>2 DEF LetIn
  <2> QED BY <1>8, <2>1, <2>2 DEF LetIn
<1>5. /\ member' \in [Persons -> Row \cup {Absent}] /\ entries' \in 0..MaxEntries
      /\ member'[u].role # "owner" /\ \A v \in Persons : v # u => member'[v] = member[v]
  BY <1>1, <1>2, Enrolled
<1>6. MembershipTypeOK'
  BY <1>1, <1>2, <1>5 DEF MembershipIInv, MembershipTypeOK
<1>7. \A j \in Invitations : invitation'[j] # Absent =>
        invitation'[j].accepted <= 1 /\ invitation'[j].role # "owner"
  BY <1>1, <1>2, <1>3 DEF MembershipIInv
<1>9. \A v \in Persons : \/ member'[v] \in {member[v], Absent}
                         \/ member'[v].role # "owner" /\ LetIn(v)'
  <2> TAKE v \in Persons
  <2>1. CASE v = u
    BY <1>4, <1>5, <2>1
  <2>2. CASE v # u
    BY <1>5, <2>2
  <2> QED BY <2>1, <2>2
<1> QED BY <1>1, <1>6, <1>7, <1>8, <1>9, MembershipKept

\* Join requests: asked, granted or refused.
LEMMA JoiningStep ==
  ASSUME MembershipIInv, NEW u \in Persons,
         \/ RejectJoin(u) \/ \E role \in Role : AskToJoin(u, role) \/ ApproveJoin(u, role)
  PROVE  MembershipIInv'
<1>1. PICK saved \in JoinRequest :
        /\ joining' = [joining EXCEPT ![u] = saved] /\ UNCHANGED <<edit, invitation>>
        /\ joining[u] # Absent /\ joining[u].granted => saved.granted
        /\ \/ UNCHANGED <<member, entries>>
           \/ saved.granted /\ \E role \in Role : role # "owner" /\ Enrol(u, role)
  <2>1. joining[u] # Absent => joining[u] \in JoinRequest
    BY DEF MembershipIInv, MembershipTypeOK
  <2>2. ASSUME NEW role \in Role, AskToJoin(u, role)
        PROVE  [asked |-> role, status |-> "pending",
                granted |-> joining[u] # Absent /\ joining[u].granted] \in JoinRequest
    BY <2>1 DEF JoinRequest
  <2>3. CASE \E role \in Role : AskToJoin(u, role)
    <3>1. PICK role \in Role : AskToJoin(u, role)
      BY <2>3
    <3> QED BY <2>1, <2>2, <3>1 DEF AskToJoin
  <2>4. CASE RejectJoin(u)
    <3>1. /\ joining[u] # Absent /\ joining' = [joining EXCEPT ![u] = [joining[u] EXCEPT !.status = "rejected"]]
          /\ UNCHANGED <<member, entries, edit, invitation>>
      BY <2>4 DEF RejectJoin, Asking
    <3>2. /\ [joining[u] EXCEPT !.status = "rejected"] \in JoinRequest
          /\ [joining[u] EXCEPT !.status = "rejected"].granted = joining[u].granted
      BY <2>1, <3>1 DEF JoinRequest
    <3> QED BY <3>1, <3>2
  <2>5. ASSUME NEW role \in Role, ApproveJoin(u, role)
        PROVE  /\ [joining[u] EXCEPT !.status = "approved", !.granted = TRUE] \in JoinRequest
               /\ [joining[u] EXCEPT !.status = "approved", !.granted = TRUE].granted
               /\ joining' = [joining EXCEPT ![u] =
                    [joining[u] EXCEPT !.status = "approved", !.granted = TRUE]]
               /\ role # "owner" /\ Enrol(u, role) /\ UNCHANGED <<edit, invitation>>
    <3>1. joining[u] # Absent
      BY <2>5 DEF ApproveJoin, Asking
    <3> QED BY <2>1, <2>5, <3>1 DEF ApproveJoin, JoinRequest
  <2> QED BY <2>3, <2>4, <2>5
<1>2. joining'[u] = saved /\ saved # Absent /\ \A v \in Persons : v # u => joining'[v] = joining[v]
  BY <1>1, MembershipAssumption DEF MembershipIInv, MembershipTypeOK
<1>3. \A v \in Persons : LetIn(v) => LetIn(v)'
  BY <1>1, <1>2 DEF LetIn
<1>4. CASE UNCHANGED <<member, entries>>
  <2>1. MembershipTypeOK'
    BY <1>1, <1>4 DEF MembershipIInv, MembershipTypeOK
  <2> QED BY <1>1, <1>3, <1>4, <2>1, MembershipKept DEF MembershipIInv
<1>5. CASE saved.granted /\ \E role \in Role : role # "owner" /\ Enrol(u, role)
  <2>1. /\ member' \in [Persons -> Row \cup {Absent}] /\ entries' \in 0..MaxEntries
        /\ member'[u].role # "owner" /\ \A v \in Persons : v # u => member'[v] = member[v]
    BY <1>5, Enrolled
  <2>2. MembershipTypeOK'
    BY <1>1, <2>1 DEF MembershipIInv, MembershipTypeOK
  <2>3. LetIn(u)'
    BY <1>2, <1>5 DEF LetIn
  <2> QED BY <1>1, <1>3, <2>1, <2>2, <2>3, MembershipKept DEF MembershipIInv
<1> QED BY <1>1, <1>4, <1>5

\* The administrators' handlers; an edit may put a removed row back.
LEMMA ManagingStep ==
  ASSUME MembershipIInv, NEW u \in Persons,
         \/ \E role \in Role : EditSave(u, role)
         \/ EditRead(u) \/ SuspendMember(u) \/ ActivateMember(u) \/ RemoveMember(u)
  PROVE  MembershipIInv'
<1>1. /\ member[u] # Absent => member[u] \in Row
      /\ edit[u] # Absent => edit[u] \in Row /\ edit[u].role # "owner"
      /\ u # Founder /\ edit[u] # Absent => LetIn(u)
      /\ Absent \notin Row
      /\ member \in [Persons -> Row \cup {Absent}] /\ edit \in [Persons -> Row \cup {Absent}]
  BY MembershipAssumption DEF MembershipIInv, MembershipTypeOK, Earned
<1>2. UNCHANGED <<entries, invitation, joining>>
  BY DEF EditSave, EditRead, SuspendMember, ActivateMember, RemoveMember
<1>3. \A v \in Persons : LetIn(v)' <=> LetIn(v)
  BY <1>2 DEF LetIn
<1>4. ASSUME member'[u] \in Row \cup {Absent}, edit'[u] \in Row \cup {Absent},
             member' = [member EXCEPT ![u] = member'[u]], edit' = [edit EXCEPT ![u] = edit'[u]],
             \/ member'[u] \in {member[u], Absent} \/ (member'[u].role # "owner" /\ LetIn(u))
             \/ u = Founder \/ (member[u] # Absent /\ member'[u].role = member[u].role),
             edit'[u] \in {edit[u], Absent} \/ (edit'[u] = member[u] /\ member[u].role # "owner")
      PROVE  MembershipIInv'
  <2>1. MembershipTypeOK'
    BY <1>1, <1>2, <1>4 DEF MembershipIInv, MembershipTypeOK
  <2>2. \A v \in Persons : v # u => member'[v] = member[v] /\ edit'[v] = edit[v]
    BY <1>1, <1>4
  <2> QED BY <1>2, <1>3, <1>4, <2>1, <2>2, MembershipKept DEF MembershipIInv
<1>5. CASE EditRead(u)
  <2>1. /\ member[u] # Absent /\ member[u].role # "owner" /\ member' = member
        /\ edit' = [edit EXCEPT ![u] = member[u]]
    BY <1>5 DEF EditRead, Managed
  <2>2. /\ edit'[u] = member[u] /\ edit' = [edit EXCEPT ![u] = edit'[u]]
        /\ member' = [member EXCEPT ![u] = member'[u]]
    BY <1>1, <2>1
  <2> QED BY <1>1, <1>4, <2>1, <2>2
<1>6. ASSUME NEW role \in Role, EditSave(u, role) PROVE MembershipIInv'
  <2> DEFINE saved == [edit[u] EXCEPT !.role = role]
  <2>1. /\ edit[u] # Absent /\ role # "owner" /\ member' \in {member, [member EXCEPT ![u] = saved]}
        /\ edit' = [edit EXCEPT ![u] = Absent]
    BY <1>6 DEF EditSave
  <2>2. saved \in Row /\ saved.role = role
    BY <1>1, <2>1 DEF Row
  <2> HIDE DEF saved
  <2>3. /\ edit'[u] = Absent /\ edit' = [edit EXCEPT ![u] = edit'[u]]
        /\ member'[u] \in {member[u], saved} /\ member' = [member EXCEPT ![u] = member'[u]]
    BY <1>1, <2>1
  <2> QED BY <1>1, <1>4, <2>1, <2>2, <2>3
<1>7. ASSUME NEW active \in BOOLEAN, member[u] # Absent, edit' = edit,
             member' = [member EXCEPT ![u].active = active]
      PROVE  MembershipIInv'
  <2> DEFINE saved == [member[u] EXCEPT !.active = active]
  <2>1. saved \in Row /\ saved.role = member[u].role /\ member' = [member EXCEPT ![u] = saved]
    BY <1>1, <1>7 DEF Row
  <2> HIDE DEF saved
  <2>2. /\ member'[u] = saved /\ member' = [member EXCEPT ![u] = member'[u]]
        /\ edit'[u] = edit[u] /\ edit' = [edit EXCEPT ![u] = edit'[u]]
    BY <1>1, <1>7, <2>1
  <2> QED BY <1>1, <1>4, <1>7, <2>1, <2>2
<1>8. CASE RemoveMember(u)
  <2>1. member' = [member EXCEPT ![u] = Absent] /\ edit' = edit
    BY <1>8 DEF RemoveMember
  <2>2. /\ member'[u] = Absent /\ member' = [member EXCEPT ![u] = member'[u]]
        /\ edit'[u] = edit[u] /\ edit' = [edit EXCEPT ![u] = edit'[u]]
    BY <1>1, <2>1
  <2> QED BY <1>1, <1>4, <2>2
<1>9. CASE SuspendMember(u)
  BY <1>7, <1>9 DEF SuspendMember, Managed
<1>10. CASE ActivateMember(u)
  BY <1>7, <1>10 DEF ActivateMember
<1> QED BY <1>5, <1>6, <1>8, <1>9, <1>10

LEMMA MembershipInvariant == MembershipSpec => []MembershipIInv
<1>1. MembershipIInv /\ [MembershipNext]_memberVars => MembershipIInv'
  <2> SUFFICES ASSUME MembershipIInv, [MembershipNext]_memberVars PROVE MembershipIInv'
    OBVIOUS
  <2>1. CASE UNCHANGED memberVars
    BY <2>1 DEF memberVars, MembershipIInv, MembershipTypeOK, Earned, LetIn
  <2> QED
    BY <2>1, InvitationStep, AcceptInvitationStep, JoiningStep, ManagingStep DEF MembershipNext
<1> QED BY <1>1, MembershipStart, PTL DEF MembershipSpec

\* Whatever invitations, requests and overlapping edits run, nobody but the
\* founder owns the organisation, nobody is in it who was not let in, and an
\* invitation lets its user in once.
THEOREM MembersWereLetIn == MembershipSpec => [](MembershipTypeOK /\ MembershipHolds)
<1>1. MembershipIInv => MembershipTypeOK /\ MembershipHolds
  BY DEF MembershipIInv, MembershipHolds, Earned, LetIn
<1> QED BY <1>1, MembershipInvariant, PTL

-----------------------------------------------------------------------------
(* Marketplace.  A step may save what it read before the listing changed, or  *)
(* an order somebody else has written since: what it read has to have been    *)
(* reviewed, and a payment needs its event on record whenever it is applied.  *)

Bought(o) == \E e \in Events : event[e] # NoOrder /\ event[e].outcome = [order |-> o, status |-> "paid"]

MarketIInv ==
  /\ MarketTypeOK
  /\ listing.status = "active" => listing.revision \in published
  /\ \A o \in Orders : cart[o] # NoOrder => cart[o] \in published
  /\ \A o \in Orders : order[o] # NoOrder =>
       /\ order[o].revision \in published
       /\ order[o].payment = "paid" \/ order[o].fulfilled => Bought(o)
  /\ \A e \in Events : event[e] # NoOrder => event[e].applied = 1
  /\ \A e \in Events : delivery[e] # NoOrder =>
       event[e] = NoOrder /\ order[delivery[e].outcome.order] # NoOrder

LEMMA MarketStart == MarketInit => MarketIInv
<1> SUFFICES ASSUME MarketInit PROVE MarketIInv
  OBVIOUS
<1>1. 0 \in 0..MaxRevisions
  BY MarketAssumption
<1>2. listing \in Listing /\ listing.status = "draft"
  BY <1>1 DEF MarketInit, Listing, ListingStatus
<1> QED BY <1>2 DEF MarketInit, MarketIInv, MarketTypeOK, SellerStatus

\* A step of the listing: what is left to show once its new row is known.
LEMMA Offered ==
  ASSUME MarketIInv, NEW new \in Listing, listing' = new, UNCHANGED <<seller, orders>>,
         published' \in {published, published \cup {new.revision}},
         new.status = "active" => new.revision \in published'
  PROVE  MarketIInv'
<1>1. MarketTypeOK'
  BY DEF MarketIInv, MarketTypeOK, Listing, orders
<1>2. \A o \in Orders : Bought(o)' <=> Bought(o)
  BY DEF Bought, orders
<1> QED BY <1>1, <1>2 DEF MarketIInv, orders

LEMMA ListingSteps ==
  ASSUME MarketIInv, ListingStep
  PROVE  MarketIInv'
<1>1. /\ listing \in Listing /\ listing.revision \in 0..MaxRevisions /\ listing.status \in ListingStatus
      /\ listing.evidence \in [Evidence -> EvidenceStatus \cup {"missing"}]
      /\ listing.status = "active" => listing.revision \in published
      /\ MaxRevisions \in Nat
  BY MarketAssumption DEF MarketIInv, MarketTypeOK, Listing
<1>2. ASSUME NEW s \in SellerStatus, seller' = s, UNCHANGED <<listing, published, orders>>
      PROVE  MarketIInv'
  BY <1>2 DEF MarketIInv, MarketTypeOK, Bought, orders
<1>3. CASE SubmitSeller \/ \E verdict \in SellerStatus : DecideSeller(verdict)
  BY <1>2, <1>3 DEF SubmitSeller, DecideSeller, SellerStatus
<1>4. CASE EditListing
  <2> DEFINE new == [listing EXCEPT !.revision = listing.revision + 1, !.status = "draft"]
  <2>1. listing.revision + 1 \in 0..MaxRevisions /\ listing' = new /\ UNCHANGED <<seller, published, orders>>
    BY <1>1, <1>4 DEF EditListing
  <2>2. new \in Listing /\ new.status = "draft"
    BY <1>1, <2>1 DEF Listing, ListingStatus
  <2> HIDE DEF new
  <2> QED BY <2>1, <2>2, Offered
<1>5. ASSUME NEW e \in Evidence, UploadProductEvidence(e) PROVE MarketIInv'
  <2> DEFINE types == [listing.evidence EXCEPT ![e] = "pending"]
             new == [listing EXCEPT !.revision = listing.revision + 1, !.evidence = types, !.status = "draft"]
  <2>1. listing.revision + 1 \in 0..MaxRevisions /\ listing' = new /\ UNCHANGED <<seller, published, orders>>
    BY <1>1, <1>5 DEF UploadProductEvidence
  <2>2. types \in [Evidence -> EvidenceStatus \cup {"missing"}]
    BY <1>1 DEF EvidenceStatus
  <2> HIDE DEF types
  <2>3. new \in Listing /\ new.status = "draft"
    BY <1>1, <2>1, <2>2 DEF Listing, ListingStatus
  <2> HIDE DEF new
  <2> QED BY <2>1, <2>3, Offered
<1>6. ASSUME NEW e \in Evidence, NEW verdict \in EvidenceStatus,
             listing' = [listing EXCEPT !.evidence[e] = verdict], UNCHANGED <<seller, published, orders>>
      PROVE  MarketIInv'
  <2> DEFINE types == [listing.evidence EXCEPT ![e] = verdict]
             new == [listing EXCEPT !.evidence = types]
  <2>1. listing' = new
    BY <1>6
  <2>2. types \in [Evidence -> EvidenceStatus \cup {"missing"}]
    BY <1>1
  <2> HIDE DEF types
  <2>3. new \in Listing /\ new.status = listing.status /\ new.revision = listing.revision
    BY <1>1, <2>2 DEF Listing
  <2> HIDE DEF new
  <2> QED BY <1>1, <1>6, <2>1, <2>3, Offered
<1>7. ASSUME NEW e \in Evidence,
             EvidenceExpires(e) \/ \E verdict \in EvidenceStatus : ReviewEvidence(e, verdict)
      PROVE  MarketIInv'
  <2>1. "expired" \in EvidenceStatus
    BY DEF EvidenceStatus
  <2> QED BY <1>6, <1>7, <2>1 DEF EvidenceExpires, ReviewEvidence
<1>8. ASSUME NEW s \in ListingStatus, listing' = [listing EXCEPT !.status = s],
             UNCHANGED <<seller, orders>>, s = "active" => published' = published \cup {listing.revision},
             s # "active" => published' = published
      PROVE  MarketIInv'
  <2> DEFINE new == [listing EXCEPT !.status = s]
  <2>1. listing' = new /\ new \in Listing /\ new.status = s /\ new.revision = listing.revision
    BY <1>1, <1>8 DEF Listing
  <2> HIDE DEF new
  <2> QED BY <1>8, <2>1, Offered
<1>9. CASE SubmitListing
  <2>1. "pending_review" \in ListingStatus
    BY DEF ListingStatus
  <2> QED BY <1>8, <1>9, <2>1 DEF SubmitListing
<1>10. ASSUME NEW verdict \in ListingStatus, ReviewListing(verdict) PROVE MarketIInv'
  BY <1>8, <1>10 DEF ReviewListing
<1> QED BY <1>3, <1>4, <1>5, <1>7, <1>9, <1>10 DEF ListingStep

\* The steps of an order before and after its payment.
LEMMA PlacingStep ==
  ASSUME MarketIInv, NEW o \in Orders, OrderValidated(o) \/ PlaceOrder(o) \/ Fulfill(o) \/ Dispute(o)
  PROVE  MarketIInv'
<1>1. /\ MarketTypeOK /\ NoOrder \notin Nat \cup Order /\ MaxRevisions \in Nat
      /\ listing.status = "active" => listing.revision \in published
      /\ UNCHANGED <<goods, delivery, event>>
      /\ \A p \in Orders : Bought(p)' <=> Bought(p)
  BY MarketAssumption DEF MarketIInv, OrderValidated, PlaceOrder, Fulfill, Dispute, Bought
<1>2. CASE OrderValidated(o)
  <2>1. /\ cart' = [cart EXCEPT ![o] = listing.revision] /\ order' = order
        /\ listing.revision \in published /\ listing.revision \in 0..MaxRevisions
    BY <1>1, <1>2 DEF OrderValidated, MarketTypeOK, Listing
  <2> QED BY <1>1, <2>1 DEF MarketIInv, MarketTypeOK, goods
<1>3. ASSUME NEW new \in Order, order' = [order EXCEPT ![o] = new], new.revision \in published,
             cart' \in {cart, [cart EXCEPT ![o] = NoOrder]},
             new.payment = "paid" \/ new.fulfilled => Bought(o)
      PROVE  MarketIInv'
  <2>1. MarketTypeOK'
    BY <1>1, <1>3 DEF MarketTypeOK, goods
  <2> QED BY <1>1, <1>3, <2>1 DEF MarketIInv, MarketTypeOK, goods
<1>4. CASE PlaceOrder(o)
  <2> DEFINE new == [revision |-> cart[o], fulfilled |-> FALSE,
                     status |-> "pending_payment", payment |-> "pending"]
  <2>1. /\ cart[o] \in 0..MaxRevisions /\ cart[o] \in published /\ order' = [order EXCEPT ![o] = new]
        /\ cart' = [cart EXCEPT ![o] = NoOrder]
    BY <1>1, <1>4 DEF PlaceOrder, MarketIInv, MarketTypeOK
  <2>2. new \in Order /\ new.revision = cart[o] /\ new.payment = "pending" /\ ~new.fulfilled
    BY <2>1 DEF Order
  <2> HIDE DEF new
  <2> QED BY <1>3, <2>1, <2>2
<1>5. order[o] # NoOrder => order[o] \in Order
  BY <1>1 DEF MarketTypeOK
<1>6. CASE Fulfill(o)
  <2> DEFINE new == [order[o] EXCEPT !.status = "shipped", !.fulfilled = TRUE]
  <2>1. order[o] # NoOrder /\ order[o].payment = "paid" /\ order' = [order EXCEPT ![o] = new] /\ cart' = cart
    BY <1>6 DEF Fulfill
  <2>2. new \in Order /\ new.revision = order[o].revision
    BY <1>5, <2>1 DEF Order
  <2> HIDE DEF new
  <2> QED BY <1>3, <2>1, <2>2 DEF MarketIInv
<1>7. CASE Dispute(o)
  <2> DEFINE new == [order[o] EXCEPT !.status = "disputed"]
  <2>1. order[o] # NoOrder /\ order' = [order EXCEPT ![o] = new] /\ cart' = cart
    BY <1>7 DEF Dispute
  <2>2. /\ new \in Order /\ new.revision = order[o].revision /\ new.payment = order[o].payment
        /\ new.fulfilled = order[o].fulfilled
    BY <1>5, <2>1 DEF Order
  <2> HIDE DEF new
  <2> QED BY <1>3, <2>1, <2>2 DEF MarketIInv
<1> QED BY <1>2, <1>4, <1>6, <1>7

\* An event of the provider: read, lost or applied.
LEMMA PaymentStep ==
  ASSUME MarketIInv, NEW e \in Events,
         \/ \E outcome \in PaymentOutcome : Receive(e, outcome)
         \/ ApplyPayment(e) \/ ReceiveFails(e)
  PROVE  MarketIInv'
<1>1. /\ MarketTypeOK /\ NoOrder \notin Order \cup Delivery \cup Event /\ UNCHANGED <<goods, cart>>
  BY MarketAssumption DEF MarketIInv, Receive, ApplyPayment, ReceiveFails
<1>2. ASSUME NEW new \in Delivery \cup {NoOrder}, UNCHANGED <<order, event>>,
             delivery' = [delivery EXCEPT ![e] = new],
             new # NoOrder => event[e] = NoOrder /\ order[new.outcome.order] # NoOrder
      PROVE  MarketIInv'
  <2>1. MarketTypeOK'
    BY <1>1, <1>2 DEF MarketTypeOK, goods
  <2>2. \A o \in Orders : Bought(o)' <=> Bought(o)
    BY <1>2 DEF Bought
  <2> QED BY <1>1, <1>2, <2>1, <2>2 DEF MarketIInv, MarketTypeOK, goods
<1>3. ASSUME NEW outcome \in PaymentOutcome, Receive(e, outcome) PROVE MarketIInv'
  <2> DEFINE new == [outcome |-> outcome, found |-> order[outcome.order]]
  <2>1. /\ event[e] = NoOrder /\ order[outcome.order] # NoOrder /\ UNCHANGED <<order, event>>
        /\ delivery' = [delivery EXCEPT ![e] = new]
    BY <1>3 DEF Receive, Unrecorded
  <2>2. new \in Delivery /\ new.outcome = outcome
    <3>1. outcome.order \in Orders
      BY DEF PaymentOutcome
    <3>2. order[outcome.order] \in Order
      BY <1>1, <2>1, <3>1 DEF MarketTypeOK
    <3> QED BY <3>2 DEF Delivery
  <2> HIDE DEF new
  <2> QED BY <1>2, <2>1, <2>2
<1>4. CASE ReceiveFails(e)
  BY <1>2, <1>4 DEF ReceiveFails
<1>5. CASE ApplyPayment(e)
  <2> PICK o \in Orders, s \in PaymentStatus :
        delivery[e].outcome = [order |-> o, status |-> s] /\ delivery[e] \in Delivery
    <3>1. delivery[e] \in Delivery
      BY <1>1, <1>5 DEF ApplyPayment, MarketTypeOK
    <3>2. delivery[e].outcome \in PaymentOutcome
      BY <3>1 DEF Delivery
    <3> QED BY <3>1, <3>2 DEF PaymentOutcome
  <2> DEFINE status == IF s = "paid" THEN "paid" ELSE delivery[e].found.status
             new == [order[o] EXCEPT !.payment = s, !.status = status]
             record == [outcome |-> delivery[e].outcome, applied |-> 1]
  <2>1. /\ order[o] # NoOrder /\ order[o] \in Order /\ event[e] = NoOrder
        /\ order' = [order EXCEPT ![o] = new] /\ event' = [event EXCEPT ![e] = record]
        /\ delivery' = [delivery EXCEPT ![e] = NoOrder]
    <3>1. order[o] # NoOrder /\ order[o] \in Order /\ event[e] = NoOrder
      BY <1>1, <1>5 DEF ApplyPayment, MarketIInv, MarketTypeOK
    <3>2. /\ order' = [order EXCEPT ![o].payment = s, ![o].status = status]
          /\ event' = [event EXCEPT ![e] = record] /\ delivery' = [delivery EXCEPT ![e] = NoOrder]
      BY <1>5 DEF ApplyPayment
    <3> HIDE DEF status, record
    <3>3. order' = [order EXCEPT ![o] = new]
      BY <1>1, <3>2 DEF MarketTypeOK
    <3> QED BY <3>1, <3>2, <3>3
  <2>2. status \in {"pending_payment", "paid", "shipped", "disputed"}
    BY DEF Delivery, Order
  <2> HIDE DEF status
  <2>3. /\ new \in Order /\ new.revision = order[o].revision /\ new.payment = s
        /\ new.fulfilled = order[o].fulfilled
    BY <2>1, <2>2 DEF Order
  <2>4. /\ record \in Event /\ record.applied = 1 /\ record.outcome = [order |-> o, status |-> s]
    BY DEF Event, Delivery
  <2> HIDE DEF new, record
  <2>5. MarketTypeOK'
    BY <1>1, <2>1, <2>3, <2>4 DEF MarketTypeOK, goods
  <2>6. event'[e] = record /\ record # NoOrder /\ \A f \in Events : f # e => event'[f] = event[f]
    BY <1>1, <2>1, <2>4 DEF MarketTypeOK
  <2>7. ASSUME NEW p \in Orders, Bought(p) PROVE Bought(p)'
    BY <2>1, <2>6, <2>7 DEF Bought
  <2>8. s = "paid" => Bought(o)'
    BY <2>4, <2>6 DEF Bought
  <2>9. order'[o] = new /\ \A p \in Orders : p # o => order'[p] = order[p]
    BY <1>1, <2>1 DEF MarketTypeOK
  <2>10. \A p \in Orders : order'[p] # NoOrder =>
           /\ order'[p].revision \in published
           /\ order'[p].payment = "paid" \/ order'[p].fulfilled => Bought(p)'
    BY <2>1, <2>3, <2>7, <2>8, <2>9 DEF MarketIInv
  <2>11. \A f \in Events : delivery'[f] # NoOrder =>
           event'[f] = NoOrder /\ order'[delivery'[f].outcome.order] # NoOrder
    <3>1. \A p \in Orders : order[p] # NoOrder => order'[p] # NoOrder
      BY <1>1, <2>3, <2>9
    <3>2. \A f \in Events : delivery[f] # NoOrder => delivery[f].outcome.order \in Orders
      BY <1>1 DEF MarketTypeOK, Delivery, PaymentOutcome
    <3>3. delivery'[e] = NoOrder /\ \A f \in Events : f # e => delivery'[f] = delivery[f]
      BY <1>1, <2>1 DEF MarketTypeOK
    <3> QED BY <2>6, <3>1, <3>2, <3>3 DEF MarketIInv
  <2> QED BY <1>1, <2>4, <2>5, <2>6, <2>10, <2>11 DEF MarketIInv, goods
<1> QED BY <1>3, <1>4, <1>5

LEMMA MarketInvariant == MarketSpec => []MarketIInv
<1>1. MarketIInv /\ [MarketNext]_marketVars => MarketIInv'
  <2> SUFFICES ASSUME MarketIInv, [MarketNext]_marketVars PROVE MarketIInv'
    OBVIOUS
  <2>1. ASSUME UNCHANGED marketVars PROVE MarketIInv'
    BY <2>1 DEF marketVars, goods, orders, MarketIInv, MarketTypeOK, Bought
  <2>2. CASE OrderStep
    BY <2>1, <2>2, PlacingStep, PaymentStep DEF OrderStep, ReceiveUnmatched, ReceiveAgain
  <2> QED
    BY <2>1, <2>2, ListingSteps DEF MarketNext
<1> QED BY <1>1, MarketStart, PTL DEF MarketSpec

\* What is on sale is what a reviewer put there and every order was placed on
\* such a revision; an event on record was applied once, however often it is
\* repeated, and nothing is shipped that no recorded event ever paid for.
THEOREM SoldAsReviewedAndPaid == MarketSpec => []MarketHolds
<1>1. MarketIInv => MarketHolds
  BY DEF MarketIInv, MarketHolds, SoldAsReviewed, PaymentsOnce, Bought
<1> QED BY <1>1, MarketInvariant, PTL
-----------------------------------------------------------------------------
(* PartnerApplications.  A message of the past has to be compared with the    *)
(* uploads of today: once it can be sent, uploads are received only where      *)
(* staff made the application a draft again.                                  *)

Received == {k \in PartnerKeys : files[k].upload > 0}

PartnerIInv ==
  /\ PartnerTypeOK
  /\ Received \cap Foreign = {}
  /\ partner = "none" => mail = "none"
  /\ earlier \/ mail # "none" => RequiredKeys \subseteq Received
  /\ mail # "none" /\ partner = "draft" => reopened
  /\ mail = "sent" /\ ~reopened => listed = Uploaded

LEMMA PartnerStart == PartnerInit => PartnerIInv
<1> SUFFICES ASSUME PartnerInit PROVE PartnerIInv
  OBVIOUS
<1>1. PartnerTypeOK
  <2>1. 0 \in 0..MaxUploads /\ [upload |-> 0, stored |-> FALSE] \in StoredFile
    BY PartnerAssumption DEF StoredFile
  <2> QED BY <2>1 DEF PartnerInit, PartnerTypeOK, PartnerStatus
<1>2. Received = {}
  BY DEF PartnerInit, Received
<1> QED BY <1>1, <1>2 DEF PartnerInit, PartnerIInv

\* A file is replaced, or lost, in a draft only.
LEMMA UploadStep ==
  ASSUME PartnerIInv, NEW k \in PartnerKeys, UploadFile(k) \/ UploadFails(k)
  PROVE  PartnerIInv'
<1>1. PartnerTypeOK /\ partner = "draft" /\ (mail # "none" => reopened) /\ MaxUploads \in Nat
  BY PartnerAssumption DEF PartnerIInv, UploadFile, UploadFails, TokenDraft
<1>2. PICK kept \in StoredFile :
        /\ files' = [files EXCEPT ![k] = kept] /\ uploads' \in 0..MaxUploads
        /\ k \in Foreign => kept.upload = files[k].upload
        /\ files[k].upload > 0 => kept.upload > 0
        /\ UNCHANGED <<partner, token, told>>
  <2>1. CASE UploadFile(k)
    <3> DEFINE new == [upload |-> uploads + 1, stored |-> TRUE]
    <3>1. uploads + 1 \in 0..MaxUploads
      BY <1>1, <2>1 DEF UploadFile, PartnerTypeOK
    <3>2. new \in StoredFile /\ new.upload > 0
      BY <1>1, <3>1 DEF StoredFile, PartnerTypeOK
    <3>3. /\ files' = [files EXCEPT ![k] = new] /\ uploads' = uploads + 1 /\ k \notin Foreign
          /\ UNCHANGED <<partner, token, told>>
      BY <2>1, PartnerAssumption DEF UploadFile
    <3> HIDE DEF new
    <3> QED BY <3>1, <3>2, <3>3
  <2>2. CASE UploadFails(k)
    <3> DEFINE lost == [files[k] EXCEPT !.stored = FALSE]
    <3>1. /\ files' = [files EXCEPT ![k] = lost] /\ uploads' = uploads
          /\ UNCHANGED <<partner, token, told>>
      BY <2>2 DEF UploadFails
    <3>2. lost \in StoredFile /\ lost.upload = files[k].upload
      BY <1>1 DEF PartnerTypeOK, StoredFile
    <3> HIDE DEF lost
    <3> QED BY <1>1, <3>1, <3>2 DEF PartnerTypeOK
  <2> QED BY <2>1, <2>2
<1>3. PartnerTypeOK'
  BY <1>1, <1>2 DEF PartnerTypeOK, told
<1>4. Received' \cap Foreign = {} /\ Received \subseteq Received'
  BY <1>1, <1>2 DEF PartnerIInv, PartnerTypeOK, Received
<1> QED BY <1>1, <1>2, <1>3, <1>4 DEF PartnerIInv, told

LEMMA PartnerInvariant == PartnerSpec => []PartnerIInv
<1>1. PartnerIInv /\ [PartnerNext]_partnerVars => PartnerIInv'
  <2> SUFFICES ASSUME PartnerIInv, [PartnerNext]_partnerVars PROVE PartnerIInv'
    OBVIOUS
  <2> USE DEF PartnerIInv, PartnerTypeOK, PartnerStatus
  <2>1. CASE UNCHANGED partnerVars
    BY <2>1 DEF partnerVars, told, Received, Uploaded
  <2>2. CASE OpenApplication
    BY <2>2 DEF OpenApplication, told, Received, Uploaded
  <2>3. CASE TokenExpires
    BY <2>3 DEF TokenExpires, told, Received, Uploaded
  <2>4. CASE SubmitPartner
    BY <2>4 DEF SubmitPartner, TokenDraft, Received, Uploaded, PartnerKeys
  <2>5. CASE SendNotification
    <3>1. Uploaded \in [PartnerKeys -> 0..MaxUploads]
      BY DEF Uploaded, StoredFile
    <3> QED BY <2>5, <3>1 DEF SendNotification, Received, Uploaded
  <2>6. ASSUME NEW s \in PartnerStatus, StaffMove(s) PROVE PartnerIInv'
    BY <2>6 DEF StaffMove, told, Received, Uploaded
  <2> QED
    BY <2>1, <2>2, <2>3, <2>4, <2>5, <2>6, UploadStep DEF PartnerNext
<1> QED BY <1>1, PartnerStart, PTL DEF PartnerSpec

\* An application that was ever submitted has every required document and none
\* of another sector, whatever staff make of its status; until they make it a
\* draft again, they find the very uploads its message lists, however late the
\* applicant's retries or an earlier message arrive.
THEOREM WhatWasSubmittedStays == PartnerSpec => [](PartnerTypeOK /\ SubmittedIsFrozen)
<1>1. PartnerIInv => PartnerTypeOK /\ SubmittedIsFrozen
  <2> SUFFICES ASSUME PartnerIInv, mail # "none",
                      NEW k \in PartnerKeys
               PROVE  /\ k \in RequiredKeys => files[k].upload > 0
                      /\ k \in Foreign => files[k].upload = 0
    BY DEF PartnerIInv, SubmittedIsFrozen
  <2> QED BY DEF PartnerIInv, PartnerTypeOK, StoredFile, Received
<1> QED BY <1>1, PartnerInvariant, PTL
-----------------------------------------------------------------------------
(* QualitySamples.  A certificate needs a review that did not fail, and a     *)
(* failed one takes the sample to a status it never leaves.                   *)

SamplesIInv ==
  /\ SamplesTypeOK /\ ClosedIsDone
  /\ \A c, d \in Certificates : certificate[c] # Missing /\ certificate[d] # Missing => c = d
  /\ \A c \in Certificates : certificate[c] # Missing => sample.status = "certified"
  /\ sample.review = "fail" => sample.status = "rejected"

LEMMA SamplesStart == SamplesInit => SamplesIInv
<1> SUFFICES ASSUME SamplesInit PROVE SamplesIInv
  OBVIOUS
<1>1. sample \in Sample /\ sample.review = Missing /\ Missing # "fail"
  BY SamplesAssumption DEF SamplesInit, Sample, SampleStatus, ResultVerdict
<1> QED BY <1>1 DEF SamplesInit, SamplesIInv, SamplesTypeOK, NonConformityStatus, ClosedIsDone

\* A step of the sample: what is left to show once its new row is known.
LEMMA SampleMoves ==
  ASSUME SamplesIInv, NEW new \in Sample, sample' = new, UNCHANGED <<certificate, findingVars, professional>>,
         sample.status = "certified" => new.status = "certified",
         new.review = "fail" => new.status = "rejected"
  PROVE  SamplesIInv'
BY DEF SamplesIInv, SamplesTypeOK, ClosedIsDone, findingVars

LEMMA SampleSteps ==
  ASSUME SamplesIInv, SampleStep
  PROVE  SamplesIInv'
<1>1. /\ sample \in Sample /\ sample.status \in SampleStatus /\ Missing \notin ResultVerdict
      /\ sample.review = "fail" => sample.status = "rejected"
      /\ sample.results \in [Methods -> {"pass", "fail", "pending", Missing}]
  BY SamplesAssumption DEF SamplesIInv, SamplesTypeOK, Sample
<1>2. /\ SAMPLE_TRANSITIONS["rejected"] = {} /\ SAMPLE_TRANSITIONS["certified"] = {}
  BY DEF SAMPLE_TRANSITIONS
<1>3. ASSUME NEW s \in SampleStatus, SetSampleStatus(s) PROVE SamplesIInv'
  <2> DEFINE new == [sample EXCEPT !.status = s]
  <2>1. new \in Sample /\ new.status = s /\ new.review = sample.review
    BY <1>1 DEF Sample
  <2>2. sample' = new /\ UNCHANGED <<certificate, findingVars, professional>> /\ Moves(sample.status, s)
    BY <1>3 DEF SetSampleStatus
  <2> HIDE DEF new
  <2> QED BY <1>1, <1>2, <2>1, <2>2, SampleMoves DEF Moves
<1>4. ASSUME NEW receiver \in BOOLEAN, CustodyEvent(receiver) PROVE SamplesIInv'
  <2>1. PICK s \in SampleStatus :
          /\ sample' = [sample EXCEPT !.status = s] /\ UNCHANGED <<certificate, findingVars, professional>>
          /\ sample.status \in {"certified", "rejected"} => s = sample.status
    <3> DEFINE next == CASE sample.status = "registered" -> "in_transit"
                         [] sample.status = "in_transit" /\ receiver -> "received"
                         [] OTHER -> sample.status
    <3>1. next \in SampleStatus /\ (sample.status \in {"certified", "rejected"} => next = sample.status)
      BY <1>1 DEF SampleStatus
    <3>2. sample' = [sample EXCEPT !.status = next] /\ UNCHANGED <<certificate, findingVars, professional>>
      BY <1>4 DEF CustodyEvent
    <3> HIDE DEF next
    <3> QED BY <3>1, <3>2
  <2> DEFINE new == [sample EXCEPT !.status = s]
  <2>2. new \in Sample /\ new.status = s /\ new.review = sample.review
    BY <1>1 DEF Sample
  <2>3. sample' = new
    BY <2>1
  <2> HIDE DEF new
  <2> QED BY <1>1, <2>1, <2>2, <2>3, SampleMoves
<1>5. ASSUME NEW methods \in SUBSET Methods, RequestTests(methods) PROVE SamplesIInv'
  <2> DEFINE results == [x \in Methods |-> IF x \in methods THEN "pending" ELSE Missing]
             new == [sample EXCEPT !.status = "testing", !.results = results]
  <2>1. new \in Sample /\ new.status = "testing" /\ new.review = sample.review
    BY <1>1 DEF Sample, SampleStatus
  <2>2. /\ sample' = new /\ UNCHANGED <<certificate, findingVars, professional>>
        /\ sample.status \in {"in_transit", "received", "testing"}
    BY <1>5 DEF RequestTests
  <2> HIDE DEF new
  <2> QED BY <1>1, <2>1, <2>2, SampleMoves
<1>6. ASSUME NEW x \in Methods, NEW verdict \in {"pass", "fail", "pending"}, RecordResult(x, verdict)
      PROVE  SamplesIInv'
  <2> DEFINE results == [sample.results EXCEPT ![x] = verdict]
             new == [sample EXCEPT !.results = results]
  <2>1. results \in [Methods -> {"pass", "fail", "pending", Missing}]
    BY <1>1
  <2>2. sample' = new /\ UNCHANGED <<certificate, findingVars, professional>>
    BY <1>6 DEF RecordResult
  <2> HIDE DEF results
  <2>3. new \in Sample /\ new.status = sample.status /\ new.review = sample.review
    BY <1>1, <2>1 DEF Sample
  <2> HIDE DEF new
  <2> QED BY <1>1, <2>2, <2>3, SampleMoves
<1>7. ASSUME NEW verdict \in ResultVerdict, ReviewSample(verdict) PROVE SamplesIInv'
  <2>1. PICK target \in {"rejected", "reviewed"} :
          /\ verdict = "fail" <=> target = "rejected"
          /\ Moves(sample.status, target)
          /\ sample' = [sample EXCEPT !.review = verdict, !.status = target]
          /\ UNCHANGED <<certificate, findingVars, professional>>
    BY <1>7 DEF ReviewSample
  <2> DEFINE new == [sample EXCEPT !.review = verdict, !.status = target]
  <2>2. new \in Sample /\ new.status = target /\ new.review = verdict
    BY <1>1 DEF Sample, SampleStatus
  <2>3. sample' = new
    BY <2>1
  <2> HIDE DEF new
  <2> QED BY <1>1, <1>2, <2>1, <2>2, <2>3, SampleMoves DEF Moves
<1>8. ASSUME NEW c \in Certificates, IssueCertificate(c) PROVE SamplesIInv'
  <2> DEFINE new == [sample EXCEPT !.status = "certified"]
  <2>1. new \in Sample /\ new.status = "certified" /\ new.review = sample.review
    BY <1>1 DEF Sample, SampleStatus
  <2>2. /\ sample.status = "reviewed" /\ certificate' = [certificate EXCEPT ![c] = "active"]
        /\ sample' = new /\ UNCHANGED <<findingVars, professional>>
    BY <1>8 DEF IssueCertificate
  <2> HIDE DEF new
  <2> QED BY <1>1, <2>1, <2>2 DEF SamplesIInv, SamplesTypeOK, ClosedIsDone, findingVars
<1>9. ASSUME NEW c \in Certificates, RevokeCertificate(c) PROVE SamplesIInv'
  BY <1>9, SamplesAssumption DEF RevokeCertificate, SamplesIInv, SamplesTypeOK, ClosedIsDone, findingVars
<1> QED BY <1>3, <1>4, <1>5, <1>6, <1>7, <1>8, <1>9 DEF SampleStep

LEMMA SamplesInvariant == SamplesSpec => []SamplesIInv
<1>1. SamplesIInv /\ [SamplesNext]_recordVars => SamplesIInv'
  <2> SUFFICES ASSUME SamplesIInv, [SamplesNext]_recordVars PROVE SamplesIInv'
    OBVIOUS
  <2> USE SamplesAssumption
      DEF SamplesIInv, SamplesTypeOK, ClosedIsDone, sampleVars, NonConformityStatus, CAPAStatus
  <2>1. CASE UNCHANGED recordVars
    BY <2>1 DEF recordVars, findingVars
  <2>2. ASSUME NEW a \in CorrectiveActions, AddCapa(a) PROVE SamplesIInv'
    BY <2>2 DEF AddCapa
  <2>3. ASSUME NEW a \in CorrectiveActions, AdvanceCapa(a) PROVE SamplesIInv'
    BY <2>3 DEF AdvanceCapa
  <2>4. CASE CloseNonConformity
    BY <2>4 DEF CloseNonConformity
  <2>5. ASSUME NEW p \in Professionals,
               \/ ProfessionalCheck(p) \/ ProfessionalCreate(p)
               \/ \E s \in ProfessionalStatus : ProfessionalDecide(p, s)
        PROVE  SamplesIInv'
    BY <2>5 DEF ProfessionalCheck, ProfessionalCreate, ProfessionalDecide, ProfessionalStatus, findingVars
  <2> QED BY <2>1, <2>2, <2>3, <2>4, <2>5, SampleSteps DEF SamplesNext
<1> QED BY <1>1, SamplesStart, PTL DEF SamplesSpec

\* Whatever order parties set statuses, repeat reviews and test requests in: a
\* sample gets one certificate in its life, and not after a failed review; a
\* closed non-conformity has no corrective action left to do, and stays so.
THEOREM CertifiedOnce == SamplesSpec => [](SamplesTypeOK /\ RecordsHold)
<1>1. SamplesIInv => SamplesTypeOK /\ RecordsHold
  <2> SUFFICES ASSUME SamplesIInv PROVE CertificatesHold
    BY DEF SamplesIInv, RecordsHold
  <2> DEFINE issued == {c \in Certificates : certificate[c] # Missing}
  <2>1. issued # {} => sample.status = "certified" /\ sample.review # "fail"
    BY DEF SamplesIInv
  <2>2. Cardinality(issued) <= 1
    <3>1. CASE issued = {}
      BY <3>1, FS_EmptySet
    <3>2. CASE issued # {}
      <4>1. PICK c : issued = {c}
        BY <3>2 DEF SamplesIInv
      <4> QED BY <4>1, FS_Singleton
    <3> QED BY <3>1, <3>2
  <2> QED BY <2>1, <2>2 DEF CertificatesHold
<1> QED BY <1>1, SamplesInvariant, PTL
-----------------------------------------------------------------------------
(* ProcessingDesk.  Whatever writes the application finds it undecided.       *)

DecisionIInv ==
  /\ stage \in ApplicationStage /\ decision \in ApplicationDecision
  /\ decision # "none" <=> stage = "decided"
  /\ ApprovedOnSections

\* The handlers that touch neither the application nor its sections.
LEMMA ApplicationUntouched ==
  ASSUME DecisionIInv, UNCHANGED appVars
  PROVE  DecisionIInv' /\ (stage = "decided" => stage' = "decided" /\ decision' = decision)
BY DEF DecisionIInv, appVars, ApprovedOnSections, AllSectionsVerified

LEMMA DecisionStep ==
  ASSUME DecisionIInv, [ProcessingNext]_processingVars
  PROVE  DecisionIInv' /\ (stage = "decided" => stage' = "decided" /\ decision' = decision)
<1>1. CASE UNCHANGED appVars
  BY <1>1, ApplicationUntouched
<1>2. ASSUME NEW k \in SectionKeys, SaveSection(k) \/ \E v \in Verdicts : ReviewSection(k, v)
      PROVE  DecisionIInv' /\ stage # "decided"
  BY <1>2 DEF SaveSection, ReviewSection, Editable, EDITABLE_STAGES, Undecided, DecisionIInv,
              ApplicationStage, ApplicationDecision, ApprovedOnSections
<1>3. ASSUME NameProcessor \/ Submit \/ RequestInspection \/ RequireInformation
      PROVE  DecisionIInv' /\ stage # "decided"
  BY <1>3 DEF NameProcessor, Submit, RequestInspection, RequireInformation, Editable, EDITABLE_STAGES, Undecided,
              DecisionIInv, ApplicationStage, ApplicationDecision, ApprovedOnSections
<1>4. ASSUME NEW d \in ApplicationDecision \ {"none"}, Decide(d)
      PROVE  DecisionIInv' /\ stage # "decided"
  BY <1>4 DEF Decide, Undecided, MayApprove, AllSectionsVerified, DecisionIInv, ApplicationStage,
              ApplicationDecision, ApprovedOnSections
<1>5. CASE UNCHANGED processingVars
  BY <1>1, <1>5 DEF processingVars
<1>6. CASE \E d \in Documents : AddFile(d) \/ ReadDocument(d) \/ \E v \in DocumentVerdict : JudgeDocument(d, v)
  BY <1>1, <1>6 DEF AddFile, ReadDocument, JudgeDocument
<1>7. CASE \E c \in Causes : AddCause(c) \/ WithdrawCause(c)
  BY <1>1, <1>7 DEF AddCause, WithdrawCause
<1>8. CASE EntryBegin \/ EntrySave
  BY <1>1, <1>8 DEF EntryBegin, EntrySave
<1>9. CASE \E f \in Findings : \/ RaiseFinding(f) \/ AmendBegin(f) \/ AmendSave(f) \/ CloseFinding(f)
                               \/ EvidenceBegin(f) \/ EvidenceSave(f)
  BY <1>1, <1>9 DEF RaiseFinding, AmendBegin, AmendSave, CloseFinding, EvidenceBegin, EvidenceSave
<1> QED
  BY <1>2, <1>3, <1>4, <1>5, <1>6, <1>7, <1>8, <1>9 DEF ProcessingNext

\* A decision is final: nothing the applicant or the desk does afterwards
\* reopens it or touches the sections an approval rests on, and no outcome is
\* recorded before it.
THEOREM DecisionsAreFinal == ProcessingSpec => DecidedForGood
<1>1. ProcessingInit => DecisionIInv
  BY DEF ProcessingInit, DecisionIInv, ApplicationStage, ApplicationDecision, ApprovedOnSections
<1>2. DecisionIInv => ApprovedOnSections /\ (decision # "none" <=> stage = "decided")
  BY DEF DecisionIInv
<1>3. DecisionIInv /\ [ProcessingNext]_processingVars =>
        DecisionIInv' /\ [stage = "decided" => stage' = "decided" /\ decision' = decision]_processingVars
  BY DecisionStep
<1> QED BY <1>1, <1>2, <1>3, PTL DEF ProcessingSpec, DecidedForGood

\* The weights of the causes add up to a score within a hundred.
LEMMA RiskScoreType ==
  ASSUME causes \subseteq Causes
  PROVE  RiskScore \in 0..100
<1>1. IsFiniteSet(causes) /\ \A c \in causes : WeightOf[c] \in Nat
  BY ProcessingAssumption, FS_Subset
<1>2. SumFunctionOnSet(WeightOf, causes) \in Nat
  BY <1>1, SumNat
<1> QED BY <1>2 DEF RiskScore

\* What the register entry and the desk's hand on it keep.
LEMMA EntryTypes ==
  ASSUME processor \in Processor, entry \in Processor \cup {Unread}, causes \subseteq Causes,
         [ProcessingNext]_processingVars
  PROVE  processor' \in Processor /\ entry' \in Processor \cup {Unread} /\ causes' \subseteq Causes
<1>1. CASE UNCHANGED <<causes, processor, entry>>
  BY <1>1
<1>2. ASSUME NEW d \in ApplicationDecision \ {"none"}, Decide(d)
      PROVE  processor' \in Processor /\ entry' = entry /\ causes' = causes
  <2>1. 100 - RiskScore \in 0..100
    BY RiskScoreType
  <2>2. DECISION_STATUS[d] \in ProcessorStatus
    BY DEF ApplicationDecision, DECISION_STATUS, ProcessorStatus
  <2> QED BY <1>2, <2>1, <2>2 DEF Decide, Processor
<1>3. CASE EntryBegin
  BY <1>3 DEF EntryBegin
<1>4. ASSUME EntrySave
      PROVE  processor' \in Processor /\ entry' = Unread /\ causes' = causes
  <2>1. entry \in Processor
    BY <1>4 DEF EntrySave
  <2>2. /\ entry.status \in ProcessorStatus /\ entry.score \in 0..100
        /\ DeskStatuses \subseteq ProcessorStatus /\ DeskScores \subseteq 0..100
    BY <2>1, ProcessingAssumption DEF Processor
  <2>3. PICK s \in ProcessorStatus, n \in 0..100 : processor' = [status |-> s, score |-> n]
    BY <1>4, <2>2 DEF EntrySave
  <2> QED BY <1>4, <2>3 DEF EntrySave, Processor
<1>5. CASE \E c \in Causes : AddCause(c) \/ WithdrawCause(c)
  BY <1>5 DEF AddCause, WithdrawCause
<1>6. CASE UNCHANGED processingVars
  BY <1>1, <1>6 DEF processingVars
<1>7. CASE \E k \in SectionKeys : SaveSection(k) \/ \E v \in Verdicts : ReviewSection(k, v)
  BY <1>1, <1>7 DEF SaveSection, ReviewSection
<1>8. CASE NameProcessor \/ Submit \/ RequestInspection \/ RequireInformation
  BY <1>1, <1>8 DEF NameProcessor, Submit, RequestInspection, RequireInformation
<1>9. CASE \E d \in Documents : AddFile(d) \/ ReadDocument(d) \/ \E v \in DocumentVerdict : JudgeDocument(d, v)
  BY <1>1, <1>9 DEF AddFile, ReadDocument, JudgeDocument
<1>10. CASE \E f \in Findings : \/ RaiseFinding(f) \/ AmendBegin(f) \/ AmendSave(f) \/ CloseFinding(f)
                                \/ EvidenceBegin(f) \/ EvidenceSave(f)
  BY <1>1, <1>10 DEF RaiseFinding, AmendBegin, AmendSave, CloseFinding, EvidenceBegin, EvidenceSave
<1> QED
  BY <1>2, <1>3, <1>4, <1>5, <1>6, <1>7, <1>8, <1>9, <1>10 DEF ProcessingNext

LEMMA ProcessingTypeStep ==
  ASSUME ProcessingTypeOK, [ProcessingNext]_processingVars
  PROVE  ProcessingTypeOK'
<1> USE DEF ProcessingTypeOK, appVars, docVars, findVars
<1>1. processor' \in Processor /\ entry' \in Processor \cup {Unread} /\ causes' \subseteq Causes
  BY EntryTypes
<1> HIDE DEF ProcessingTypeOK
<1>2. CASE UNCHANGED processingVars
  BY <1>2 DEF processingVars, ProcessingTypeOK
<1>3. ASSUME NEW k \in SectionKeys, SaveSection(k) \/ \E v \in Verdicts : ReviewSection(k, v)
      PROVE  ProcessingTypeOK'
  <2>1. CASE SaveSection(k)
    BY <2>1 DEF SaveSection, ProcessingTypeOK, ReviewState
  <2>2. ASSUME NEW v \in Verdicts, ReviewSection(k, v) PROVE ProcessingTypeOK'
    <3>1. stage' \in ApplicationStage
      BY <2>2 DEF ReviewSection, ProcessingTypeOK, ApplicationStage
    <3>2. review' \in [SectionKeys -> ReviewState]
      BY <2>2, ProcessingAssumption DEF ReviewSection, ProcessingTypeOK
    <3> QED BY <2>2, <3>1, <3>2 DEF ReviewSection, ProcessingTypeOK
  <2> QED BY <1>3, <2>1, <2>2
<1>4. CASE NameProcessor \/ Submit \/ RequestInspection \/ RequireInformation
  <2>1. CASE NameProcessor
    BY <2>1 DEF NameProcessor, ProcessingTypeOK
  <2>2. CASE Submit \/ RequestInspection \/ RequireInformation
    BY <2>2 DEF Submit, RequestInspection, RequireInformation, ProcessingTypeOK, ApplicationStage
  <2> QED BY <1>4, <2>1, <2>2
<1>5. ASSUME NEW d \in Documents, AddFile(d) \/ ReadDocument(d) \/ \E v \in DocumentVerdict : JudgeDocument(d, v)
      PROVE  ProcessingTypeOK'
  <2>1. CASE AddFile(d)
    BY <2>1 DEF AddFile, ProcessingTypeOK, DocumentVerdict
  <2>2. CASE ReadDocument(d)
    BY <2>2 DEF ReadDocument, ProcessingTypeOK
  <2>3. ASSUME NEW v \in DocumentVerdict, JudgeDocument(d, v) PROVE ProcessingTypeOK'
    <3>1. reading[d] \in Nat
      BY <2>3 DEF JudgeDocument, ProcessingTypeOK
    <3> QED BY <2>3, <3>1 DEF JudgeDocument, ProcessingTypeOK
  <2> QED BY <1>5, <2>1, <2>2, <2>3
<1>6. CASE \E c \in Causes : AddCause(c) \/ WithdrawCause(c)
  BY <1>1, <1>6 DEF AddCause, WithdrawCause, ProcessingTypeOK
<1>7. ASSUME NEW d \in ApplicationDecision \ {"none"}, Decide(d)
      PROVE  ProcessingTypeOK'
  BY <1>1, <1>7 DEF Decide, ProcessingTypeOK, ApplicationStage
<1>8. CASE EntryBegin \/ EntrySave
  BY <1>1, <1>8 DEF EntryBegin, EntrySave, ProcessingTypeOK
<1>9. ASSUME NEW f \in Findings, RaiseFinding(f) \/ CloseFinding(f)
      PROVE  ProcessingTypeOK'
  BY <1>9 DEF RaiseFinding, CloseFinding, ProcessingTypeOK, NCStatus
<1>10. ASSUME NEW f \in Findings, AmendBegin(f) \/ AmendSave(f)
       PROVE  ProcessingTypeOK'
  <2>1. CASE AmendBegin(f)
    BY <2>1 DEF AmendBegin, ProcessingTypeOK, NCStatus
  <2>2. CASE AmendSave(f)
    BY <2>2 DEF AmendSave, ProcessingTypeOK, NCStatus
  <2> QED BY <1>10, <2>1, <2>2
<1>11. ASSUME NEW f \in Findings, EvidenceBegin(f) \/ EvidenceSave(f)
       PROVE  ProcessingTypeOK'
  BY <1>11 DEF EvidenceBegin, EvidenceSave, ProcessingTypeOK, NCStatus
<1> QED
  BY <1>2, <1>3, <1>4, <1>5, <1>6, <1>7, <1>8, <1>9, <1>10, <1>11 DEF ProcessingNext

THEOREM ProcessingTypeCorrect == ProcessingSpec => []ProcessingTypeOK
<1>1. ProcessingInit => ProcessingTypeOK
  BY DEF ProcessingInit, ProcessingTypeOK, ApplicationStage, ApplicationDecision, ReviewState,
         DocumentVerdict, NCStatus, Processor, ProcessorStatus
<1> QED BY <1>1, ProcessingTypeStep, PTL DEF ProcessingSpec

\* The entry in the register of processors changes under the desk's hand or by
\* a decision on the application that names it, which always gives it the
\* decision's status and what the risk causes leave of a hundred.
THEOREM DecisionsStand == ProcessingSpec => DecisionHolds
<1> DEFINE Written == /\ processor'.status = DECISION_STATUS[decision']
                      /\ processor'.score + RiskScore = 100
<1>1. ProcessingTypeOK /\ [ProcessingNext]_processingVars =>
        [/\ processor' # processor => EntrySave \/ (Deciding /\ named)
         /\ Deciding /\ named => Written]_processingVars
  <2> SUFFICES ASSUME ProcessingTypeOK, ProcessingNext
               PROVE  /\ processor' # processor => EntrySave \/ (Deciding /\ named)
                      /\ Deciding /\ named => Written
    BY DEF processingVars
  <2>1. ASSUME NEW d \in ApplicationDecision \ {"none"}, Decide(d)
        PROVE  Deciding /\ (IF named THEN Written ELSE processor' = processor)
    <3>1. RiskScore \in 0..100
      BY RiskScoreType DEF ProcessingTypeOK
    <3> QED BY <2>1, <3>1 DEF Decide, Deciding
  <2>2. \/ \E d \in ApplicationDecision \ {"none"} : Decide(d)
        \/ EntrySave
        \/ processor' = processor /\ ~Deciding
    <3>1. \/ \E d \in ApplicationDecision \ {"none"} : Decide(d)
          \/ EntrySave
          \/ processor' = processor
      BY DEF ProcessingNext, SaveSection, ReviewSection, AddFile, ReadDocument, JudgeDocument,
             AddCause, WithdrawCause, NameProcessor, Submit, RequestInspection, RequireInformation,
             EntryBegin, RaiseFinding, AmendBegin, AmendSave, CloseFinding, EvidenceBegin, EvidenceSave
    <3>2. (\E d \in ApplicationDecision \ {"none"} : Decide(d)) \/ ~Deciding
      BY DEF ProcessingNext, SaveSection, ReviewSection, AddFile, ReadDocument, JudgeDocument,
             AddCause, WithdrawCause, NameProcessor, Submit, RequestInspection, RequireInformation,
             EntryBegin, EntrySave, RaiseFinding, AmendBegin, AmendSave, CloseFinding, EvidenceBegin,
             EvidenceSave, Deciding, Undecided, appVars
    <3> QED BY <3>1, <3>2
  <2>3. EntrySave => ~Deciding
    BY DEF EntrySave, Deciding, Undecided, appVars
  <2> QED BY <2>1, <2>2, <2>3
<1> QED
  BY <1>1, ProcessingTypeCorrect, DecisionsAreFinal, PTL
     DEF ProcessingSpec, DecisionHolds, RegisterFollows
-----------------------------------------------------------------------------
(* Registers.  An editor saves a row it has read, so a row that was read must *)
(* be as sound as the one on record, however old it is.                       *)

\* A row of the register followed that may be put on record.
Sound(r) ==
  r # Nothing =>
    /\ r \in Rows[register] /\ Valid(r)
    /\ register = "alert" => (r.status = "resolved" <=> r.resolved)

RegistersIInv ==
  /\ RegistersTypeOK
  /\ Sound(row) /\ \A e \in Editors : Sound(held[e])

LEMMA RowsOfRegisters ==
  /\ Names = {"run", "period", "alert", "visit", "certificate", "ledger", "case", "item", "incident",
              "sample", "reading", "licence", "review", "profile", "report", "facility"}
  /\ Rows["run"] = Run /\ Rows["period"] = Period /\ Rows["certificate"] = Validity
  /\ Rows["alert"] = Alert /\ Rows["visit"] = Visit /\ Rows["ledger"] = Ledger /\ Rows["case"] = Case
  /\ \A n \in Names \ {"run", "period", "certificate", "alert", "visit", "ledger", "case"} : Rows[n] = Item
<1>1. Names = {"run", "period", "alert", "visit", "certificate", "ledger", "case", "item", "incident",
               "sample", "reading", "licence", "review", "profile", "report", "facility"}
  BY DEF Names, Rows
<1>2. /\ Rows["run"] = Run /\ Rows["period"] = Period /\ Rows["certificate"] = Validity
      /\ Rows["alert"] = Alert /\ Rows["visit"] = Visit /\ Rows["ledger"] = Ledger /\ Rows["case"] = Case
  BY DEF Rows
<1>3. /\ Rows["item"] = Item /\ Rows["incident"] = Item /\ Rows["sample"] = Item
      /\ Rows["reading"] = Item /\ Rows["licence"] = Item /\ Rows["review"] = Item
      /\ Rows["profile"] = Item /\ Rows["report"] = Item /\ Rows["facility"] = Item
  BY DEF Rows
<1> QED BY <1>1, <1>2, <1>3

\* An editor's save is sound when the row it puts on record is.
LEMMA Saved ==
  ASSUME RegistersIInv, NEW e \in Editors, NEW new,
         row' = new, held' = [held EXCEPT ![e] = Nothing], register' = register,
         dated' \in BOOLEAN, new \in Rows[register], Valid(new),
         register = "alert" => (new.status = "resolved" <=> new.resolved)
  PROVE  RegistersIInv'
<1>1. RegistersTypeOK'
  BY DEF RegistersIInv, RegistersTypeOK
<1>2. Sound(row)'
  BY DEF Sound, Valid
<1>3. ASSUME NEW f \in Editors PROVE Sound(held[f])'
  BY DEF RegistersIInv, RegistersTypeOK, Sound, Valid
<1> QED BY <1>1, <1>2, <1>3 DEF RegistersIInv

LEMMA FileStep ==
  ASSUME RegistersIInv, NEW e \in Editors, File(e)
  PROVE  RegistersIInv'
<1>1. register \in Names /\ row' \in FiledRows /\ dated' \in BOOLEAN /\ UNCHANGED <<register, held>>
  BY DEF RegistersIInv, RegistersTypeOK, File, Dates
<1>2. row' \in Rows[register] /\ Sound(row)'
  <2>1. CASE register \in {"run", "period", "certificate"}
    BY <1>1, <2>1 DEF FiledRows, Sound, Valid
  <2>2. CASE register = "alert"
    <3> DEFINE new == [status |-> "open", acknowledged |-> FALSE, resolved |-> FALSE]
    <3>1. new \in Alert /\ new.status # "resolved" /\ ~new.resolved
      BY DEF Alert
    <3>2. row' = new /\ Rows[register] = Alert
      BY <1>1, <2>2, RowsOfRegisters DEF FiledRows
    <3> HIDE DEF new
    <3> QED BY <1>1, <2>2, <3>1, <3>2 DEF Sound, Valid
  <2>3. CASE register = "visit"
    BY <1>1, <2>3, RowsOfRegisters DEF FiledRows, Sound, Valid, Visit
  <2>4. CASE register \in {"ledger", "case"}
    BY <1>1, <2>4 DEF FiledRows, Sound, Valid
  <2>5. CASE register \notin {"run", "period", "certificate", "alert", "visit", "ledger", "case"}
    <3>1. row' = "reported" /\ Rows[register] = Item
      BY <1>1, <2>5, RowsOfRegisters DEF FiledRows
    <3> QED BY <1>1, <2>5, <3>1 DEF Sound, Valid, Item
  <2> QED BY <2>1, <2>2, <2>3, <2>4, <2>5
<1> QED BY <1>1, <1>2 DEF RegistersIInv, RegistersTypeOK, Sound, Valid

\* A PATCH of masses or dates: columns sent over the columns read.
LEMMA AmendStep ==
  ASSUME RegistersIInv, NEW e \in Editors, Amend(e)
  PROVE  RegistersIInv'
<1>1. /\ held[e] # Nothing /\ register \in {"run", "period", "certificate"} /\ row' \in Rows[register]
      /\ Valid(row') /\ held' = [held EXCEPT ![e] = Nothing] /\ UNCHANGED <<register, dated>>
      /\ dated \in BOOLEAN
  BY DEF RegistersIInv, RegistersTypeOK, Amend, Done
<1>2. Valid(row') /\ register # "alert"
  BY <1>1
<1> QED BY <1>1, <1>2, Saved

\* An alert's row as read, with its status and stamp changed together or not at all.
LEMMA AlertStep ==
  ASSUME RegistersIInv, NEW e \in Editors, AmendAlert(e) \/ Acknowledge(e) \/ ResolveAlert(e)
  PROVE  RegistersIInv'
<1>1. /\ register = "alert" /\ held[e] # Nothing /\ held' = [held EXCEPT ![e] = Nothing]
      /\ UNCHANGED <<register, dated>> /\ dated \in BOOLEAN
      /\ held[e] \in Alert /\ (held[e].status = "resolved" <=> held[e].resolved)
      /\ Rows[register] = Alert
  BY RowsOfRegisters
     DEF RegistersIInv, RegistersTypeOK, AmendAlert, Acknowledge, ResolveAlert, Done, Sound
<1>2. row' \in Alert /\ (row'.status = "resolved" <=> row'.resolved)
  <2>1. CASE AmendAlert(e)
    BY <1>1, <2>1 DEF AmendAlert
  <2>2. CASE Acknowledge(e)
    <3> DEFINE new == [held[e] EXCEPT !.status = "acknowledged", !.acknowledged = TRUE]
    <3>1. row' = new /\ held[e].status # "resolved"
      BY <2>2 DEF Acknowledge
    <3>2. new \in Alert /\ new.status = "acknowledged" /\ new.resolved = held[e].resolved
      BY <1>1 DEF Alert
    <3> HIDE DEF new
    <3> QED BY <1>1, <3>1, <3>2
  <2>3. CASE ResolveAlert(e)
    <3> DEFINE new == [held[e] EXCEPT !.status = "resolved", !.resolved = TRUE]
    <3>1. row' = new
      BY <2>3 DEF ResolveAlert
    <3>2. new \in Alert /\ new.status = "resolved" /\ new.resolved
      BY <1>1 DEF Alert
    <3> HIDE DEF new
    <3> QED BY <3>1, <3>2
  <2> QED BY <2>1, <2>2, <2>3
<1>3. Valid(row')
  BY <1>1 DEF Valid
<1> QED BY <1>1, <1>2, <1>3, Saved

\* A visit may get a completion time, and may be moved.
LEMMA VisitStep ==
  ASSUME RegistersIInv, NEW e \in Editors, AmendVisit(e)
  PROVE  RegistersIInv'
<1>1. /\ register = "visit" /\ held[e] # Nothing /\ held' = [held EXCEPT ![e] = Nothing]
      /\ register' = register /\ held[e] \in Visit /\ Rows[register] = Visit
  BY RowsOfRegisters DEF RegistersIInv, RegistersTypeOK, AmendVisit, Done, Sound
<1>2. PICK s \in {"requested", "scheduled", "completed"}, placed \in BOOLEAN :
        row' = [status |-> s, stamped |-> held[e].stamped \/ s = "completed", placed |-> placed]
  BY DEF AmendVisit
<1>3. row' \in Visit
  BY <1>1, <1>2 DEF Visit
<1>4. dated' \in BOOLEAN
  BY <1>3 DEF AmendVisit, Dates, Visit
<1>5. Valid(row')
  BY <1>1 DEF Valid
<1> QED BY <1>1, <1>3, <1>4, <1>5, Saved

\* Registers whose rows say nothing of each other.
LEMMA FreeStep ==
  ASSUME RegistersIInv, NEW e \in Editors, AmendItem(e) \/ SettleRow(e)
  PROVE  RegistersIInv'
<1>1. /\ held' = [held EXCEPT ![e] = Nothing] /\ UNCHANGED <<register, dated>> /\ dated \in BOOLEAN
      /\ register \in Names
  BY DEF RegistersIInv, RegistersTypeOK, AmendItem, SettleRow, Done
<1>2. /\ row' \in Rows[register]
      /\ register \notin {"run", "period", "certificate", "alert", "visit"}
  <2>1. CASE SettleRow(e)
    BY <2>1 DEF SettleRow
  <2>2. CASE AmendItem(e)
    <3>1. register \notin LockedNames \cup {"run", "period", "alert", "visit"} /\ row' = "amended"
      BY <2>2 DEF AmendItem
    <3> QED BY <1>1, <3>1, RowsOfRegisters DEF Item, LockedNames
  <2> QED BY <2>1, <2>2
<1>3. Valid(row')
  BY <1>2 DEF Valid
<1> QED BY <1>1, <1>2, <1>3, Saved

LEMMA RegistersInvariant == RegistersSpec => []RegistersIInv
<1>1. RegistersInit => RegistersIInv
  BY DEF RegistersInit, RegistersIInv, RegistersTypeOK, Sound
<1>2. RegistersIInv /\ [RegistersNext]_registerVars => RegistersIInv'
  <2> SUFFICES ASSUME RegistersIInv, [RegistersNext]_registerVars PROVE RegistersIInv'
    OBVIOUS
  <2>1. CASE UNCHANGED registerVars
    BY <2>1 DEF registerVars, RegistersIInv, RegistersTypeOK, Sound, Valid
  <2>2. ASSUME NEW e \in Editors, Begin(e) PROVE RegistersIInv'
    BY <2>2 DEF Begin, RegistersIInv, RegistersTypeOK, Sound, Valid
  <2>3. ASSUME NEW e \in Editors, Remove(e) PROVE RegistersIInv'
    BY <2>3 DEF Remove, RegistersIInv, RegistersTypeOK, Sound, Valid
  <2>4. ASSUME NEW e \in Editors, AmendPlace(e) PROVE RegistersIInv'
    BY <2>4 DEF AmendPlace, RegistersIInv, RegistersTypeOK, Sound, Valid
  <2> QED
    BY <2>1, <2>2, <2>3, <2>4, FileStep, AmendStep, AlertStep, VisitStep, FreeStep DEF RegistersNext
<1> QED BY <1>1, <1>2, PTL DEF RegistersSpec

\* However two requests on a row overlap: a run never yields more than went in,
\* no run, period or certificate ends before it starts, and an alert is resolved
\* exactly when it carries a resolution time.
THEOREM RowsStaySound == RegistersSpec => [](RegistersTypeOK /\ RegistersAgree)
<1>1. RegistersIInv => RegistersTypeOK /\ RegistersAgree
  BY DEF RegistersIInv, RegistersAgree, RowsAddUp, StampsAgree, Sound
<1> QED BY <1>1, RegistersInvariant, PTL

-----------------------------------------------------------------------------
(* Dashboards: what is read from the registers at one moment.                  *)

LEMMA DashTypeStep ==
  ASSUME DashTypeOK, [DashNext]_dashVars
  PROVE  DashTypeOK'
<1>0. /\ today \in Day /\ Days \in Nat /\ NoDay \notin Day \cup RaisedRow
      /\ DueDays \subseteq Day /\ VisitDays \subseteq Day /\ EntryRows \subseteq EntryRow
  BY DashboardAssumption DEF DashTypeOK
<1>1. CASE DayPasses
  <2>1. today + 1 \in Day
    BY <1>0, <1>1 DEF DayPasses, Day
  <2> QED BY <1>1, <2>1 DEF DayPasses, DashTypeOK
<1>2. ASSUME NEW a \in Approvals, ApproveToday(a) \/ SaveApproved(a)
      PROVE  DashTypeOK'
  BY <1>0, <1>2 DEF ApproveToday, SaveApproved, DashTypeOK
<1>3. ASSUME NEW f \in Raised, CloseRaised(f)
      PROVE  DashTypeOK'
  <2>1. raisedOn[f] \in RaisedRow
    BY <1>3 DEF CloseRaised, DashTypeOK
  <2>2. [raisedOn[f] EXCEPT !.open = FALSE] \in RaisedRow
    BY <2>1 DEF RaisedRow
  <2> QED BY <1>3, <2>2 DEF CloseRaised, DashTypeOK
<1>4. ASSUME NEW f \in Raised, NEW due \in DueDays, RaiseToday(f, due)
      PROVE  DashTypeOK'
  <2>1. [on |-> today, due |-> due, open |-> TRUE] \in RaisedRow
    BY <1>0 DEF RaisedRow
  <2> QED BY <1>4, <2>1 DEF RaiseToday, DashTypeOK
<1>5. ASSUME NEW i \in Visits, NEW d \in VisitDays, ScheduleVisit(i, d)
      PROVE  DashTypeOK'
  BY <1>0, <1>5 DEF ScheduleVisit, DashTypeOK
<1>6. ASSUME NEW e \in Entries, NEW line \in EntryRows, SaveEntry(e, line)
      PROVE  DashTypeOK'
  BY <1>0, <1>6 DEF SaveEntry, DashTypeOK
<1>7. CASE UNCHANGED dashVars
  BY <1>7 DEF dashVars, DashTypeOK
<1> QED BY <1>1, <1>2, <1>3, <1>4, <1>5, <1>6, <1>7 DEF DashNext

LEMMA DashTypeCorrect == DashSpec => []DashTypeOK
<1>1. DashInit => DashTypeOK
  BY DashboardAssumption DEF DashInit, DashTypeOK
<1> QED BY <1>1, DashTypeStep, PTL DEF DashSpec

\* The calendar: months do not go back and skip none.
LEMMA MonthsGrow ==
  ASSUME NEW d \in Day, NEW e \in Day, d <= e
  PROVE  Month[d] <= Month[e]
<1> USE DashboardAssumption DEF Day
<1> DEFINE F == {f \in Day : d <= f /\ ~(Month[d] <= Month[f])}
<1>1. SUFFICES ASSUME F # {} PROVE FALSE
  OBVIOUS
<1>2. F \subseteq Nat
  OBVIOUS
<1> DEFINE f == Min(F)
<1>3. f \in F /\ \A x \in F : f <= x
  <2> HIDE DEF F
  <2> QED BY <1>1, <1>2, MinIsThere
<1>4. f \in Day /\ d <= f /\ ~(Month[d] <= Month[f])
  BY <1>3
<1> HIDE DEF f
<1>5. Month[d] \in Nat /\ Month[f] \in Nat /\ f # d
  BY <1>4
<1>6. f - 1 \in Day /\ d <= f - 1 /\ f - 1 < f
  BY <1>4, <1>5
<1>7. f - 1 \notin F
  <2> HIDE DEF F
  <2> QED BY <1>3, <1>4, <1>6
<1>8. Month[d] <= Month[f - 1] /\ Month[f - 1] \in Nat
  BY <1>6, <1>7
<1>9. Month[f] \in {Month[f - 1], Month[f - 1] + 1}
  BY <1>4, <1>6
<1> QED BY <1>4, <1>5, <1>8, <1>9

LEMMA MonthReached ==
  ASSUME NEW d \in Day, NEW n \in 0..Month[d]
  PROVE  \E e \in Day : Month[e] = n
<1> USE DashboardAssumption DEF Day
<1> DEFINE F == {f \in Day : n <= Month[f]}
           f == Min(F)
<1>1. F \subseteq Nat /\ d \in F
  BY Month[d] \in Nat
<1>2. f \in F /\ \A x \in F : f <= x
  <2> HIDE DEF F
  <2> QED BY <1>1, MinIsThere
<1>3. f \in Day /\ n <= Month[f]
  BY <1>2
<1> HIDE DEF f
<1>0. Month[f] \in Nat /\ Month[d] \in Nat
  BY <1>3
<1>9. n \in Nat
  BY <1>0
<1>4. CASE f = 0
  BY <1>0, <1>3, <1>4, <1>9
<1>5. CASE f # 0
  <2>1. f - 1 \in Day /\ f - 1 < f
    BY <1>3, <1>5
  <2>2. f - 1 \notin F
    <3> HIDE DEF F
    <3> QED BY <1>2, <1>3, <2>1
  <2>3. ~(n <= Month[f - 1]) /\ Month[f - 1] \in Nat
    BY <2>1, <2>2
  <2>4. Month[f] \in {Month[f - 1], Month[f - 1] + 1}
    BY <1>3, <1>5
  <2> QED BY <1>0, <1>3, <1>9, <2>3, <2>4
<1> QED BY <1>4, <1>5

\* The first day of month n, and the day before it.
FirstIn(n) == Min({e \in Day : Month[e] = n})

LEMMA FirstDayOfMonth ==
  ASSUME NEW d \in Day, NEW n \in 0..Month[d]
  PROVE  /\ FirstIn(n) \in Day /\ Month[FirstIn(n)] = n
         /\ \A e \in Day : Month[e] = n => FirstIn(n) <= e
         /\ n # 0 => DayBefore(FirstIn(n)) \in Day /\ Month[DayBefore(FirstIn(n))] = n - 1
<1> USE DashboardAssumption DEF Day
<1> DEFINE F == {e \in Day : Month[e] = n}
           f == FirstIn(n)
<1>1. F \subseteq Nat /\ F # {} /\ n \in Nat
  <2>1. \E e \in Day : Month[e] = n
    BY MonthReached
  <2>2. n \in Nat
    <3>1. Month[d] \in Nat
      OBVIOUS
    <3> QED BY <3>1
  <2>3. F # {}
    BY <2>1
  <2>4. F \subseteq Nat
    OBVIOUS
  <2> QED BY <2>2, <2>3, <2>4
<1>2. f \in F /\ \A e \in F : f <= e
  BY <1>1, MinIsThere DEF FirstIn
<1>3. f \in Day /\ Month[f] = n /\ \A e \in Day : Month[e] = n => f <= e
  BY <1>2
<1> HIDE DEF f
<1>4. ASSUME n # 0 PROVE f - 1 \in Day /\ Month[f - 1] = n - 1
  <2>1. f # 0 /\ f - 1 \in Day /\ ~(f <= f - 1)
    BY <1>3, <1>4
  <2>2. Month[f] \in {Month[f - 1], Month[f - 1] + 1} /\ Month[f - 1] \in Nat
    BY <1>3, <2>1
  <2>3. Month[f - 1] # n
    BY <1>3, <2>1
  <2> QED BY <1>1, <1>3, <2>1, <2>2, <2>3
<1> QED BY <1>3, <1>4 DEF DayBefore, f

\* From today back, the recent months are the last ones.
Back(n) == FirstIn(Month[today] - n)

LEMMA RecentFirsts ==
  ASSUME today \in Day, Month[today] + 1 >= KPI_TREND_MONTHS
  PROVE  RecentMonths = {Back(n) : n \in 0..(KPI_TREND_MONTHS - 1)}
<1> DEFINE N == 0..(KPI_TREND_MONTHS - 1)
           Unfold(f) == [n \in N |-> FirstOfMonth[IF n = 0 THEN today ELSE DayBefore(f[n - 1])]]
           w == [n \in N |-> Back(n)]
           g == CHOOSE f : f = Unfold(f)
<1>0. KPI_TREND_MONTHS \in Nat \ {0} /\ Month[today] \in Nat
  BY DashboardAssumption
<1>1. RecentMonths = {g[n] : n \in DOMAIN g}
  BY DEF RecentMonths
<1>2. ASSUME NEW n \in N
      PROVE  Back(n) = FirstOfMonth[IF n = 0 THEN today ELSE DayBefore(Back(n - 1))]
  <2>1. CASE n = 0
    BY <1>0, <2>1 DEF FirstOfMonth, Back, FirstIn
  <2>2. CASE n # 0
    <3>1. n - 1 \in N /\ n \in Nat /\ n <= Month[today]
      BY <1>0, <2>2
    <3>2. PICK m \in 0..Month[today] : m = Month[today] - (n - 1)
      BY <1>0, <2>2, <3>1
    <3>3. m # 0 /\ m - 1 = Month[today] - n
      BY <1>0, <3>1, <3>2
    <3>4. DayBefore(FirstIn(m)) \in Day /\ Month[DayBefore(FirstIn(m))] = m - 1
      BY <3>3, FirstDayOfMonth
    <3> QED BY <2>2, <3>2, <3>3, <3>4 DEF FirstOfMonth, Back, FirstIn
  <2> QED BY <2>1, <2>2
<1>3. w = Unfold(w)
  <2>1. ASSUME NEW n \in N
        PROVE  w[n] = FirstOfMonth[IF n = 0 THEN today ELSE DayBefore(w[n - 1])]
    <3>1. n # 0 => n - 1 \in N
      BY <1>0
    <3> HIDE DEF N
    <3>2. w[n] = Back(n) /\ (n # 0 => w[n - 1] = Back(n - 1))
      BY <3>1
    <3> HIDE DEF w
    <3> QED BY <1>2, <3>2
  <2> HIDE DEF N
  <2>2. Unfold(w) = [n \in N |-> w[n]]
    <3> HIDE DEF w
    <3> QED BY <2>1
  <2> QED BY <2>2
<1>4. g = Unfold(g)
  <2> HIDE DEF w, Unfold
  <2> QED BY <1>3
<1> HIDE DEF g
<1>5. ASSUME NEW n \in N PROVE g[n] = Back(n)
  <2> DEFINE F == {m \in N : g[m] # Back(m)}
             m == Min(F)
  <2>1. SUFFICES ASSUME F # {} PROVE FALSE
    OBVIOUS
  <2>2. F \subseteq Nat
    BY <1>0
  <2>3. m \in F /\ \A x \in F : m <= x
    <3> HIDE DEF F
    <3> QED BY <2>1, <2>2, MinIsThere
  <2>4. m \in N /\ g[m] # Back(m) /\ m \in Nat
    BY <1>0, <2>3
  <2>5. g[m] = FirstOfMonth[IF m = 0 THEN today ELSE DayBefore(g[m - 1])]
    <3> HIDE DEF m, N
    <3> QED BY <1>4, <2>4
  <2> HIDE DEF m
  <2>6. m # 0 => g[m - 1] = Back(m - 1)
    <3>1. m # 0 => m - 1 \in N /\ ~(m <= m - 1)
      BY <1>0, <2>4
    <3>2. m # 0 => m - 1 \notin F
      <4> HIDE DEF F
      <4> QED BY <2>3, <3>1
    <3> QED BY <3>1, <3>2
  <2> HIDE DEF N
  <2> QED BY <1>2, <2>4, <2>5, <2>6
<1>6. DOMAIN g = N
  <2> HIDE DEF N
  <2> QED BY <1>4
<1> HIDE DEF N
<1>7. {g[n] : n \in DOMAIN g} = {Back(n) : n \in N}
  BY <1>5, <1>6
<1> QED BY <1>1, <1>7 DEF N

\* The first day of the oldest month shown.
Oldest == Back(KPI_TREND_MONTHS - 1)
Shown == (Month[today] + 1 - KPI_TREND_MONTHS)..Month[today]

LEMMA MonthsShown ==
  ASSUME today \in Day, Month[today] + 1 >= KPI_TREND_MONTHS
  PROVE  /\ {Month[d] : d \in RecentMonths} = Shown
         /\ Min(RecentMonths) = Oldest /\ IsFiniteSet(Shown)
         /\ \A d \in Day : d <= today => (Month[d] \in Shown <=> d >= Oldest)
<1>0. KPI_TREND_MONTHS \in Nat \ {0} /\ Month[today] \in Nat
  BY DashboardAssumption
<1> DEFINE N == 0..(KPI_TREND_MONTHS - 1)
<1>1. ASSUME NEW n \in N
      PROVE  /\ Back(n) \in Day /\ Month[Back(n)] = Month[today] - n
             /\ \A e \in Day : Month[e] = Month[today] - n => Back(n) <= e
             /\ Month[today] - n \in 0..Month[today]
  <2>1. PICK m \in 0..Month[today] : m = Month[today] - n
    BY <1>0
  <2> QED BY <2>1, FirstDayOfMonth DEF Back
<1>2. {Month[d] : d \in RecentMonths} = Shown
  <2>1. ASSUME NEW m \in Shown PROVE \E n \in N : m = Month[today] - n
    <3>1. Month[today] - m \in N /\ m = Month[today] - (Month[today] - m)
      BY <1>0 DEF Shown
    <3> QED BY <3>1
  <2>2. ASSUME NEW n \in N PROVE Month[today] - n \in Shown
    BY <1>0 DEF Shown
  <2>3. {Month[d] : d \in RecentMonths} = {Month[Back(n)] : n \in N}
    BY RecentFirsts
  <2>4. {Month[Back(n)] : n \in N} = {Month[today] - n : n \in N}
    BY <1>1
  <2> QED BY <2>1, <2>2, <2>3, <2>4
<1>3. ASSUME NEW d \in Day, d <= today
      PROVE  Month[d] \in Shown <=> d >= Oldest
  <2>1. KPI_TREND_MONTHS - 1 \in N
    BY <1>0
  <2>2. /\ Oldest \in Day /\ Month[Oldest] = Month[today] + 1 - KPI_TREND_MONTHS
        /\ \A e \in Day : Month[e] = Month[today] + 1 - KPI_TREND_MONTHS => Oldest <= e
    BY <1>0, <1>1, <2>1 DEF Oldest
  <2>3. Month[d] <= Month[today] /\ Month[d] \in Nat /\ d \in Nat /\ Oldest \in Nat
    BY <1>3, <2>2, MonthsGrow, DashboardAssumption DEF Day
  <2>4. CASE d >= Oldest
    <3>1. Month[Oldest] <= Month[d]
      BY <2>2, <2>4, MonthsGrow
    <3> QED BY <1>0, <2>2, <2>3, <2>4, <3>1 DEF Shown
  <2>5. CASE ~(d >= Oldest)
    <3>1. Month[d] <= Month[Oldest]
      <4>1. d <= Oldest
        BY <2>3, <2>5
      <4> QED BY <2>2, <4>1, MonthsGrow
    <3>2. Month[d] # Month[Oldest]
      BY <2>2, <2>3, <2>5
    <3> QED BY <1>0, <2>2, <2>3, <2>5, <3>1, <3>2 DEF Shown
  <2> QED BY <2>4, <2>5
<1>4. Min(RecentMonths) = Oldest
  <2>1. RecentMonths \subseteq Nat /\ RecentMonths # {}
    <3>1. 0 \in N
      BY <1>0
    <3> QED BY <1>1, <3>1, RecentFirsts DEF Day
  <2>2. Min(RecentMonths) \in RecentMonths /\ \A x \in RecentMonths : Min(RecentMonths) <= x
    BY <2>1, MinIsThere
  <2>3. Oldest \in RecentMonths
    BY <1>0, RecentFirsts DEF Oldest
  <2>4. Month[Min(RecentMonths)] \in Shown
    BY <1>2, <2>2
  <2>5. Min(RecentMonths) \in Day /\ Min(RecentMonths) <= today
    <3>1. Min(RecentMonths) \in Day
      BY <1>1, <2>2, RecentFirsts
    <3>2. 0 \in N /\ Back(0) <= today
      BY <1>0, <1>1
    <3>3. Min(RecentMonths) <= Back(0) /\ Back(0) \in Day
      BY <1>1, <2>2, <3>2, RecentFirsts
    <3> QED BY <3>1, <3>2, <3>3 DEF Day
  <2>6. Min(RecentMonths) >= Oldest
    BY <1>3, <2>4, <2>5
  <2>7. Min(RecentMonths) <= Oldest /\ Min(RecentMonths) \in Nat /\ Oldest \in Nat
    BY <2>1, <2>2, <2>3
  <2> QED BY <2>6, <2>7
<1>5. IsFiniteSet(Shown)
  <2>1. Month[today] + 1 - KPI_TREND_MONTHS \in Int /\ Month[today] \in Int
    BY <1>0
  <2> QED BY <2>1, FS_Interval DEF Shown
<1> QED BY <1>2, <1>3, <1>4, <1>5

\* What is dated is dated up to today.
DashIInv ==
  /\ DashTypeOK /\ FirstDay <= today
  /\ \A a \in Approvals : decidedOn[a] # NoDay => decidedOn[a] <= today
  /\ \A f \in Raised : raisedOn[f] # NoDay => raisedOn[f].on <= today

LEMMA DashInvariant == DashSpec => []DashIInv
<1>1. DashInit => DashIInv
  <2> SUFFICES ASSUME DashInit PROVE DashIInv
    OBVIOUS
  <2>1. DashTypeOK
    BY DashboardAssumption DEF DashInit, DashTypeOK
  <2> QED BY <2>1, DashboardAssumption DEF DashInit, DashIInv, Day
<1>2. DashIInv /\ [DashNext]_dashVars => DashIInv'
  <2> SUFFICES ASSUME DashIInv, [DashNext]_dashVars PROVE DashIInv'
    OBVIOUS
  <2>0. /\ DashTypeOK' /\ today \in Nat /\ FirstDay \in Nat /\ today' \in Nat
        /\ decidedOn \in [Approvals -> Day \cup {NoDay}] /\ raisedOn \in [Raised -> RaisedRow \cup {NoDay}]
        /\ NoDay \notin RaisedRow
    BY DashTypeStep, DashboardAssumption DEF DashIInv, DashTypeOK, Day
  <2>1. today <= today'
    BY <2>0 DEF dashVars, DashNext, DayPasses, ApproveToday, SaveApproved, RaiseToday,
                CloseRaised, ScheduleVisit, SaveEntry
  <2>2. ASSUME NEW a \in Approvals, decidedOn'[a] # NoDay PROVE decidedOn'[a] <= today'
    <3>1. decidedOn'[a] = decidedOn[a] \/ decidedOn'[a] = today
      BY <2>0 DEF dashVars, DashNext, DayPasses, ApproveToday, SaveApproved, RaiseToday,
                  CloseRaised, ScheduleVisit, SaveEntry
    <3>2. CASE decidedOn'[a] = decidedOn[a]
      <4>1. decidedOn[a] <= today /\ decidedOn[a] \in Nat
        BY <2>0, <2>2, <3>2 DEF DashIInv, Day
      <4> QED BY <2>0, <2>1, <3>2, <4>1
    <3> QED BY <2>0, <2>1, <3>1, <3>2
  <2>3. ASSUME NEW f \in Raised, raisedOn'[f] # NoDay PROVE raisedOn'[f].on <= today'
    <3>1. \/ raisedOn'[f] = raisedOn[f]
          \/ raisedOn[f] # NoDay /\ raisedOn'[f] = [raisedOn[f] EXCEPT !.open = FALSE]
          \/ \E due \in DueDays : raisedOn'[f] = [on |-> today, due |-> due, open |-> TRUE]
      BY <2>0 DEF dashVars, DashNext, DayPasses, ApproveToday, SaveApproved, RaiseToday,
                  CloseRaised, ScheduleVisit, SaveEntry
    <3>2. CASE \/ raisedOn'[f] = raisedOn[f]
               \/ raisedOn[f] # NoDay /\ raisedOn'[f] = [raisedOn[f] EXCEPT !.open = FALSE]
      <4>1. raisedOn[f] \in RaisedRow /\ raisedOn[f].on <= today
        BY <2>0, <2>3, <3>2 DEF DashIInv
      <4>2. raisedOn[f].on \in Nat
        BY <4>1 DEF RaisedRow, Day
      <4>3. raisedOn'[f].on = raisedOn[f].on
        BY <3>2, <4>1 DEF RaisedRow
      <4> QED BY <2>0, <2>1, <4>1, <4>2, <4>3
    <3>3. CASE \E due \in DueDays : raisedOn'[f] = [on |-> today, due |-> due, open |-> TRUE]
      <4>1. raisedOn'[f].on = today
        BY <3>3
      <4> QED BY <2>1, <4>1
    <3> QED BY <3>1, <3>2, <3>3
  <2>4. FirstDay <= today'
    BY <2>0, <2>1 DEF DashIInv
  <2> QED BY <2>0, <2>2, <2>3, <2>4 DEF DashIInv
<1> QED BY <1>1, <1>2, PTL DEF DashSpec

\* So many months have begun as are shown.
LEMMA InRange == ASSUME DashIInv PROVE today \in Day /\ Month[today] + 1 >= KPI_TREND_MONTHS
<1>1. today \in Day /\ FirstDay \in Day /\ FirstDay <= today
  BY DashboardAssumption DEF DashIInv, DashTypeOK
<1>2. Month[FirstDay] <= Month[today] /\ Month[FirstDay] \in Nat /\ Month[today] \in Nat
  BY <1>1, MonthsGrow, DashboardAssumption
<1> QED BY <1>1, <1>2, DashboardAssumption

\* What a bucket counts, the months shown count together.
LEMMA BucketsAddUp ==
  ASSUME DashIInv, NEW S, IsFiniteSet(S), NEW on, \A x \in S : on[x] \in Day /\ on[x] <= today
  PROVE  SumFunctionOnSet([m \in Shown |-> Cardinality({x \in S : Month[on[x]] = m})], Shown)
           = Cardinality({x \in S : on[x] >= Oldest})
<1> DEFINE A == {x \in S : on[x] >= Oldest}
           p == [x \in S |-> Month[on[x]]]
           Counts == [m \in Shown |-> Cardinality({x \in A : p[x] = m})]
<1>1. /\ IsFiniteSet(Shown)
      /\ \A d \in Day : d <= today => (Month[d] \in Shown <=> d >= Oldest)
  <2>1. today \in Day /\ Month[today] + 1 >= KPI_TREND_MONTHS
    BY InRange
  <2> QED BY <2>1, MonthsShown
<1>2. \A x \in A : p[x] \in Shown
  BY <1>1
<1>3. IsFiniteSet(A)
  BY FS_Subset
<1>4. SumFunctionOnSet(Counts, Shown) = Cardinality(A)
  <2> HIDE DEF A, p
  <2> QED BY <1>1, <1>2, <1>3, CountByKey
<1>5. ASSUME NEW m \in Shown PROVE {x \in S : Month[on[x]] = m} = {x \in A : p[x] = m}
  BY <1>1
<1>6. Counts = [m \in Shown |-> Cardinality({x \in S : Month[on[x]] = m})]
  <2> HIDE DEF A, p
  <2> QED BY <1>5
<1> QED BY <1>4, <1>6

\* The last months, none skipped, and each record in one of them.
LEMMA TrendComplete == DashIInv => TrendIsComplete
<1> SUFFICES ASSUME DashIInv, NEW v \in Viewers
             PROVE  LET t == ProcessingTrend(v)
                        approved(m) == t[m].approvals
                        findings(m) == MiningTrend(v)[m].nonconformities
                        oldest == Min(RecentMonths) IN
                    /\ DOMAIN t = (Month[today] + 1 - KPI_TREND_MONTHS)..Month[today]
                    /\ Total(DOMAIN t, approved) =
                         Cardinality({a \in SeenBy(v, Approvals) : decidedOn[a] # NoDay /\ decidedOn[a] >= oldest})
                    /\ Total(DOMAIN t, findings) =
                         Cardinality({f \in SeenBy(v, Raised) : raisedOn[f] # NoDay /\ raisedOn[f].on >= oldest})
  BY DEF TrendIsComplete
<1> DEFINE t == ProcessingTrend(v)
           u == MiningTrend(v)
           A == {a \in SeenBy(v, Approvals) : decidedOn[a] # NoDay}
           B == {f \in SeenBy(v, Raised) : raisedOn[f] # NoDay}
           raisedDay == [f \in B |-> raisedOn[f].on]
<1>1. /\ {Month[d] : d \in RecentMonths} = Shown
      /\ Min(RecentMonths) = Oldest
  BY InRange, MonthsShown
<1>2. /\ DOMAIN t = Shown /\ DOMAIN u = Shown
      /\ \A m \in Shown : t[m].approvals = Cardinality({a \in SeenBy(v, Approvals) : In(decidedOn[a], m)})
      /\ \A m \in Shown : u[m].nonconformities =
           Cardinality({f \in SeenBy(v, Raised) : raisedOn[f] # NoDay /\ In(raisedOn[f].on, m)})
  BY <1>1 DEF ProcessingTrend, MiningTrend, KpiTrend, DayOfApproval
<1>3. IsFiniteSet(A) /\ IsFiniteSet(B)
  <2>1. A \in SUBSET Records /\ B \in SUBSET Records
    BY DEF SeenBy, Records
  <2> HIDE DEF A, B
  <2> QED BY <2>1, FS_Subset, DashboardAssumption
<1>4. \A a \in A : decidedOn[a] \in Day /\ decidedOn[a] <= today
  BY DEF DashIInv, DashTypeOK, SeenBy
<1>5. \A f \in B : raisedDay[f] \in Day /\ raisedDay[f] <= today
  <2>1. ASSUME NEW f \in B PROVE raisedOn[f].on \in Day /\ raisedOn[f].on <= today
    <3>1. raisedOn[f] \in RaisedRow /\ raisedOn[f].on <= today
      BY DEF DashIInv, DashTypeOK, SeenBy
    <3> QED BY <3>1 DEF RaisedRow
  <2> HIDE DEF B
  <2> QED BY <2>1
<1>6. SumFunctionOnSet([m \in Shown |-> Cardinality({a \in A : Month[decidedOn[a]] = m})], Shown)
        = Cardinality({a \in A : decidedOn[a] >= Oldest})
  <2> HIDE DEF A
  <2> QED BY <1>3, <1>4, BucketsAddUp
<1>7. SumFunctionOnSet([m \in Shown |-> Cardinality({f \in B : Month[raisedDay[f]] = m})], Shown)
        = Cardinality({f \in B : raisedDay[f] >= Oldest})
  <2> HIDE DEF B, raisedDay
  <2> QED BY <1>3, <1>5, BucketsAddUp
<1>8. ASSUME NEW m \in Shown
      PROVE  /\ {a \in SeenBy(v, Approvals) : In(decidedOn[a], m)} = {a \in A : Month[decidedOn[a]] = m}
             /\ {f \in SeenBy(v, Raised) : raisedOn[f] # NoDay /\ In(raisedOn[f].on, m)}
                  = {f \in B : Month[raisedDay[f]] = m}
  <2>1. NoDay \notin Day
    BY DashboardAssumption
  <2>2. {a \in SeenBy(v, Approvals) : In(decidedOn[a], m)} = {a \in A : Month[decidedOn[a]] = m}
    BY DEF In
  <2>3. \A f \in B : raisedOn[f].on # NoDay
    BY <1>5, <2>1
  <2> QED BY <2>2, <2>3 DEF In
<1>9. {a \in A : decidedOn[a] >= Oldest}
        = {a \in SeenBy(v, Approvals) : decidedOn[a] # NoDay /\ decidedOn[a] >= Oldest}
  OBVIOUS
<1>10. {f \in B : raisedDay[f] >= Oldest}
        = {f \in SeenBy(v, Raised) : raisedOn[f] # NoDay /\ raisedOn[f].on >= Oldest}
  OBVIOUS
<1> HIDE DEF t, u, A, B, raisedDay
<1>11. SumFunction([m \in Shown |-> t[m].approvals])
         = Cardinality({a \in SeenBy(v, Approvals) : decidedOn[a] # NoDay /\ decidedOn[a] >= Oldest})
  <2>1. [m \in Shown |-> t[m].approvals] = [m \in Shown |-> Cardinality({a \in A : Month[decidedOn[a]] = m})]
    BY <1>2, <1>8
  <2> QED BY <1>6, <1>9, <2>1 DEF SumFunction
<1>12. SumFunction([m \in Shown |-> u[m].nonconformities])
         = Cardinality({f \in SeenBy(v, Raised) : raisedOn[f] # NoDay /\ raisedOn[f].on >= Oldest})
  <2>1. [m \in Shown |-> u[m].nonconformities] = [m \in Shown |-> Cardinality({f \in B : Month[raisedDay[f]] = m})]
    BY <1>2, <1>8
  <2> QED BY <1>7, <1>10, <2>1 DEF SumFunction
<1> QED BY <1>1, <1>2, <1>11, <1>12 DEF Total, Shown, t, u

\* A mean is within a half of the exact one, and even when it is a half off.
LEMMA MeanNear ==
  ASSUME NEW total \in Nat, NEW n \in Nat \ {0}
  PROVE  /\ Mean(total, n) \in Nat
         /\ 2 * total <= 2 * (Mean(total, n) * n) + n
         /\ 2 * total = 2 * (Mean(total, n) * n) + n => Mean(total, n) % 2 = 0
         /\ 2 * (Mean(total, n) * n) <= 2 * total + n
         /\ 2 * (Mean(total, n) * n) = 2 * total + n => Mean(total, n) % 2 = 0
<1> DEFINE q == total \div n
           r == total % n
           k == q * n
<1>1. q \in Nat /\ r \in 0..(n - 1) /\ total = n * q + r
  OBVIOUS
<1> HIDE DEF q, r
<1>2. n * q = k /\ k \in Nat /\ (q + 1) * n = k + n
  BY <1>1
<1> HIDE DEF k
<1>3. total = k + r
  BY <1>1, <1>2
<1>4. q % 2 = 1 => (q + 1) % 2 = 0
  BY <1>1
<1>5. ~(q % 2 = 1) => q % 2 = 0
  BY <1>1
<1>6. CASE 2 * r > n \/ (2 * r = n /\ q % 2 = 1)
  <2>1. Mean(total, n) = q + 1
    BY <1>6 DEF Mean, q, r
  <2> QED BY <1>1, <1>2, <1>3, <1>4, <1>6, <2>1
<1>7. CASE ~(2 * r > n \/ (2 * r = n /\ q % 2 = 1))
  <2>1. Mean(total, n) = q
    BY <1>7 DEF Mean, q, r
  <2>2. q * n = k
    BY <1>1, <1>2
  <2> QED BY <1>1, <1>2, <1>3, <1>5, <1>7, <2>1, <2>2
<1> QED BY <1>6, <1>7

\* Groups whose means are all above, or all below, a number have a mean that is.
LEMMA MeansAbove ==
  ASSUME NEW S, IsFiniteSet(S), S # {}, NEW w, NEW v, NEW q \in Nat,
         \A x \in S : w[x] \in Nat \ {0} /\ v[x] \in Nat /\ Mean(v[x], w[x]) > q
  PROVE  Mean(SumFunctionOnSet(v, S), SumFunctionOnSet(w, S)) # q
<1> DEFINE n == SumFunctionOnSet(w, S)
           t == SumFunctionOnSet(v, S)
           e == IF q % 2 = 0 THEN 1 ELSE 0
<1>1. n \in Nat \ {0} /\ t \in Nat
  <2>1. PICK y \in S : w[y] \in Nat \ {0}
    OBVIOUS
  <2>2. n \in Nat /\ t \in Nat
    BY SumNat
  <2>3. w[y] <= n
    BY SumCovers
  <2> HIDE DEF n, t
  <2> QED BY <2>1, <2>2, <2>3
<1>2. ASSUME NEW x \in S PROVE (2 * q + 1) * w[x] + e <= 2 * v[x]
  <2>1. PICK a \in Nat : a = Mean(v[x], w[x])
    BY MeanNear
  <2>2. PICK m \in Nat \ {0} : m = w[x]
    OBVIOUS
  <2>3. PICK s \in Nat : s = v[x]
    OBVIOUS
  <2>4. 2 * (a * m) <= 2 * s + m /\ (2 * (a * m) = 2 * s + m => a % 2 = 0) /\ a > q
    BY <2>1, <2>2, <2>3, MeanNear
  <2>5. PICK d \in Nat : a = q + 1 + d
    <3>1. a - q - 1 \in Nat /\ a = q + 1 + (a - q - 1)
      BY <2>4
    <3> QED BY <3>1
  <2> DEFINE k == q * m
             l == d * m
  <2>6. k \in Nat /\ l \in Nat /\ a * m = k + m + l /\ (2 * q + 1) * m = 2 * k + m
    BY <2>5
  <2>7. l = 0 => d = 0
    <3>1. d # 0 => l >= m
      <4>1. d # 0 => \E c \in Nat : d = c + 1
        <5>1. d # 0 => d - 1 \in Nat /\ d = (d - 1) + 1
          OBVIOUS
        <5> QED BY <5>1
      <4>2. ASSUME NEW c \in Nat, d = c + 1 PROVE l >= m
        <5>1. l = c * m + m /\ c * m \in Nat
          BY <4>2
        <5> QED BY <5>1
      <4> QED BY <4>1, <4>2
    <3> QED BY <3>1
  <2> HIDE DEF k, l
  <2>8. 2 * k + m + 2 * l <= 2 * s
    BY <2>4, <2>6
  <2>9. q % 2 = 0 => 2 * k + m + 2 * l # 2 * s \/ l # 0
    <3>1. ASSUME q % 2 = 0, 2 * k + m + 2 * l = 2 * s, l = 0 PROVE FALSE
      <4>1. 2 * (a * m) = 2 * s + m
        BY <2>6, <3>1
      <4>2. a % 2 = 0 /\ a = q + 1
        BY <2>4, <2>5, <2>7, <3>1, <4>1
      <4> QED BY <3>1, <4>2
    <3> QED BY <3>1
  <2>10. 2 * k + m + e <= 2 * s
    BY <2>6, <2>8, <2>9
  <2> QED BY <2>2, <2>3, <2>6, <2>10
<1>3. (2 * q + 1) * n + e <= 2 * t
  <2>1. e \in {0, 1} /\ 2 * q + 1 \in Nat
    OBVIOUS
  <2>2. \A x \in S : w[x] \in Nat /\ v[x] \in Nat
    OBVIOUS
  <2> HIDE DEF e
  <2> QED BY <1>2, <2>1, <2>2, SumAbove
<1> HIDE DEF n, t
<1>4. SUFFICES ASSUME Mean(t, n) = q PROVE FALSE
  BY DEF n, t
<1>5. 2 * t <= 2 * (q * n) + n /\ (2 * t = 2 * (q * n) + n => q % 2 = 0)
  BY <1>1, <1>4, MeanNear
<1>6. (2 * q + 1) * n = 2 * (q * n) + n /\ q * n \in Nat
  BY <1>1
<1> QED BY <1>1, <1>3, <1>5, <1>6

LEMMA MeansBelow ==
  ASSUME NEW S, IsFiniteSet(S), S # {}, NEW w, NEW v, NEW q \in Nat,
         \A x \in S : w[x] \in Nat \ {0} /\ v[x] \in Nat /\ Mean(v[x], w[x]) < q
  PROVE  Mean(SumFunctionOnSet(v, S), SumFunctionOnSet(w, S)) # q
<1> DEFINE n == SumFunctionOnSet(w, S)
           t == SumFunctionOnSet(v, S)
           e == IF q % 2 = 0 THEN 1 ELSE 0
<1>1. n \in Nat \ {0} /\ t \in Nat
  <2>1. PICK y \in S : w[y] \in Nat \ {0}
    OBVIOUS
  <2>2. n \in Nat /\ t \in Nat
    BY SumNat
  <2>3. w[y] <= n
    BY SumCovers
  <2> HIDE DEF n, t
  <2> QED BY <2>1, <2>2, <2>3
<1>0. q # 0 /\ 2 * q - 1 \in Nat
  <2>1. PICK y \in S : w[y] \in Nat \ {0} /\ v[y] \in Nat /\ Mean(v[y], w[y]) < q
    OBVIOUS
  <2>2. Mean(v[y], w[y]) \in Nat
    BY <2>1, MeanNear
  <2> QED BY <2>1, <2>2
<1>2. ASSUME NEW x \in S PROVE 2 * v[x] + e <= (2 * q - 1) * w[x]
  <2>1. PICK a \in Nat : a = Mean(v[x], w[x])
    BY MeanNear
  <2>2. PICK m \in Nat \ {0} : m = w[x]
    OBVIOUS
  <2>3. PICK s \in Nat : s = v[x]
    OBVIOUS
  <2>4. 2 * s <= 2 * (a * m) + m /\ (2 * s = 2 * (a * m) + m => a % 2 = 0) /\ a < q
    BY <2>1, <2>2, <2>3, MeanNear
  <2>5. PICK d \in Nat : q = a + 1 + d
    <3>1. q - a - 1 \in Nat /\ q = a + 1 + (q - a - 1)
      BY <2>4
    <3> QED BY <3>1
  <2> DEFINE k == a * m
             l == d * m
  <2>6. k \in Nat /\ l \in Nat /\ (2 * q - 1) * m = 2 * k + m + 2 * l
    BY <2>5
  <2>7. l = 0 => d = 0
    <3>1. d # 0 => l >= m
      <4>1. d # 0 => \E c \in Nat : d = c + 1
        <5>1. d # 0 => d - 1 \in Nat /\ d = (d - 1) + 1
          OBVIOUS
        <5> QED BY <5>1
      <4>2. ASSUME NEW c \in Nat, d = c + 1 PROVE l >= m
        <5>1. l = c * m + m /\ c * m \in Nat
          BY <4>2
        <5> QED BY <5>1
      <4> QED BY <4>1, <4>2
    <3> QED BY <3>1
  <2>8. 2 * s <= 2 * k + m /\ (2 * s = 2 * k + m => a % 2 = 0)
    BY <2>4
  <2> HIDE DEF k, l
  <2>9. q % 2 = 0 => 2 * s # 2 * k + m \/ l # 0
    <3>1. ASSUME q % 2 = 0, 2 * s = 2 * k + m, l = 0 PROVE FALSE
      <4>1. a % 2 = 0 /\ q = a + 1
        BY <2>5, <2>7, <2>8, <3>1
      <4> QED BY <3>1, <4>1
    <3> QED BY <3>1
  <2>10. 2 * s + e <= 2 * k + m + 2 * l
    BY <2>6, <2>8, <2>9
  <2> QED BY <2>2, <2>3, <2>6, <2>10
<1>3. 2 * t + e <= (2 * q - 1) * n
  <2>1. e \in {0, 1}
    OBVIOUS
  <2>2. \A x \in S : w[x] \in Nat /\ v[x] \in Nat
    OBVIOUS
  <2> HIDE DEF e
  <2> QED BY <1>0, <1>2, <2>1, <2>2, SumBelow
<1> HIDE DEF n, t
<1>4. SUFFICES ASSUME Mean(t, n) = q PROVE FALSE
  BY DEF n, t
<1>5. 2 * (q * n) <= 2 * t + n /\ (2 * (q * n) = 2 * t + n => q % 2 = 0)
  BY <1>1, <1>4, MeanNear
<1>6. (2 * q - 1) * n = 2 * (q * n) - n /\ q * n \in Nat
  BY <1>1
<1> QED BY <1>1, <1>3, <1>5, <1>6

\* The sites a viewer sees, region by region: their number, the operational
\* ones, and the sum of their scores.
LEMMA RegionsCount ==
  ASSUME DashTypeOK, NEW v
  PROVE  LET E == SeenBy(v, Entries)
             R == {Region(e) : e \in E}
             own(x) == {e \in E : Region(e) = x} IN
         /\ IsFiniteSet(E) /\ IsFiniteSet(R)
         /\ \A x \in R : IsFiniteSet(own(x)) /\ own(x) # {}
         /\ SumFunctionOnSet([x \in R |-> Cardinality(own(x))], R) = Cardinality(E)
         /\ SumFunctionOnSet([x \in R |-> Cardinality(HavingStatus(own(x), "operational"))], R)
              = Cardinality(HavingStatus(E, "operational"))
         /\ SumFunctionOnSet([x \in R |-> SumFunctionOnSet([e \in E |-> places[e].score], own(x))], R)
              = SumFunctionOnSet([e \in E |-> places[e].score], E)
<1> DEFINE E == SeenBy(v, Entries)
           R == {Region(e) : e \in E}
           own(x) == {e \in E : Region(e) = x}
           p == [e \in E |-> Region(e)]
           w == [e \in E |-> places[e].score]
           O == HavingStatus(E, "operational")
<1>1. IsFiniteSet(E)
  <2>1. E \in SUBSET Records
    BY DEF SeenBy, Records
  <2> HIDE DEF E
  <2> QED BY <2>1, FS_Subset, DashboardAssumption
<1>2. IsFiniteSet(R)
  <2>1. p \in Surjection(E, R)
    <3> HIDE DEF E
    <3> QED BY DEF Surjection
  <2> HIDE DEF p, E, R
  <2> QED BY <1>1, <2>1, FS_Surjection
<1>3. \A e \in E : p[e] \in R /\ w[e] \in Nat
  <2>1. ASSUME NEW e \in E PROVE places[e].score \in Nat
    <3>1. places[e] \in EntryRow
      BY DEF DashTypeOK, SeenBy
    <3> QED BY <3>1 DEF EntryRow
  <2> HIDE DEF E
  <2> QED BY <2>1
<1>4. IsFiniteSet(O) /\ O \subseteq E
  <2>1. O \in SUBSET E
    BY DEF HavingStatus
  <2> HIDE DEF O
  <2> QED BY <1>1, <2>1, FS_Subset
<1>5. ASSUME NEW x \in R
      PROVE  /\ own(x) = {e \in E : p[e] = x} /\ own(x) # {} /\ IsFiniteSet(own(x))
             /\ HavingStatus(own(x), "operational") = {e \in O : p[e] = x}
  <2> HIDE DEF E
  <2>1. own(x) = {e \in E : p[e] = x} /\ own(x) # {} /\ own(x) \in SUBSET E
    OBVIOUS
  <2>2. HavingStatus(own(x), "operational") = {e \in O : p[e] = x}
    BY DEF HavingStatus
  <2> QED BY <1>1, <2>1, <2>2, FS_Subset
<1>6. SumFunctionOnSet([x \in R |-> Cardinality({e \in E : p[e] = x})], R) = Cardinality(E)
  <2> HIDE DEF E, R, p, w
  <2> QED BY <1>1, <1>2, <1>3, CountByKey
<1>7. SumFunctionOnSet([x \in R |-> Cardinality({e \in O : p[e] = x})], R) = Cardinality(O)
  <2> HIDE DEF E, R, p, w, O
  <2> QED BY <1>2, <1>3, <1>4, CountByKey
<1>8. SumFunctionOnSet([x \in R |-> SumFunctionOnSet(w, {e \in E : p[e] = x})], R) = SumFunctionOnSet(w, E)
  <2> HIDE DEF E, R, p, w
  <2> QED BY <1>1, <1>2, <1>3, SumByKey
<1>9. /\ [x \in R |-> Cardinality(own(x))] = [x \in R |-> Cardinality({e \in E : p[e] = x})]
      /\ [x \in R |-> Cardinality(HavingStatus(own(x), "operational"))]
           = [x \in R |-> Cardinality({e \in O : p[e] = x})]
      /\ [x \in R |-> SumFunctionOnSet(w, own(x))] = [x \in R |-> SumFunctionOnSet(w, {e \in E : p[e] = x})]
  <2> HIDE DEF E, R, own, p, w, O
  <2> QED BY <1>5
<1> QED BY <1>1, <1>2, <1>5, <1>6, <1>7, <1>8, <1>9

\* Every site is some company's, and nobody else's.
LEMMA CompaniesCount ==
  SumFunctionOnSet([c \in Viewers \ {WholeRegister} |-> Cardinality(SeenBy(c, Entries))], Viewers \ {WholeRegister})
    = Cardinality(SeenBy(WholeRegister, Entries))
<1> DEFINE C == {CompanyOf[x] : x \in Records}
           p == [x \in Records |-> CompanyOf[x]]
<1>1. Viewers \ {WholeRegister} = C
  BY DashboardAssumption DEF Viewers
<1>2. IsFiniteSet(C)
  <2>1. p \in Surjection(Records, C)
    BY DEF Surjection
  <2> HIDE DEF p, C
  <2> QED BY <2>1, FS_Surjection, DashboardAssumption
<1>3. IsFiniteSet(Entries) /\ Entries \subseteq Records
  <2>1. Entries \in SUBSET Records
    BY DEF Records
  <2> QED BY <2>1, FS_Subset, DashboardAssumption
<1>4. SumFunctionOnSet([c \in C |-> Cardinality({e \in Entries : p[e] = c})], C) = Cardinality(Entries)
  <2>1. \A e \in Entries : p[e] \in C
    BY <1>3
  <2> HIDE DEF p, C
  <2> QED BY <1>2, <1>3, <2>1, CountByKey
<1>5. ASSUME NEW c \in C PROVE SeenBy(c, Entries) = {e \in Entries : p[e] = c}
  BY <1>3, DashboardAssumption DEF SeenBy
<1>6. SeenBy(WholeRegister, Entries) = Entries
  BY DEF SeenBy
<1>7. [c \in C |-> Cardinality(SeenBy(c, Entries))] = [c \in C |-> Cardinality({e \in Entries : p[e] = c})]
  <2> HIDE DEF p, C
  <2> QED BY <1>5
<1> QED BY <1>1, <1>4, <1>6, <1>7

\* The regions and the totals agree.
LEMMA RegionsAgree == DashTypeOK => RegionsAddUp
<1> SUFFICES ASSUME DashTypeOK, NEW v \in Viewers
             PROVE  LET r == Regional(v)
                        own == Totals(v)
                        lines(x) == r[x].entries
                        operational(x) == r[x].operational
                        all(c) == Totals(c).entries IN
                    /\ Total(DOMAIN r, lines) = own.entries
                    /\ Total(DOMAIN r, operational) = own.operational
                    /\ Total(Viewers \ {WholeRegister}, all) = Totals(WholeRegister).entries
                    /\ own.entries # 0 =>
                         \E x, y \in DOMAIN r : r[x].average <= own.average /\ own.average <= r[y].average
  BY DEF RegionsAddUp
<1> DEFINE E == SeenBy(v, Entries)
           R == {Region(e) : e \in E}
           own(x) == {e \in E : Region(e) = x}
           score == [e \in E |-> places[e].score]
           n == [x \in R |-> Cardinality(own(x))]
           s == [x \in R |-> SumFunctionOnSet(score, own(x))]
           r == Regional(v)
           total == Totals(v)
<1>1. /\ IsFiniteSet(E) /\ IsFiniteSet(R)
      /\ \A x \in R : IsFiniteSet(own(x)) /\ own(x) # {}
      /\ SumFunctionOnSet(n, R) = Cardinality(E)
      /\ SumFunctionOnSet([x \in R |-> Cardinality(HavingStatus(own(x), "operational"))], R)
           = Cardinality(HavingStatus(E, "operational"))
      /\ SumFunctionOnSet(s, R) = SumFunctionOnSet(score, E)
  BY RegionsCount
<1>2. ASSUME NEW S, S \subseteq E, S # {}
      PROVE  AverageScore(S) = Mean(SumFunctionOnSet(score, S), Cardinality(S))
  <2> DEFINE w == [e \in S |-> places[e].score]
  <2>1. AverageScore(S) = Mean(SumFunctionOnSet(w, S), Cardinality(S))
    BY <1>2 DEF AverageScore, Total, SumFunction
  <2>2. IsFiniteSet(S) /\ \A e \in S : w[e] = score[e]
    BY <1>1, <1>2, FS_Subset
  <2>3. SumFunctionOnSet(w, S) = SumFunctionOnSet(score, S)
    <3> HIDE DEF w, score
    <3> QED BY <2>2, SumSame
  <2> QED BY <2>1, <2>3
<1>3. /\ DOMAIN r = R
      /\ \A x \in R : /\ r[x].entries = n[x]
                      /\ r[x].operational = Cardinality(HavingStatus(own(x), "operational"))
                      /\ r[x].average = AverageScore(own(x))
  BY DEF Regional
<1>4. \A x \in R : r[x].average = Mean(s[x], n[x])
  <2>1. ASSUME NEW x \in R PROVE AverageScore(own(x)) = Mean(SumFunctionOnSet(score, own(x)), Cardinality(own(x)))
    <3>1. own(x) \subseteq E /\ own(x) # {}
      BY <1>1
    <3> HIDE DEF own, E, R, score
    <3> QED BY <1>2, <3>1
  <2> HIDE DEF own, E, R, score, r
  <2> QED BY <1>3, <2>1
<1>5. /\ total.entries = Cardinality(E)
      /\ total.operational = Cardinality(HavingStatus(E, "operational"))
      /\ total.average = AverageScore(E)
  BY DEF Totals
<1>6. \A c : Totals(c).entries = Cardinality(SeenBy(c, Entries))
  BY DEF Totals
<1>7. \A e \in E : score[e] \in Nat
  <2>1. ASSUME NEW e \in E PROVE places[e].score \in Nat
    <3>1. places[e] \in EntryRow
      BY DEF DashTypeOK, SeenBy
    <3> QED BY <3>1 DEF EntryRow
  <2> HIDE DEF E
  <2> QED BY <2>1
<1>8. \A x \in R : n[x] \in Nat \ {0} /\ s[x] \in Nat
  <2>1. ASSUME NEW x \in R PROVE Cardinality(own(x)) \in Nat \ {0} /\ SumFunctionOnSet(score, own(x)) \in Nat
    <3>1. own(x) \subseteq E
      OBVIOUS
    <3> HIDE DEF own, E, R, score
    <3>2. Cardinality(own(x)) \in Nat \ {0}
      BY <1>1, FS_EmptySet, FS_CardinalityType
    <3> QED BY <1>1, <1>7, <3>1, <3>2, SumNat
  <2> HIDE DEF own, E, R, score
  <2> QED BY <2>1
<1>9. Total(Viewers \ {WholeRegister}, LAMBDA c : Totals(c).entries) = Totals(WholeRegister).entries
  <2>1. [c \in Viewers \ {WholeRegister} |-> Totals(c).entries]
          = [c \in Viewers \ {WholeRegister} |-> Cardinality(SeenBy(c, Entries))]
    BY <1>6
  <2> QED BY <1>6, <2>1, CompaniesCount DEF Total, SumFunction
<1>10. ASSUME total.entries # 0
       PROVE  \E x, y \in R : r[x].average <= total.average /\ total.average <= r[y].average
  <2>1. E # {} /\ R # {}
    <3>1. E # {}
      <4> HIDE DEF E
      <4> QED BY <1>5, <1>10, FS_EmptySet
    <3> QED BY <3>1
  <2> DEFINE q == Mean(SumFunctionOnSet(s, R), SumFunctionOnSet(n, R))
  <2>2. total.average = q
    <3> HIDE DEF E, R, s, n, score
    <3> QED BY <1>1, <1>2, <1>5, <2>1
  <2> HIDE DEF E, R, own, score, n, s, r, total
  <2>3. SumFunctionOnSet(n, R) \in Nat \ {0} /\ SumFunctionOnSet(s, R) \in Nat
    <3>1. PICK y \in R : n[y] \in Nat \ {0}
      BY <1>8, <2>1
    <3>2. SumFunctionOnSet(n, R) \in Nat /\ SumFunctionOnSet(s, R) \in Nat
      BY <1>1, <1>8, SumNat
    <3>3. n[y] <= SumFunctionOnSet(n, R)
      BY <1>1, <1>8, SumCovers
    <3> QED BY <3>1, <3>2, <3>3
  <2>4. q \in Nat
    BY <2>3, MeanNear
  <2>5. \A x \in R : Mean(s[x], n[x]) \in Nat
    BY <1>8, MeanNear
  <2>6. \E x \in R : Mean(s[x], n[x]) <= q
    <3>1. SUFFICES ASSUME \A x \in R : Mean(s[x], n[x]) > q PROVE FALSE
      BY <2>4, <2>5
    <3> HIDE DEF q
    <3>2. Mean(SumFunctionOnSet(s, R), SumFunctionOnSet(n, R)) # q
      BY <1>1, <1>8, <2>1, <2>4, <3>1, MeansAbove
    <3> QED BY <3>2 DEF q
  <2>7. \E x \in R : q <= Mean(s[x], n[x])
    <3>1. SUFFICES ASSUME \A x \in R : Mean(s[x], n[x]) < q PROVE FALSE
      BY <2>4, <2>5
    <3> HIDE DEF q
    <3>2. Mean(SumFunctionOnSet(s, R), SumFunctionOnSet(n, R)) # q
      BY <1>1, <1>8, <2>1, <2>4, <3>1, MeansBelow
    <3> QED BY <3>2 DEF q
  <2> HIDE DEF q
  <2> QED BY <1>4, <2>2, <2>6, <2>7
<1>11. /\ [x \in R |-> r[x].entries] = n
       /\ [x \in R |-> r[x].operational] = [x \in R |-> Cardinality(HavingStatus(own(x), "operational"))]
  <2>1. n = [x \in R |-> n[x]]
    OBVIOUS
  <2> HIDE DEF E, R, own, n, r
  <2> QED BY <1>3, <2>1
<1> HIDE DEF E, R, own, score, n, s, r, total
<1>12. /\ Total(R, LAMBDA x : r[x].entries) = total.entries
       /\ Total(R, LAMBDA x : r[x].operational) = total.operational
  BY <1>1, <1>5, <1>11 DEF Total, SumFunction
<1> QED BY <1>3, <1>9, <1>10, <1>12 DEF r, total

\* Every reading of a dashboard agrees with the registers: each approval and
\* finding of the last months is in one bucket, each site in one region, and
\* some region's average is no more and some no less than the whole's.
THEOREM ReadingsAreRight == DashSpec => [](TrendIsComplete /\ RegionsAddUp)
<1>1. DashIInv => TrendIsComplete /\ RegionsAddUp
  BY TrendComplete, RegionsAgree DEF DashIInv
<1> QED BY <1>1, DashInvariant, PTL

\* What the processing trend says a past month approved, no later day changes:
\* an approval is dated once, with the day it happens on.
THEOREM ApprovalsKeepTheirMonth == DashSpec => ApprovalsStand
<1>1. ASSUME DashTypeOK, [DashNext]_dashVars, NEW v, NEW m, m < Month[today]
      PROVE  {a \in SeenBy(v, Approvals) : In(DayOfApproval(a), m)}' =
               {a \in SeenBy(v, Approvals) : In(DayOfApproval(a), m)}
  <2>1. ASSUME NEW a \in Approvals
        PROVE  In(decidedOn[a], m)' <=> In(decidedOn[a], m)
    <3>1. decidedOn'[a] = decidedOn[a] \/ (decidedOn[a] = NoDay /\ decidedOn'[a] = today)
      BY <1>1 DEF DashTypeOK, dashVars, DashNext, DayPasses, ApproveToday, SaveApproved, RaiseToday,
                  CloseRaised, ScheduleVisit, SaveEntry
    <3>2. Month[today] \in Nat
      BY <1>1, DashboardAssumption DEF DashTypeOK
    <3> QED BY <1>1, <3>1, <3>2 DEF In
  <2> QED BY <2>1 DEF SeenBy, DayOfApproval
<1>2. ASSUME DashTypeOK, [DashNext]_dashVars
      PROVE  PastMonthsStand(ProcessingTrend)
  <2> SUFFICES ASSUME NEW v \in Viewers, NEW m \in DOMAIN ProcessingTrend(v) \cap DOMAIN ProcessingTrend(v)',
                      m < Month[today]
               PROVE  ProcessingTrend(v)'[m].approvals = ProcessingTrend(v)[m].approvals
    BY DEF PastMonthsStand
  <2>1. ProcessingTrend(v)[m].approvals = Cardinality({a \in SeenBy(v, Approvals) : In(DayOfApproval(a), m)})
    BY DEF ProcessingTrend, KpiTrend
  <2>2. ProcessingTrend(v)'[m].approvals =
          Cardinality({a \in SeenBy(v, Approvals) : In(DayOfApproval(a), m)}')
    BY DEF ProcessingTrend, KpiTrend
  <2> QED BY <1>1, <1>2, <2>1, <2>2
<1> QED BY <1>2, DashTypeCorrect, PTL DEF DashSpec, ApprovalsStand
-----------------------------------------------------------------------------
(* AccountUpkeep.  What a start may touch of the administrator's account      *)
(* depends on where it stands: it is nobody's before the start gets it, and   *)
(* is there for as long as the start needs it.                                *)

\* Account i is as everyone but the start left it, or a test user deleted.
Left(i) == person[i] = expected[i] \/ (person[i] = Gone /\ expected[i].email \in TestEmails)

UpkeepIInv ==
  /\ UpkeepTypeOK
  /\ \A i \in Ids \ {admin} : Left(i)
  /\ filed \subseteq Held
  /\ \A i, j \in Held : person[i].email = person[j].email => i = j
  /\ boot \in {"import", "insert", "delete", "get"} => admin = Gone
  /\ boot = "promote" => admin \in Held

LEMMA UpkeepStart == UpkeepInit => UpkeepIInv
BY UpkeepAssumption DEF UpkeepInit, UpkeepIInv, UpkeepTypeOK, Left, Held, Boots

\* A registration, or a change of one account by its holder or the staff.
LEMMA Served ==
  ASSUME UpkeepIInv, NEW i \in Ids, NEW new \in Person, Serve(i, new),
         new.email \in Taken => i \in Held /\ new.email = person[i].email
  PROVE  UpkeepIInv'
<1>1. /\ person' = [person EXCEPT ![i] = new] /\ expected' = [expected EXCEPT ![i] = new]
      /\ UNCHANGED <<filed, boot, known, admin, candidates>>
      /\ person \in [Ids -> Person \cup {Gone}] /\ expected \in [Ids -> Person \cup {Gone}]
      /\ new # Gone
  BY UpkeepAssumption DEF Serve, UpkeepIInv, UpkeepTypeOK
<1>2. UpkeepTypeOK'
  BY <1>1 DEF UpkeepIInv, UpkeepTypeOK
<1>3. Held' = Held \cup {i}
  BY <1>1 DEF Held
<1>4. ASSUME NEW j \in Ids \ {admin} PROVE Left(j)'
  BY <1>1 DEF UpkeepIInv, Left
<1>5. ASSUME NEW j \in Held', NEW k \in Held', person'[j].email = person'[k].email PROVE j = k
  <2>1. \A h \in Held : person[h].email \in Taken
    BY DEF Taken
  <2>2. \A h \in Held : h # i => person[h].email # new.email
    BY <2>1 DEF UpkeepIInv
  <2>3. person'[i] = new /\ \A h \in Ids : h # i => person'[h] = person[h]
    BY <1>1
  <2>4. j \in Ids /\ k \in Ids /\ (j # i => j \in Held) /\ (k # i => k \in Held)
    BY <1>3, <1>5 DEF Held
  <2> QED BY <1>5, <2>2, <2>3, <2>4 DEF UpkeepIInv
<1> QED BY <1>1, <1>2, <1>3, <1>4, <1>5 DEF UpkeepIInv

LEMMA HolderStep ==
  ASSUME UpkeepIInv, NEW i \in Ids,
         \/ SignIn(i) \/ ChangePassword(i) \/ StaffDeactivate(i)
         \/ \E e \in Emails : Register(i, e) \/ ChangeEmail(i, e)
  PROVE  UpkeepIInv'
<1>1. i \in Held => person[i] \in Person
  BY DEF UpkeepIInv, UpkeepTypeOK, Held
<1>2. CASE SignIn(i)
  <2> DEFINE new == [person[i] EXCEPT !.fresh = FALSE]
  <2>1. i \in Held /\ Serve(i, new)
    BY <1>2 DEF SignIn, Active
  <2>2. new \in Person /\ new.email = person[i].email
    BY <1>1, <2>1 DEF Person
  <2> HIDE DEF new
  <2> QED BY <2>1, <2>2, Served
<1>3. CASE ChangePassword(i)
  <2> DEFINE new == [person[i] EXCEPT !.password = "own"]
  <2>1. i \in Held /\ Serve(i, new)
    BY <1>3 DEF ChangePassword, Active
  <2>2. new \in Person /\ new.email = person[i].email
    BY <1>1, <2>1 DEF Person
  <2> HIDE DEF new
  <2> QED BY <2>1, <2>2, Served
<1>4. CASE StaffDeactivate(i)
  <2> DEFINE new == [person[i] EXCEPT !.active = FALSE]
  <2>1. i \in Held /\ Serve(i, new)
    BY <1>4 DEF StaffDeactivate, Active
  <2>2. new \in Person /\ new.email = person[i].email
    BY <1>1, <2>1 DEF Person
  <2> HIDE DEF new
  <2> QED BY <2>1, <2>2, Served
<1>5. ASSUME NEW e \in Emails, Register(i, e) PROVE UpkeepIInv'
  <2> DEFINE new == [email |-> e, password |-> "own", active |-> TRUE, fresh |-> TRUE]
  <2>1. e \notin Taken /\ Serve(i, new)
    BY <1>5 DEF Register
  <2>2. new \in Person /\ new.email = e
    BY DEF Person
  <2> HIDE DEF new
  <2> QED BY <2>1, <2>2, Served
<1>6. ASSUME NEW e \in Emails, ChangeEmail(i, e) PROVE UpkeepIInv'
  <2> DEFINE new == [person[i] EXCEPT !.email = e]
  <2>1. i \in Held /\ e \notin Taken /\ Serve(i, new)
    BY <1>6 DEF ChangeEmail, Active
  <2>2. new \in Person /\ new.email = e
    BY <1>1, <2>1 DEF Person
  <2> HIDE DEF new
  <2> QED BY <2>1, <2>2, Served
<1> QED BY <1>2, <1>3, <1>4, <1>5, <1>6

\* Of the rows an import inserts, no two have one e-mail or one id.
LEMMA ImportedApart ==
  ASSUME NEW new \in SUBSET OldUsers, Importing(new)
  PROVE  /\ \A m, n \in new : m.email = n.email \/ m.id = n.id => m = n
         /\ \A n \in new : n.id \in Ids /\ n.email \in Emails \ known /\ n.active \in BOOLEAN
<1>1. \A n \in new : n.id \in Ids /\ n.email \in Emails \ known /\ n.active \in BOOLEAN
  BY UpkeepAssumption DEF Importing, Unknown
<1>2. ASSUME NEW m \in new, NEW n \in new, m.email = n.email PROVE m = n
  <2> DEFINE same == {p \in new : p.email = m.email}
  <2>1. Cardinality(same) = 1
    BY DEF Importing
  <2>2. IsFiniteSet(same)
    BY UpkeepAssumption, FS_Subset
  <2>3. PICK p : same = {p}
    BY <2>1, <2>2, FS_Singleton
  <2> QED BY <1>2, <2>3
<1>3. ASSUME NEW m \in new, NEW n \in new, m.id = n.id PROVE m = n
  BY <1>3, UpkeepAssumption
<1> QED BY <1>1, <1>2, <1>3

LEMMA ImportStep ==
  ASSUME UpkeepIInv, ImportUsers
  PROVE  UpkeepIInv'
<1>1. /\ boot = "insert" /\ boot' = "delete" /\ admin = Gone
      /\ known' = {} /\ UNCHANGED <<filed, admin, candidates>> /\ UpkeepTypeOK
  BY DEF ImportUsers, UpkeepIInv
<1>2. PICK new \in SUBSET OldUsers : Importing(new) /\ Insert(new)
  BY DEF ImportUsers
<1>3. CASE UNCHANGED <<person, expected>>
  BY <1>1, <1>3 DEF UpkeepIInv, UpkeepTypeOK, Left, Held, Boots
<1>4. CASE /\ \A o \in new : person[o.id] = Gone /\ o.email \notin Taken
           /\ person' = With(person, new) /\ expected' = With(expected, new)
  <2> DEFINE rows == {o.id : o \in new}
             Account(o) == [email |-> o.email, password |-> "old", active |-> o.active, fresh |-> TRUE]
  <2>1. \A o \in new : /\ person'[o.id] = Account(o) /\ expected'[o.id] = Account(o)
                       /\ Account(o) \in Person /\ o.id \in Ids /\ Account(o) # Gone
                       /\ Account(o).email = o.email
    <3> TAKE o \in new
    <3>1. o.id \in Ids /\ o.email \in Emails /\ o.active \in BOOLEAN
      BY <1>2, ImportedApart
    <3>2. Account(o) \in Person
      BY <3>1 DEF Person
    <3>3. (CHOOSE p \in new : p.id = o.id) = o
      BY <1>2, ImportedApart
    <3> QED BY <1>4, <3>1, <3>2, <3>3, UpkeepAssumption DEF With
  <2>2. \A i \in Ids : i \notin rows => person'[i] = person[i] /\ expected'[i] = expected[i]
    BY <1>4 DEF With
  <2>3. person' = [i \in Ids |-> person'[i]] /\ expected' = [i \in Ids |-> expected'[i]]
    BY <1>4 DEF With
  <2> HIDE DEF Account
  <2>4. UpkeepTypeOK'
    <3>1. \A i \in Ids : person'[i] \in Person \cup {Gone} /\ expected'[i] \in Person \cup {Gone}
      BY <1>1, <2>1, <2>2 DEF UpkeepTypeOK
    <3> HIDE DEF rows
    <3>2. /\ person' \in [Ids -> Person \cup {Gone}] /\ expected' \in [Ids -> Person \cup {Gone}]
      BY <2>3, <3>1
    <3> QED BY <1>1, <3>2 DEF UpkeepTypeOK, Boots
  <2>5. Held' = Held \cup rows
    BY <2>1, <2>2 DEF Held
  <2>6. \A i \in Ids : Left(i)'
    <3> TAKE i \in Ids
    <3>1. CASE i \in rows
      BY <2>1, <3>1 DEF Left
    <3>2. CASE i \notin rows
      <4>1. Left(i)
        BY <1>1, UpkeepAssumption DEF UpkeepIInv
      <4> QED BY <2>2, <3>2, <4>1 DEF Left
    <3> QED BY <3>1, <3>2
  <2>7. ASSUME NEW i \in Held', NEW j \in Held', person'[i].email = person'[j].email PROVE i = j
    <3>1. \A h \in Held : h \notin rows
      BY <1>4 DEF Held
    <3>2. \A h \in Held : person'[h] = person[h] /\ person[h].email \in Taken
      BY <2>2, <3>1 DEF Held, Taken
    <3>3. \A o \in new : person'[o.id].email = o.email /\ o.email \notin Taken
      BY <1>4, <2>1
    <3>4. CASE i \in Held /\ j \in Held
      BY <2>7, <3>2, <3>4 DEF UpkeepIInv
    <3>5. CASE i \in rows /\ j \in rows
      BY <1>2, <2>7, <3>3, <3>5, ImportedApart
    <3> QED BY <2>5, <2>7, <3>2, <3>3, <3>4, <3>5
  <2> QED BY <1>1, <2>4, <2>5, <2>6, <2>7 DEF UpkeepIInv
<1> QED BY <1>2, <1>3, <1>4 DEF Insert

LEMMA DeleteStep ==
  ASSUME UpkeepIInv, DeleteTestUsers
  PROVE  UpkeepIInv'
<1>1. /\ boot = "delete" /\ boot' = "get" /\ admin = Gone
      /\ UNCHANGED <<filed, known, admin, candidates, expected>> /\ UpkeepTypeOK
  BY DEF DeleteTestUsers, UpkeepIInv
<1>2. CASE person' = person
  BY <1>1, <1>2 DEF UpkeepIInv, UpkeepTypeOK, Left, Held, Boots
<1>3. CASE Listed \cap filed = {} /\ person' = [i \in Ids |-> IF i \in Listed THEN Gone ELSE person[i]]
  <2>1. UpkeepTypeOK'
    BY <1>1, <1>3 DEF UpkeepTypeOK, Boots
  <2>2. Held' = Held \ Listed
    BY <1>3 DEF Held, Listed
  <2>3. ASSUME NEW i \in Ids PROVE Left(i)'
    <3>1. Left(i)
      BY <1>1, UpkeepAssumption DEF UpkeepIInv
    <3> QED BY <1>1, <1>3, <3>1 DEF Left, Listed, Held
  <2>4. filed' \subseteq Held'
    BY <1>1, <1>3, <2>2 DEF UpkeepIInv
  <2>5. \A i, j \in Held' : person'[i].email = person'[j].email => i = j
    BY <1>3, <2>2 DEF UpkeepIInv, Held
  <2> QED BY <1>1, <2>1, <2>3, <2>4, <2>5 DEF UpkeepIInv
<1> QED BY <1>2, <1>3 DEF DeleteTestUsers

LEMMA AdminStep ==
  ASSUME UpkeepIInv, GetAdmin \/ PromoteAdmin
  PROVE  UpkeepIInv'
<1>1. CASE GetAdmin
  <2>1. /\ boot = "get" /\ boot' = "promote" /\ admin = Gone
        /\ UNCHANGED <<filed, known, candidates, expected>> /\ UpkeepTypeOK
    BY <1>1 DEF GetAdmin, UpkeepIInv
  <2>2. PICK i \in Ids :
          /\ admin' = i
          /\ person' = IF AdminEmail \in Taken THEN person
                       ELSE [person EXCEPT ![i] =
                              [email |-> AdminEmail, password |-> "own", active |-> TRUE, fresh |-> TRUE]]
          /\ IF AdminEmail \in Taken THEN i \in Held /\ person[i].email = AdminEmail ELSE i \in Unheld
    BY <1>1 DEF GetAdmin
  <2>3. \A j \in Ids : Left(j)
    BY <2>1, UpkeepAssumption DEF UpkeepIInv
  <2>4. CASE AdminEmail \in Taken
    BY <2>1, <2>2, <2>3, <2>4 DEF UpkeepIInv, UpkeepTypeOK, Left, Held, Boots
  <2>5. CASE AdminEmail \notin Taken
    <3> DEFINE new == [email |-> AdminEmail, password |-> "own", active |-> TRUE, fresh |-> TRUE]
    <3>0. AdminEmail \in Emails /\ Gone \notin Person
      BY UpkeepAssumption
    <3>1. new \in Person /\ new.email = AdminEmail /\ new # Gone
      <4>1. new \in Person /\ new.email = AdminEmail
        BY <3>0 DEF Person
      <4> HIDE DEF new
      <4> QED BY <3>0, <4>1
    <3>2. person' = [person EXCEPT ![i] = new]
      BY <2>2, <2>5
    <3> HIDE DEF new
    <3>3. UpkeepTypeOK'
      BY <2>1, <2>2, <3>1, <3>2 DEF UpkeepTypeOK, Boots
    <3>4. Held' = Held \cup {i}
      BY <2>1, <3>1, <3>2 DEF Held, UpkeepTypeOK
    <3>5. ASSUME NEW j \in Ids \ {admin'} PROVE Left(j)'
      BY <2>1, <2>2, <2>3, <3>2 DEF Left
    <3>6. ASSUME NEW j \in Held', NEW k \in Held', person'[j].email = person'[k].email PROVE j = k
      <4>1. \A h \in Held : person[h].email # AdminEmail
        BY <2>5 DEF Taken
      <4>2. person'[i] = new /\ \A h \in Ids : h # i => person'[h] = person[h]
        BY <2>1, <3>2 DEF UpkeepTypeOK
      <4>3. j \in Ids /\ k \in Ids /\ (j # i => j \in Held) /\ (k # i => k \in Held)
        BY <3>4, <3>6 DEF Held
      <4> QED BY <3>1, <3>6, <4>1, <4>2, <4>3 DEF UpkeepIInv
    <3> QED BY <2>1, <2>2, <3>3, <3>4, <3>5, <3>6 DEF UpkeepIInv
  <2> QED BY <2>4, <2>5
<1>2. CASE PromoteAdmin
  <2> DEFINE new == [person[admin] EXCEPT !.password = "secret", !.active = TRUE]
  <2>1. /\ boot = "promote" /\ boot' = "serving" /\ person' = [person EXCEPT ![admin] = new]
        /\ UNCHANGED <<filed, known, admin, candidates, expected>>
    BY <1>2 DEF PromoteAdmin
  <2>2. admin \in Ids /\ person[admin] \in Person /\ admin \in Held /\ Gone \notin Person
    BY <2>1, UpkeepAssumption DEF UpkeepIInv, UpkeepTypeOK, Held
  <2>3. new \in Person /\ new.email = person[admin].email
    BY <2>2 DEF Person
  <2> HIDE DEF new
  <2>4. UpkeepTypeOK'
    BY <2>1, <2>2, <2>3 DEF UpkeepIInv, UpkeepTypeOK, Boots
  <2>5. person'[admin] = new /\ \A j \in Ids : j # admin => person'[j] = person[j]
    BY <2>1, <2>2 DEF UpkeepIInv, UpkeepTypeOK
  <2>6. Held' = Held
    BY <2>2, <2>3, <2>5 DEF Held
  <2>7. \A j \in Held : person'[j].email = person[j].email /\ j \in Ids
    BY <2>3, <2>5 DEF Held
  <2>8. \A j \in Ids \ {admin'} : Left(j)'
    BY <2>1, <2>5 DEF UpkeepIInv, Left
  <2> QED BY <2>1, <2>4, <2>6, <2>7, <2>8 DEF UpkeepIInv
<1> QED BY <1>1, <1>2

LEMMA ReactivateStep ==
  ASSUME UpkeepIInv, NEW n \in Nat, Reactivate(n)
  PROVE  UpkeepIInv'
<1>1. /\ candidates' = {} /\ UNCHANGED <<filed, boot, known, admin>> /\ UpkeepTypeOK
      /\ Gone \notin Person
  BY UpkeepAssumption DEF Reactivate, UpkeepIInv
<1>2. CASE UNCHANGED <<person, expected>>
  BY <1>1, <1>2 DEF UpkeepIInv, UpkeepTypeOK, Left, Held
<1>3. CASE person' = Activated(person) /\ expected' = Activated(expected)
  <2>1. ASSUME NEW persons \in [Ids -> Person \cup {Gone}]
        PROVE  /\ Activated(persons) \in [Ids -> Person \cup {Gone}]
               /\ \A i \in Ids : /\ Activated(persons)[i] = Gone <=> persons[i] = Gone
                                 /\ persons[i] # Gone => Activated(persons)[i].email = persons[i].email
    <3>1. ASSUME NEW i \in Ids, persons[i] # Gone
          PROVE  /\ [persons[i] EXCEPT !.active = TRUE] \in Person
                 /\ [persons[i] EXCEPT !.active = TRUE].email = persons[i].email
      <4>1. persons[i] \in Person
        BY <3>1
      <4> QED BY <4>1 DEF Person
    <3> QED BY <1>1, <3>1 DEF Activated
  <2>2. /\ person' \in [Ids -> Person \cup {Gone}] /\ expected' \in [Ids -> Person \cup {Gone}]
        /\ \A i \in Ids : person'[i] = Gone <=> person[i] = Gone
        /\ \A i \in Ids : person[i] # Gone => person'[i].email = person[i].email
        /\ \A i \in Ids : expected'[i] = Gone <=> expected[i] = Gone
        /\ \A i \in Ids : expected[i] # Gone => expected'[i].email = expected[i].email
    BY <1>1, <1>3, <2>1 DEF UpkeepTypeOK
  <2>3. \A i \in Ids : person[i] = expected[i] => person'[i] = expected'[i]
    BY <1>3 DEF Activated
  <2>4. UpkeepTypeOK' /\ Held' = Held
    BY <1>1, <2>2 DEF UpkeepTypeOK, Held
  <2>5. ASSUME NEW i \in Ids \ {admin} PROVE Left(i)'
    <3>1. Left(i)
      BY DEF UpkeepIInv
    <3>2. CASE person[i] = expected[i]
      BY <2>3, <3>2 DEF Left
    <3>3. CASE person[i] # expected[i]
      BY <2>2, <3>1, <3>3 DEF Left
    <3> QED BY <3>2, <3>3
  <2>6. \A i, j \in Held' : person'[i].email = person'[j].email => i = j
    BY <2>2, <2>4 DEF UpkeepIInv, Held
  <2> QED BY <1>1, <2>4, <2>5, <2>6 DEF UpkeepIInv
<1> QED BY <1>2, <1>3 DEF Reactivate

LEMMA UpkeepInvariant == UpkeepSpec => []UpkeepIInv
<1>1. UpkeepIInv /\ [UpkeepNext]_upkeepVars => UpkeepIInv'
  <2> SUFFICES ASSUME UpkeepIInv, [UpkeepNext]_upkeepVars PROVE UpkeepIInv'
    OBVIOUS
  <2> USE DEF UpkeepIInv, UpkeepTypeOK, Left, Held, Boots
  <2>1. CASE UNCHANGED upkeepVars
    BY <2>1 DEF upkeepVars
  <2>2. CASE Boot
    BY <2>2 DEF Boot
  <2>3. CASE ReadEmails
    <3>1. Taken \subseteq Emails
      BY DEF Taken, Person
    <3> QED BY <2>3, <3>1 DEF ReadEmails
  <2>4. CASE ListInactive
    BY <2>4 DEF ListInactive
  <2>5. ASSUME NEW i \in Ids, FileRecord(i) PROVE UpkeepIInv'
    BY <2>5 DEF FileRecord, Active
  <2>6. ASSUME NEW n \in 0..Cardinality(Ids), Reactivate(n) PROVE UpkeepIInv'
    BY <2>6, ReactivateStep
  <2> QED
    BY <2>1, <2>2, <2>3, <2>4, <2>5, <2>6, ImportStep, DeleteStep, AdminStep, HolderStep DEF UpkeepNext
<1> QED BY <1>1, UpkeepStart, PTL DEF UpkeepSpec

\* Through any start of the web process, and whatever is registered and changed
\* between its steps: no account but the administrator's is other than its
\* holder, the staff or the operator left it, except test users deleted; none
\* with records is deleted, and no two accounts have one e-mail.
THEOREM StartsLeaveAccounts == UpkeepSpec => [](UpkeepTypeOK /\ LeftUntouched)
<1>1. UpkeepIInv => UpkeepTypeOK /\ LeftUntouched
  BY DEF UpkeepIInv, LeftUntouched, Left
<1> QED BY <1>1, UpkeepInvariant, PTL
-----------------------------------------------------------------------------
(* The parts of MCPlatform, side by side.                                      *)

\* A behaviour of the parts together is one of each.
LEMMA EveryPart ==
  PlatformSpec => /\ Spec /\ SamplesSpec /\ PartnerSpec /\ MembershipSpec /\ ProcessingSpec
                  /\ RegistersSpec /\ DashSpec /\ UpkeepSpec
<1>1. PlatformInit => /\ Init /\ SamplesInit /\ PartnerInit /\ MembershipInit /\ ProcessingInit
                      /\ RegistersInit /\ DashInit /\ UpkeepInit
  BY DEF PlatformInit
<1>2. [PlatformNext]_platformVars => [SamplesNext]_recordVars
  BY DEF PlatformNext, platformVars
<1>3. [PlatformNext]_platformVars => [PartnerNext]_partnerVars
  BY DEF PlatformNext, platformVars
<1>4. [PlatformNext]_platformVars => [MembershipNext]_memberVars
  BY DEF PlatformNext, platformVars
<1>5. [PlatformNext]_platformVars => [ProcessingNext]_processingVars
  BY DEF PlatformNext, platformVars
<1>6. [PlatformNext]_platformVars => [RegistersNext]_registerVars
  BY DEF PlatformNext, platformVars
<1>7. [PlatformNext]_platformVars => [UpkeepNext]_upkeepVars
  BY DEF PlatformNext, platformVars
<1>8. [PlatformNext]_platformVars => [Next]_vars
  BY DEF PlatformNext, platformVars
<1>9. [PlatformNext]_platformVars => [DashNext]_dashVars
  BY DEF PlatformNext, platformVars
<1> QED
  BY <1>1, <1>2, <1>3, <1>4, <1>5, <1>6, <1>7, <1>8, <1>9, PTL
     DEF PlatformSpec, Spec, SamplesSpec, PartnerSpec, MembershipSpec, ProcessingSpec, RegistersSpec,
         DashSpec, UpkeepSpec

\* A behaviour keeps to one part.
LEMMA OnePart == PlatformSpec =>
  [](part \in {"vault", "samples", "partner", "members", "processing", "registers", "dashboards", "upkeep"})
<1> DEFINE Parts == {"vault", "samples", "partner", "members", "processing", "registers", "dashboards", "upkeep"}
<1>1. PlatformInit => part \in Parts
  BY DEF PlatformInit
<1>2. part \in Parts /\ [PlatformNext]_platformVars => (part \in Parts)'
  BY DEF PlatformNext, platformVars
<1> QED BY <1>1, <1>2, PTL DEF PlatformSpec

\* Whichever part moves, its state is of its type.
THEOREM PlatformTypeCorrect == PlatformSpec => []PlatformTypeOK
<1> DEFINE Types ==
      /\ VaultTypeOK /\ SamplesTypeOK /\ PartnerTypeOK /\ MembershipTypeOK /\ ProcessingTypeOK
      /\ RegistersTypeOK /\ DashTypeOK /\ UpkeepTypeOK
<1>1. part \in {"vault", "samples", "partner", "members", "processing", "registers", "dashboards", "upkeep"}
        /\ Types => PlatformTypeOK
  BY DEF PlatformTypeOK
<1>2. UpkeepIInv => UpkeepTypeOK
  BY DEF UpkeepIInv
<1> QED
  BY <1>1, <1>2, EveryPart, OnePart, VaultTypeCorrect, CertifiedOnce, WhatWasSubmittedStays, MembersWereLetIn,
     ProcessingTypeCorrect, RowsStaySound, DashTypeCorrect, UpkeepInvariant, PTL

\* Beside the vault and the dashboards: whoever may act for an organisation was
\* let in, and a start of the web process leaves the accounts to their holders.
THEOREM PeopleAreSafe == PlatformSpec => []PeopleHold
<1>1. MembershipHolds /\ LeftUntouched => PeopleHold
  BY DEF PeopleHold
<1> QED BY <1>1, EveryPart, MembersWereLetIn, StartsLeaveAccounts, PTL

\* And so, beside everything else, do the records: certificates, submitted
\* applications and the registers.
THEOREM RecordsAreSafe == PlatformSpec => [](RecordsHold /\ SubmittedIsFrozen /\ RegistersAgree)
BY EveryPart, CertifiedOnce, WhatWasSubmittedStays, RowsStaySound, PTL

\* And the processing desk's decisions and register entries.
THEOREM DecisionsAreSafe == PlatformSpec => DecisionHolds
BY EveryPart, DecisionsStand, PTL

\* And the dashboards' readings, whichever day they are taken on.
THEOREM ReadingsStand == PlatformSpec => ReadingsAgree
<1>1. [PastMonthsStand(ProcessingTrend)]_dashVars => [part = "dashboards" => PastMonthsStand(ProcessingTrend)]_dashVars
  OBVIOUS
<1>2. TrendIsComplete /\ RegionsAddUp => (part = "dashboards" => TrendIsComplete /\ RegionsAddUp)
  OBVIOUS
<1> QED BY <1>1, <1>2, EveryPart, ReadingsAreRight, ApprovalsKeepTheirMonth, PTL DEF ReadingsAgree, ApprovalsStand
=============================================================================
