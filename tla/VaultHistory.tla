---------------------------- MODULE VaultHistory ----------------------------
(***************************************************************************)
(* What the document vault promises: every document is a single line of    *)
(* numbered versions, each with a new file for the same owner, and a       *)
(* version is confirmed once, by another person than its uploader.         *)
(* Nothing is changed or removed.  Vault implements this specification.    *)
(***************************************************************************)
EXTENDS Naturals

CONSTANTS Lines, Owners, Files, Users

VARIABLES
  versions,  \* every version ever stored
  confirmed  \* confirmations: the line and number, and who confirmed it

vars == <<versions, confirmed>>

Init == versions = {} /\ confirmed = {}

Version == [line : Lines, number : Nat \ {0}, owner : Owners, file : Files, by : Users]

Store(new) == versions' = versions \cup {new} /\ UNCHANGED confirmed

Start(new) ==
  /\ new.number = 1 /\ ~ \E v \in versions : v.line = new.line
  /\ Store(new)

Extend(new) ==
  /\ ~ \E v \in versions : v.line = new.line /\ v.number = new.number
  /\ \E v \in versions :
       /\ v.line = new.line /\ v.number + 1 = new.number
       /\ v.owner = new.owner /\ v.file # new.file
  /\ Store(new)

Confirm(new) ==
  /\ new.by \in Users
  /\ \E v \in versions :
       v.by # new.by /\ new = [line |-> v.line, number |-> v.number, by |-> new.by]
  /\ ~ \E c \in confirmed : c.line = new.line /\ c.number = new.number
  /\ confirmed' = confirmed \cup {new} /\ UNCHANGED versions

Next ==
  \/ \E new \in versions' : new \in Version /\ (Start(new) \/ Extend(new))
  \/ \E new \in confirmed' : Confirm(new)

Spec == Init /\ [][Next]_vars

=============================================================================
