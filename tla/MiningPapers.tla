---------------------------- MODULE MiningPapers ----------------------------
(***************************************************************************)
(* The papers a miner files and the information requests the mining desk   *)
(* raises about them.  A paper is never edited: a new copy replaces it and *)
(* retires the old one, either directly or as the answer to a request.     *)
(*                                                                         *)
(* Judging, replacing, answering and amending a request check a row they   *)
(* have not locked and write it later in the same request, so each is two  *)
(* actions here; the writes name their columns (update_fields), so only    *)
(* those change, except for a PATCH, which saves all it read.  Files are   *)
(* left out: every copy has one.  A reply carries at most one file;    *)
(* several are that reply repeated, each replacing the one before.  At     *)
(* most one review and one replacement are under way at a time.            *)
(***************************************************************************)
EXTENDS Naturals, FiniteSets

CONSTANTS
  MaxCopies,          \* the copies filed: their number is their order
  Names,              \* what a paper is: all copies of one paper share it
  OrganisationNames,  \* ORGANISATION_DOCUMENT_NAMES
  Reply,              \* the name of a paper filed with an answer
  Asks,               \* the information requests that can be raised
  NoCopy

VARIABLES
  paper,      \* [Copies -> state, name, the copy it replaces]
  ask,        \* [Asks -> status, the copy it asks to replace]
  judging,    \* the copy a reviewer has found not replaced, or NoCopy
  replacing,  \* the copy its filer has found not replaced, or NoCopy
  answering,  \* [Asks -> what an answer has read of it]
  patching    \* [Asks -> what a PATCH has read of it]

papersVars == <<paper, ask, judging, replacing, answering, patching>>

Copies == 1..MaxCopies
PaperState == {"unfiled", "pending", "verified", "rejected", "superseded"}
AskStatus == {"none", "open", "responded", "closed"}
Paper == [state : PaperState, name : Names, replaces : Copies \cup {NoCopy}]
InfoRequest == [status : AskStatus, copy : Copies \cup {NoCopy}]
Idle == [status |-> "none", copy |-> NoCopy]

ASSUME PapersAssumption ==
  /\ OrganisationNames \subseteq Names /\ Reply \in Names \ OrganisationNames
  /\ MaxCopies \in Nat /\ NoCopy \notin Nat

PapersTypeOK ==
  /\ paper \in [Copies -> Paper]
  /\ ask \in [Asks -> InfoRequest]
  /\ judging \in Copies \cup {NoCopy} /\ replacing \in Copies \cup {NoCopy}
  /\ answering \in [Asks -> InfoRequest] /\ patching \in [Asks -> InfoRequest]

-----------------------------------------------------------------------------
Unfiled == {c \in Copies : paper[c].state = "unfiled"}
Filed == Copies \ Unfiled
Coming(c) == c \in Unfiled /\ c - 1 \notin Unfiled
Judgeable == {c \in Filed : paper[c].state # "superseded"}
Live(n) == {c \in Judgeable : paper[c].name = n}
OnOrganisation == {c \in Judgeable : paper[c].name \in OrganisationNames}
OnSite == Judgeable \ OnOrganisation
Unclosed(c) == {q \in Asks : ask[q].status \in {"open", "responded"} /\ ask[q].copy = c}

\* What MiningDesk reads: readiness and site_blockers.
Ready(S) == S # {} /\ \A c \in S : paper[c].state = "verified"
PapersGate == [org |-> Ready(OnOrganisation), site |-> Ready(OnSite)]

New(n, old) == [state |-> "pending", name |-> n, replaces |-> old]
Replacement(old, new) ==
  [paper EXCEPT ![new] = New(paper[old].name, old), ![old].state = "superseded"]

FilePaper(c, n) ==
  /\ Coming(c)
  /\ paper' = [paper EXCEPT ![c] = New(n, NoCopy)]
  /\ UNCHANGED <<ask, judging, replacing, answering, patching>>

JudgeBegin(c) ==
  /\ c \in Judgeable /\ judging = NoCopy
  /\ judging' = c
  /\ UNCHANGED <<paper, ask, replacing, answering, patching>>

\* Verified: every request about the copy is closed.
AcceptCopy(c) ==
  /\ judging = c
  /\ judging' = NoCopy
  /\ paper' = [paper EXCEPT ![c].state = "verified"]
  /\ ask' = [q \in Asks |-> IF q \in Unclosed(c) THEN [ask[q] EXCEPT !.status = "closed"] ELSE ask[q]]
  /\ UNCHANGED <<replacing, answering, patching>>

\* Fault: an answer already given is left to stand for the next one.
AnswersStand(c) == ask

\* Rejected: what was asked about the copy is asked again, else asked now.
Reopened(c) == [q \in Asks |-> IF q \in Unclosed(c) THEN [ask[q] EXCEPT !.status = "open"] ELSE ask[q]]
Refuse(c) ==
  /\ judging = c
  /\ judging' = NoCopy
  /\ paper' = [paper EXCEPT ![c].state = "rejected"]
  /\ IF Unclosed(c) # {} THEN ask' = Reopened(c)
     ELSE \E q \in Asks : ask[q] = Idle /\ ask' = [ask EXCEPT ![q] = [status |-> "open", copy |-> c]]
  /\ UNCHANGED <<replacing, answering, patching>>

ReplaceBegin(c) ==
  /\ c \in Judgeable /\ replacing = NoCopy
  /\ replacing' = c
  /\ UNCHANGED <<paper, ask, judging, answering, patching>>

\* The new copy answers every request about the old one.
Replace(old, new) ==
  /\ replacing = old /\ Coming(new)
  /\ replacing' = NoCopy
  /\ paper' = Replacement(old, new)
  /\ ask' = [q \in Asks |-> IF q \in Unclosed(old) THEN [status |-> "responded", copy |-> new] ELSE ask[q]]
  /\ UNCHANGED <<judging, answering, patching>>

-----------------------------------------------------------------------------
RaiseAsk(q, c) ==
  /\ ask[q] = Idle
  /\ ask' = [ask EXCEPT ![q] = [status |-> "open", copy |-> c]]
  /\ UNCHANGED <<paper, judging, replacing, answering, patching>>

\* A PATCH may point a request at another paper of the organisation; the status
\* is not a column it may send, but it is saved as it was read.
AmendAskBegin(q) ==
  /\ ask[q].status # "none" /\ patching[q] = Idle
  /\ patching' = [patching EXCEPT ![q] = ask[q]]
  /\ UNCHANGED <<paper, ask, judging, replacing, answering>>

AmendAsk(q, c) ==
  /\ patching[q] # Idle
  /\ ask' = [ask EXCEPT ![q] = [status |-> patching[q].status, copy |-> c]]
  /\ patching' = [patching EXCEPT ![q] = Idle]
  /\ UNCHANGED <<paper, judging, replacing, answering>>

AnswerBegin(q) ==
  /\ ask[q].status \in {"open", "responded"} /\ answering[q] = Idle
  /\ answering' = [answering EXCEPT ![q] = ask[q]]
  /\ UNCHANGED <<paper, ask, judging, replacing, patching>>

\* An answer in words moves the request alone.
AnswerInWords(q) ==
  /\ answering[q] # Idle
  /\ ask' = [ask EXCEPT ![q].status = "responded"]
  /\ answering' = [answering EXCEPT ![q] = Idle]
  /\ UNCHANGED <<paper, judging, replacing, patching>>

\* A file replaces the paper the request was read to name; this request moves
\* to the new copy, others about the old one do not.
AnswerWithFile(q, new) ==
  /\ answering[q] # Idle /\ Coming(new)
  /\ LET old == answering[q].copy IN
       IF old = NoCopy
       THEN /\ paper' = [paper EXCEPT ![new] = New(Reply, NoCopy)]
            /\ ask' = [ask EXCEPT ![q].status = "responded"]
       ELSE /\ paper' = Replacement(old, new)
            /\ ask' = [ask EXCEPT ![q] = [status |-> "responded", copy |-> new]]
  /\ answering' = [answering EXCEPT ![q] = Idle]
  /\ UNCHANGED <<judging, replacing, patching>>

CloseAsk(q) ==
  /\ ask[q].status \in {"open", "responded"}
  /\ ask' = [ask EXCEPT ![q].status = "closed"]
  /\ UNCHANGED <<paper, judging, replacing, answering, patching>>

-----------------------------------------------------------------------------
PapersInit ==
  /\ paper \in [Copies -> {[state |-> "unfiled", name |-> Reply, replaces |-> NoCopy]}]
  /\ ask = [q \in Asks |-> Idle]
  /\ judging = NoCopy /\ replacing = NoCopy
  /\ answering = [q \in Asks |-> Idle] /\ patching = [q \in Asks |-> Idle]

Judge(c) == JudgeBegin(c) \/ AcceptCopy(c) \/ Refuse(c)
Answer(q) == AnswerBegin(q) \/ AnswerInWords(q) \/ \E new \in Copies : AnswerWithFile(q, new)

PapersNext ==
  \/ \E c \in Copies :
       \/ \E n \in Names \ {Reply} : FilePaper(c, n)
       \/ Judge(c) \/ ReplaceBegin(c)
       \/ \E new \in Copies : Replace(c, new)
  \/ \E q \in Asks :
       \/ \E c \in Filed \cup {NoCopy} : RaiseAsk(q, c) \/ AmendAsk(q, c)
       \/ AmendAskBegin(q) \/ Answer(q) \/ CloseAsk(q)

PapersSpec == PapersInit /\ [][PapersNext]_papersVars

-----------------------------------------------------------------------------
\* A paper once filed never runs out of copies that count: the copy that
\* retires another is itself judged, also when a review, a replacement and an
\* answer about the same paper overlap.
PaperNeverLost == \A c \in Filed : Live(paper[c].name) # {}

\* A rejection reaches the miner in the same step as an open request about
\* that very copy, whether one was raised before or not.
RejectionAsks ==
  [][\A c \in Copies : paper[c].state # "rejected" /\ paper'[c].state = "rejected" =>
       \E q \in Asks : ask'[q] = [status |-> "open", copy |-> c]]_papersVars

\* Both, of the papers of a desk on which reviews, replacements and answers
\* overlap: none is lost and no rejection goes unannounced.
PapersHold == []PaperNeverLost /\ RejectionAsks

\* What the model's comment says of a replaced copy: it counts no more.
ReplacedCountsForNothing ==
  \A c, d \in Filed : paper[d].replaces = c => paper[c].state = "superseded"
=============================================================================
