----------------------------- MODULE AccountCodes -----------------------------
(***************************************************************************)
(* One-time codes of one account: email verification, phone verification,  *)
(* and the recovery codes of password reset and change of address.         *)
(*                                                                         *)
(* Issuing checks its budget before its transaction, and invalidates the   *)
(* earlier codes its snapshot shows before it adds its own.  An email      *)
(* attempt holds the account's row from its budget check on; a phone or    *)
(* recovery attempt checks its budget first and locks the code later.      *)
(* Codes age in the order they were issued; Celery sends each one's mail.  *)
(***************************************************************************)
EXTENDS Naturals, Sequences, FiniteSets, FiniteSetsExt, Functions

CONSTANTS
  Clients,                      \* requests that can overlap
  OTP_MAX_ATTEMPTS,
  OTP_MAX_ISSUES_PER_WINDOW,
  OTP_MAX_FAILURES_PER_WINDOW,
  MaxCodes                      \* bound: codes issued in a behaviour

VARIABLES
  purpose,   \* the kind of code followed
  codes,     \* the account's codes of that kind, in order of issue
  verified,  \* the account's address is verified
  step       \* [Clients -> what the request has got to]

codeVars == <<purpose, codes, verified, step>>

-----------------------------------------------------------------------------
\* `passed` counts the requests a code let through.
Code == [failed : 0..OTP_MAX_ATTEMPTS, consumed : BOOLEAN, expired : BOOLEAN, recent : BOOLEAN,
         passed : Nat, mail : {"queued", "sent", "skipped"}]
Purpose == {"email", "phone", "recovery"}

ASSUME CodesAssumption ==
  /\ OTP_MAX_ATTEMPTS \in Nat \ {0} /\ OTP_MAX_ISSUES_PER_WINDOW \in Nat \ {0}
  /\ OTP_MAX_FAILURES_PER_WINDOW \in Nat \ {0} /\ MaxCodes \in Nat

Recent == {i \in DOMAIN codes : codes[i].recent}
Failures == SumFunction([i \in Recent |-> codes[i].failed])
Exhausted == Failures >= OTP_MAX_FAILURES_PER_WINDOW
Unconsumed == {i \in DOMAIN codes : ~codes[i].consumed}

Goes(c, s) == step' = [step EXCEPT ![c] = s]

-----------------------------------------------------------------------------
IssueBegin(c) ==
  /\ step[c] = "idle" /\ Cardinality(Recent) < OTP_MAX_ISSUES_PER_WINDOW
  /\ purpose = "email" => ~verified
  /\ Goes(c, "issuing") /\ UNCHANGED <<purpose, codes, verified>>

IssueConsume(c) ==
  /\ step[c] = "issuing"
  /\ codes' = [i \in DOMAIN codes |-> [codes[i] EXCEPT !.consumed = TRUE]]
  /\ Goes(c, "creating") /\ UNCHANGED <<purpose, verified>>

IssueCreate(c) ==
  /\ step[c] = "creating" /\ Len(codes) < MaxCodes
  /\ codes' = Append(codes, [failed |-> 0, consumed |-> FALSE, expired |-> FALSE,
                             recent |-> TRUE, passed |-> 0, mail |-> "queued"])
  /\ Goes(c, "idle") /\ UNCHANGED <<purpose, verified>>

\* The worker sends the code, unless the address is verified by then.
SendCode(i) ==
  /\ i \in DOMAIN codes /\ codes[i].mail = "queued"
  /\ codes' = [codes EXCEPT ![i].mail = IF purpose = "email" /\ verified THEN "skipped" ELSE "sent"]
  /\ UNCHANGED <<purpose, verified, step>>

-----------------------------------------------------------------------------
AttemptBegin(c) ==
  /\ step[c] = "idle"
  /\ purpose = "email" \/ ~Exhausted
  /\ Goes(c, "attempting") /\ UNCHANGED <<purpose, codes, verified>>

\* The most recent code nobody consumed; it is spent by the right answer, by
\* its last wrong one, and by any answer that comes too late.
Usable(i) == ~codes[i].expired /\ codes[i].failed < OTP_MAX_ATTEMPTS
Spent(i, right) ==
  [codes EXCEPT
    ![i].passed = IF Usable(i) /\ right THEN @ + 1 ELSE @,
    ![i].failed = IF Usable(i) /\ ~right THEN @ + 1 ELSE @,
    ![i].consumed = ~Usable(i) \/ right \/ codes[i].failed + 1 = OTP_MAX_ATTEMPTS]

Answer(c, right) ==
  LET i == Max(Unconsumed) IN
  /\ codes' = Spent(i, right)
  /\ verified' = (verified \/ (Usable(i) /\ right /\ purpose = "email"))
  /\ Goes(c, "idle") /\ UNCHANGED purpose

AttemptSave(c, right) ==
  /\ step[c] = "attempting" /\ Unconsumed # {}
  /\ purpose = "email" => ~verified /\ ~Exhausted
  /\ Answer(c, right)

AttemptRefused(c) ==
  /\ step[c] = "attempting"
  /\ Unconsumed = {} \/ (purpose = "email" /\ (verified \/ Exhausted))
  /\ Goes(c, "idle") /\ UNCHANGED <<purpose, codes, verified>>

-----------------------------------------------------------------------------
\* A code outlives its ten minutes, and later the hour of the budgets.
Expire(i) ==
  /\ i \in DOMAIN codes /\ ~codes[i].expired /\ \A j \in 1..(i - 1) : codes[j].expired
  /\ codes' = [codes EXCEPT ![i].expired = TRUE]
  /\ UNCHANGED <<purpose, verified, step>>

LeaveWindow(i) ==
  /\ i \in Recent /\ codes[i].expired /\ \A j \in 1..(i - 1) : ~codes[j].recent
  /\ codes' = [codes EXCEPT ![i].recent = FALSE]
  /\ UNCHANGED <<purpose, verified, step>>

CodesInit ==
  /\ purpose \in Purpose /\ codes = <<>> /\ verified = FALSE
  /\ step = [c \in Clients |-> "idle"]

CodesNext ==
  \/ \E c \in Clients :
       \/ IssueBegin(c) \/ IssueConsume(c) \/ IssueCreate(c)
       \/ AttemptBegin(c) \/ AttemptRefused(c)
       \/ \E right \in BOOLEAN : AttemptSave(c, right)
  \/ \E i \in 1..MaxCodes : SendCode(i) \/ Expire(i) \/ LeaveWindow(i)

CodesSpec == CodesInit /\ [][CodesNext]_codeVars

-----------------------------------------------------------------------------
CodesTypeOK ==
  /\ purpose \in Purpose /\ verified \in BOOLEAN
  /\ codes \in Seq(Code) /\ Len(codes) <= MaxCodes
  /\ step \in [Clients -> {"idle", "issuing", "creating", "attempting"}]

\* However requests overlap and however many codes are issued, a code lets
\* one request through at most, takes no more wrong answers than its own
\* limit, and the wrong answers to an address's codes stay within the budget
\* of the window.
CodesBounded ==
  /\ \A i \in DOMAIN codes :
       /\ codes[i].passed <= 1
       /\ codes[i].failed <= OTP_MAX_ATTEMPTS
       /\ codes[i].passed = 1 => codes[i].consumed
  /\ purpose = "email" => Failures <= OTP_MAX_FAILURES_PER_WINDOW

\* "Invalidate previous codes": one code is live at a time.
OneLiveCode == Cardinality(Unconsumed) <= 1
=============================================================================
