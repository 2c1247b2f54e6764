------------------------------ MODULE Requests ------------------------------
(***************************************************************************)
(* Requests as sendRequest of src/request.ts makes them.  A slot awaits at *)
(* most one request, which is sent again after a timeout, a transport      *)
(* error or a retryable status while its policy has attempts left.  The    *)
(* service may act on an attempt whose answer is lost, and, where late is  *)
(* TRUE, on one that the client has given up.  Preparation of an attempt   *)
(* (signing, credentials) and the delay before it are part of sending.     *)
(***************************************************************************)
EXTENDS Integers, FiniteSets

CONSTANTS
  Slots,     \* places in the clients' code that await a request
  MaxTries,  \* policy.retries + 1
  NoRequest  \* the slot awaits nothing

ASSUME RequestsAssumption == MaxTries \in Nat \ {0}

VARIABLES
  req,  \* slot -> the request it awaits and the number of its last attempt
  net   \* the attempts the service may still act on

requestVars == <<req, net>>

Awaits(s) == req[s] # NoRequest

LastAttempt(s) == [slot |-> s, try |-> req[s].try, msg |-> req[s].msg]

RequestInit ==
  /\ req = [s \in Slots |-> NoRequest]
  /\ net = {}

Send(s, msg) ==
  /\ ~Awaits(s)
  /\ req' = [req EXCEPT ![s] = [try |-> 1, msg |-> msg]]
  /\ net' = net \cup {[slot |-> s, try |-> 1, msg |-> msg]}

\* The service acts on attempt a and its slot gets the answer.
Answer(a) ==
  /\ a \in net /\ Awaits(a.slot) /\ a = LastAttempt(a.slot)
  /\ net' = net \ {a}
  /\ req' = [req EXCEPT ![a.slot] = NoRequest]

\* The service acts on attempt a and nobody learns of it.
Unanswered(a) == a \in net /\ net' = net \ {a} /\ UNCHANGED req

\* What is under way once the last attempt of s is given up.
Abandoned(s, late) == IF late THEN net ELSE net \ {LastAttempt(s)}

\* A timeout, a transport error or a retryable status, and another attempt.
Resend(s, late) ==
  /\ Awaits(s) /\ req[s].msg.retry /\ req[s].try < MaxTries
  /\ LET again == [LastAttempt(s) EXCEPT !.try = @ + 1] IN
     /\ req' = [req EXCEPT ![s].try = @ + 1]
     /\ net' = Abandoned(s, late) \cup {again}

\* The request fails: the caller's signal fires, or it was the last attempt.
\* A failure that is not retryable needs no further attempt.
GiveUp(s, late) ==
  /\ Awaits(s)
  /\ req' = [req EXCEPT ![s] = NoRequest]
  /\ net' = Abandoned(s, late)
=============================================================================
