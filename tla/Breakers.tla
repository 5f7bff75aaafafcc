------------------------------ MODULE Breakers ------------------------------
(***************************************************************************)
(* The circuit breaker of one authority (requests.rs) and those who call   *)
(* it: Deliver jobs, which are tried again (jobs/deliver.rs), fetches,     *)
(* which are not, and the signature verifier, which resets it              *)
(* (middleware/verifier.rs).  A call reads the breaker, lets go of it, and *)
(* writes it when the answer is there; other calls run in between.         *)
(* Breakers of different authorities share nothing.                        *)
(***************************************************************************)
EXTENDS Integers, FiniteSets

CONSTANTS
  Calls,        \* slots for calls in progress
  Threshold,    \* FAILURE_THRESHOLD, 10 in the code
  Wait,         \* FAILURE_WAIT, a day in the code, in ticks
  MaxTries,     \* MAX_RETRIES of Deliver, 3 in the code
  Strategies,   \* bound: the strategies of the calls made
  MaxFailures   \* bound: no call begins at this many failures

\* BreakerStrategy: the classes of answer each tolerates.  "401" stands for 300 to
\* 401, "404" for 402 to 404.
Tolerates == [Require2XX |-> {"2xx"},
              Allow401AndBelow |-> {"2xx", "401"},
              Allow404AndBelow |-> {"2xx", "401", "404"}]

\* What execute gives: a class of status, or no response at all.
Answers == {"2xx", "401", "404", "5xx", "none"}

ASSUME BreakersAssumption ==
  /\ IsFiniteSet(Calls)
  /\ Threshold \in Nat \ {0}
  /\ Wait \in Nat
  /\ MaxTries \in Nat
  /\ Strategies \subseteq DOMAIN Tolerates
  /\ MaxFailures \in Nat

VARIABLES
  failures,  \* Breaker::failures; an authority without a breaker has 0
  age,       \* ticks since Breaker::last_attempt, Wait + 1 for any more
  calls,     \* the calls in progress
  window     \* history: the failures there were when the wait was last over

vars == <<failures, age, calls, window>>

NoCall == [pc |-> "idle"]
Call == [pc : {"ask", "sent"}, strategy : DOMAIN Tolerates, tries : 0..MaxTries]

TypeOK ==
  /\ failures \in Nat
  /\ age \in 0..(Wait + 1)
  /\ calls \in [Calls -> Call \cup {NoCall}]
  /\ window \in Nat

Init ==
  /\ failures = 0
  /\ age = 0
  /\ calls = [c \in Calls |-> NoCall]
  /\ window = 0

-----------------------------------------------------------------------------
(* The breaker. *)

ShouldTry == failures < Threshold \/ age > Wait

\* A fail that leaves last_attempt alone.
FailUndated ==
  /\ failures' = failures + 1
  /\ UNCHANGED <<age, window>>

Fail ==
  /\ failures' = failures + 1
  /\ age' = 0
  /\ UNCHANGED window

Succeed ==
  /\ failures' = 0
  /\ age' = 0
  /\ window' = 0

Leave == UNCHANGED <<failures, age, window>>

-----------------------------------------------------------------------------
(* The calls. *)

Begin(c, strategy) ==
  /\ calls[c] = NoCall
  /\ failures < MaxFailures
  /\ calls' = [calls EXCEPT ![c] = [pc |-> "ask", strategy |-> strategy, tries |-> 0]]
  /\ Leave

\* An Ask whose refusal counts as an attempt.
AskDated(c) ==
  /\ calls[c].pc = "ask"
  /\ calls' = [calls EXCEPT ![c] = IF ShouldTry THEN [@ EXCEPT !.pc = "sent"] ELSE NoCall]
  /\ age' = IF ShouldTry THEN age ELSE 0
  /\ UNCHANGED <<failures, window>>

\* should_try.  A call that is refused is over: a fetch returns the error, and
\* Deliver takes it for success and is not tried again.
Ask(c) ==
  /\ calls[c].pc = "ask"
  /\ calls' = [calls EXCEPT ![c] = IF ShouldTry THEN [@ EXCEPT !.pc = "sent"] ELSE NoCall]
  /\ Leave

\* The retries that are left are counted before this one.
RetriesOnceMore(c) == calls[c].strategy = "Allow401AndBelow" /\ calls[c].tries <= MaxTries

\* Only Deliver allows 401 and below, and only Deliver is tried again.
Retries(c) == calls[c].strategy = "Allow401AndBelow" /\ calls[c].tries < MaxTries

\* A Failed that does not count the retry.
FailedUncounted(c) ==
  calls' = [calls EXCEPT ![c] = IF Retries(c) THEN [@ EXCEPT !.pc = "ask"] ELSE NoCall]

\* The call has failed: Deliver asks again later, a fetch is over.
Failed(c) ==
  calls' = [calls EXCEPT ![c] =
    IF Retries(c) THEN [@ EXCEPT !.pc = "ask", !.tries = calls[c].tries + 1] ELSE NoCall]

\* check_response.  Only a 2xx closes the breaker; an answer that is tolerated
\* and no more leaves it as it is.
CheckResponse(c, answer) ==
  /\ calls[c].pc = "sent"
  /\ IF answer \in Tolerates[calls[c].strategy]
     THEN /\ IF answer = "2xx" THEN Succeed ELSE Leave
          /\ calls' = [calls EXCEPT ![c] = NoCall]
     ELSE Fail /\ Failed(c)

\* Signing fails after should_try and before the request is sent.
SignFails(c) ==
  /\ calls[c].pc = "sent"
  /\ Failed(c)
  /\ Leave

\* MyVerify::verify: a signed request names a key of the authority.
ResetBreaker == Succeed /\ UNCHANGED calls

-----------------------------------------------------------------------------
\* Time passes.
Tick ==
  /\ age <= Wait
  /\ age' = age + 1
  /\ window' = IF age = Wait THEN failures ELSE window
  /\ UNCHANGED <<failures, calls>>

\* The process is restarted: breakers and calls are in memory.
Restart == calls' = [c \in Calls |-> NoCall] /\ Succeed

CallStep(c) == \/ Ask(c) \/ SignFails(c)
               \/ \E answer \in Answers : CheckResponse(c, answer)

Next == \/ \E c \in Calls, strategy \in Strategies : Begin(c, strategy)
        \/ \E c \in Calls : CallStep(c)
        \/ ResetBreaker
        \/ Tick
        \/ Restart

Spec == Init /\ [][Next]_vars

\* Time passes, and every call is polled until it has its answer.
FairSpec == Spec /\ WF_vars(Tick) /\ \A c \in Calls : WF_vars(CallStep(c))

-----------------------------------------------------------------------------
(* Properties *)

Sent == {c \in Calls : calls[c].pc = "sent"}

\* Though should_try is not held while the request runs, an authority that never
\* answers is sent at most one request per slot beyond the threshold, and at most
\* one per slot each time the wait is over.
AttemptsBounded ==
  LET allowed == IF window < Threshold THEN Threshold - 1 ELSE window
  IN failures + Cardinality(Sent) <= allowed + Cardinality(Calls)

\* A breaker that refuses does not refuse for ever, however often it is asked.
TriesAgain == ~ShouldTry ~> ShouldTry

\* Every call comes to an end: a Deliver is tried a limited number of times.
CallsEnd == \A c \in Calls : calls[c].pc # "idle" ~> calls[c].pc = "idle"
=============================================================================
