----------------------------- MODULE Dispatcher -----------------------------
(***************************************************************************)
(* The HTTP dispatcher that Cloud Tasks and Pub/Sub push deliver with:     *)
(* internal/dispatch/dispatcher.go.  A call of Dispatch posts its body     *)
(* until it is answered with a 2xx, the attempts are used up or the        *)
(* context is cancelled.                                                   *)
(*                                                                         *)
(* A POST is two steps, its sending and its answer, so that the target may *)
(* have it when the answer is lost or the context ends.  Durations are in  *)
(* whole seconds.                                                          *)
(***************************************************************************)
EXTENDS Naturals

CONSTANTS
  Callers,        \* the goroutines that dispatch at a time
  Config          \* the Config of the dispatcher each of them has

ASSUME ConfigAssumption ==
  Config \in [Callers -> [MaxRetries : Nat, InitialBackoff : Nat, Multiplier : Nat, MaxBackoff : Nat]]

Outcomes == {"success", "failed", "cancelled", "bad request"}

\* A call of Dispatch: where it stands, the number of its attempt, the pause
\* before the next one, and the result once it has returned.
Call == [at : {"none", "post", "sent", "backoff", "returned"},
         attempt : Nat, backoff : Nat, outcome : Outcomes, attempts : Nat]

VARIABLES
  cancelled,   \* the context is
  calls,       \* the calls of Dispatch
  posts        \* how many requests each call has handed to its client so far

vars == <<cancelled, calls, posts>>

NoCall == [at |-> "none", attempt |-> 0, backoff |-> 0, outcome |-> "failed", attempts |-> 0]

Init ==
  /\ cancelled = FALSE
  /\ calls = [c \in Callers |-> NoCall]
  /\ posts = [c \in Callers |-> 0]

-----------------------------------------------------------------------------

Become(c, to) == calls' = [calls EXCEPT ![c] = to]

Returns(c, outcome, attempts) ==
  Become(c, [calls[c] EXCEPT !.at = "returned", !.outcome = outcome, !.attempts = attempts])

Dispatch(c) ==
  /\ calls[c].at = "none"
  /\ Become(c, [NoCall EXCEPT !.at = "post", !.backoff = Config[c].InitialBackoff])
  /\ posts' = [posts EXCEPT ![c] = 0]
  /\ UNCHANGED cancelled

\* The URL makes no request.
BuildFails(c) ==
  /\ calls[c].at = "post" /\ calls[c].attempt = 0
  /\ Returns(c, "bad request", calls[c].attempt + 1)
  /\ UNCHANGED <<posts, cancelled>>

\* The client refuses a request whose context has ended and does not send it.
Post(c) ==
  /\ calls[c].at = "post"
  /\ IF cancelled THEN Returns(c, "cancelled", calls[c].attempt + 1)
                  ELSE Become(c, [calls[c] EXCEPT !.at = "sent"])
  /\ posts' = [posts EXCEPT ![c] = @ + 1]
  /\ UNCHANGED cancelled

\* The loop goes round, or is over.
NextAttempt(c) ==
  IF calls[c].attempt < Config[c].MaxRetries
    THEN Become(c, [calls[c] EXCEPT !.at = "backoff", !.attempt = @ + 1])
    ELSE Returns(c, "failed", Config[c].MaxRetries + 1)

Accepted(c) ==
  /\ calls[c].at = "sent"
  /\ Returns(c, "success", calls[c].attempt + 1)
  /\ UNCHANGED <<posts, cancelled>>

\* The target answers something else than 2xx.
Refused(c) ==
  /\ calls[c].at = "sent"
  /\ NextAttempt(c)
  /\ UNCHANGED <<posts, cancelled>>

\* No answer: the connection failed, the client's timeout passed, or the
\* context ended, which is the only one the loop does not go on after.
NoAnswer(c) ==
  /\ calls[c].at = "sent"
  /\ IF cancelled THEN Returns(c, "cancelled", calls[c].attempt + 1) ELSE NextAttempt(c)
  /\ UNCHANGED <<posts, cancelled>>

Lesser(a, b) == IF a < b THEN a ELSE b

\* A defective pause: only the end of the context wakes the call.
SleepOn(c) ==
  /\ calls[c].at = "backoff" /\ cancelled
  /\ Become(c, [calls[c] EXCEPT !.at = "post", !.backoff = Lesser(@ * Config[c].Multiplier, Config[c].MaxBackoff)])
  /\ UNCHANGED <<posts, cancelled>>

\* The pause is over; the next one is longer.
Wake(c) ==
  /\ calls[c].at = "backoff"
  /\ Become(c, [calls[c] EXCEPT !.at = "post", !.backoff = Lesser(@ * Config[c].Multiplier, Config[c].MaxBackoff)])
  /\ UNCHANGED <<posts, cancelled>>

\* A defective way out of the pause: the attempt it was waiting for is counted.
CancelWaitCounted(c) ==
  /\ calls[c].at = "backoff"
  /\ cancelled
  /\ Returns(c, "cancelled", calls[c].attempt + 1)
  /\ UNCHANGED <<posts, cancelled>>

\* The context ends during the pause: the attempt it was for is not made.
CancelWait(c) ==
  /\ calls[c].at = "backoff"
  /\ cancelled
  /\ Returns(c, "cancelled", calls[c].attempt)
  /\ UNCHANGED <<posts, cancelled>>

\* The caller takes the result.
TakeResult(c) ==
  /\ calls[c].at = "returned"
  /\ Become(c, NoCall)
  /\ posts' = [posts EXCEPT ![c] = 0]
  /\ UNCHANGED cancelled

\* What a call does once it has begun.
DispatchStep(c) ==
  \/ BuildFails(c) \/ Post(c) \/ Accepted(c) \/ Refused(c) \/ NoAnswer(c)
  \/ Wake(c) \/ CancelWait(c)

Cancel ==
  /\ ~cancelled
  /\ cancelled' = TRUE
  /\ UNCHANGED <<calls, posts>>

Next ==
  \/ \E c \in Callers : Dispatch(c) \/ DispatchStep(c) \/ TakeResult(c)
  \/ Cancel

\* A call runs, its requests are answered or time out, its timers go off.
Fairness == \A c \in Callers : WF_vars(DispatchStep(c))

Spec == Init /\ [][Next]_vars /\ Fairness

-----------------------------------------------------------------------------
(* Properties                                                              *)

\* The type invariant; a call is in no attempt its dispatcher does not allow.
TypeOK ==
  /\ cancelled \in BOOLEAN
  /\ calls \in [Callers -> Call]
  /\ posts \in [Callers -> Nat]
  /\ \A c \in Callers : calls[c].attempt <= Config[c].MaxRetries

\* A result tells the truth about the requests: as many as it counts were made,
\* MaxRetries + 1 at the most, except for a URL that makes none.
AttemptsAreRequests ==
  \A c \in Callers : calls[c].at = "returned" =>
    IF calls[c].outcome = "bad request"
      THEN posts[c] = 0
      ELSE posts[c] = calls[c].attempts /\ calls[c].attempts <= Config[c].MaxRetries + 1

\* Every call that has begun returns, whatever the target answers and whenever
\* its context ends.
DispatchEnds ==
  \A c \in Callers : calls[c].at # "none" ~> calls[c].at = "returned"
=============================================================================
