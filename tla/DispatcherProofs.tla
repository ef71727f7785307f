-------------------------- MODULE DispatcherProofs ---------------------------
(* Safety of the HTTP dispatcher, for any number of callers and any Config. *)
EXTENDS Dispatcher, TLAPS

-----------------------------------------------------------------------------
\* How many requests a call has made wherever it stands: the one of its attempt
\* is made in "sent", and not yet in "post" and "backoff".
Counted(c) ==
  /\ calls[c].at \in {"post", "backoff"} => posts[c] = calls[c].attempt
  /\ calls[c].at = "sent" => posts[c] = calls[c].attempt + 1

Truthful(c) ==
  calls[c].at = "returned" =>
    IF calls[c].outcome = "bad request"
      THEN posts[c] = 0
      ELSE posts[c] = calls[c].attempts /\ calls[c].attempts <= Config[c].MaxRetries + 1

Inv == TypeOK /\ \A c \in Callers : Counted(c) /\ Truthful(c)

LEMMA ConfigType ==
  ASSUME NEW c \in Callers
  PROVE  /\ Config[c].MaxRetries \in Nat /\ Config[c].InitialBackoff \in Nat
         /\ Config[c].Multiplier \in Nat /\ Config[c].MaxBackoff \in Nat
  BY ConfigAssumption

LEMMA LesserType ==
  ASSUME NEW a \in Nat, NEW b \in Nat
  PROVE  Lesser(a, b) \in Nat
  BY DEF Lesser

\* A step of one call that leaves the invariant to that call alone.
LEMMA OneCall ==
  ASSUME Inv, NEW c \in Callers, NEW to \in Call,
         calls' = [calls EXCEPT ![c] = to],
         posts' \in [Callers -> Nat],
         \A d \in Callers \ {c} : posts'[d] = posts[d],
         cancelled' \in BOOLEAN,
         to.attempt <= Config[c].MaxRetries,
         Counted(c)', Truthful(c)'
  PROVE  Inv'
<1>1. /\ calls' \in [Callers -> Call]
      /\ \A d \in Callers \ {c} : calls'[d] = calls[d]
      /\ calls'[c] = to
  BY DEF Inv, TypeOK
<1>2. TypeOK'
  BY <1>1 DEF Inv, TypeOK
<1>3. ASSUME NEW d \in Callers PROVE (Counted(d) /\ Truthful(d))'
  <2>1. CASE d = c
    BY <2>1
  <2>2. CASE d # c
    <3>1. calls'[d] = calls[d] /\ posts'[d] = posts[d]
      BY <1>1, <2>2
    <3>2. Counted(d) /\ Truthful(d)
      BY DEF Inv
    <3> QED BY <3>1, <3>2 DEF Counted, Truthful
  <2> QED BY <2>1, <2>2
<1> QED BY <1>2, <1>3 DEF Inv

LEMMA NoCallType ==
  NoCall \in Call /\ NoCall.at = "none" /\ NoCall.attempt = 0
  BY DEF NoCall, Call, Outcomes

LEMMA InitInv == Init => Inv
<1> SUFFICES ASSUME Init PROVE Inv
  OBVIOUS
<1>1. /\ calls = [c \in Callers |-> NoCall] /\ posts = [c \in Callers |-> 0]
      /\ cancelled = FALSE
  BY DEF Init
<1>2. ASSUME NEW c \in Callers
      PROVE  calls[c] = NoCall /\ posts[c] = 0 /\ calls[c].attempt <= Config[c].MaxRetries
  BY <1>1, NoCallType, ConfigType
<1>3. TypeOK
  BY <1>1, <1>2, NoCallType DEF TypeOK
<1>4. ASSUME NEW c \in Callers PROVE Counted(c) /\ Truthful(c)
  BY <1>2, NoCallType DEF Counted, Truthful
<1> QED BY <1>3, <1>4 DEF Inv

LEMMA NextInv == Inv /\ [Next]_vars => Inv'
<1> SUFFICES ASSUME Inv, [Next]_vars PROVE Inv'
  OBVIOUS
<1> USE ConfigType
<1>t. /\ calls \in [Callers -> Call] /\ posts \in [Callers -> Nat]
      /\ cancelled \in BOOLEAN
      /\ \A c \in Callers : calls[c].attempt <= Config[c].MaxRetries
      /\ \A c \in Callers : Counted(c) /\ Truthful(c)
  BY DEF Inv, TypeOK
<1>f. ASSUME NEW c \in Callers
      PROVE  /\ calls[c] \in Call
             /\ calls[c].attempt \in Nat /\ calls[c].backoff \in Nat
             /\ calls[c].attempts \in Nat
  BY <1>t DEF Call
<1>1. ASSUME NEW c \in Callers, Dispatch(c) PROVE Inv'
  <2> DEFINE to == [NoCall EXCEPT !.at = "post", !.backoff = Config[c].InitialBackoff]
  <2>1. to \in Call /\ to.at = "post" /\ to.attempt = 0
    BY DEF NoCall, Call, Outcomes
  <2>4. to.attempt <= Config[c].MaxRetries
    BY <2>1
  <2>2. calls' = [calls EXCEPT ![c] = to] /\ posts' = [posts EXCEPT ![c] = 0] /\ cancelled' = cancelled
    BY <1>1 DEF Dispatch, Become
  <2>3. Counted(c)' /\ Truthful(c)'
    BY <2>1, <2>2, <1>t DEF Counted, Truthful
  <2>5. posts' \in [Callers -> Nat] /\ \A d \in Callers \ {c} : posts'[d] = posts[d]
    BY <2>2, <1>t
  <2> HIDE DEF to
  <2> QED BY <2>1, <2>2, <2>3, <2>4, <2>5, <1>t, OneCall
<1>2. ASSUME NEW c \in Callers, NEW out \in Outcomes, NEW n \in Nat,
             Returns(c, out, n), cancelled' = cancelled,
             posts' \in [Callers -> Nat], \A d \in Callers \ {c} : posts'[d] = posts[d],
             IF out = "bad request" THEN posts'[c] = 0
                                    ELSE posts'[c] = n /\ n <= Config[c].MaxRetries + 1
      PROVE  Inv'
  <2> DEFINE to == [calls[c] EXCEPT !.at = "returned", !.outcome = out, !.attempts = n]
  <2>1. /\ to \in Call /\ to.at = "returned" /\ to.outcome = out /\ to.attempts = n
        /\ to.attempt = calls[c].attempt
    BY <1>f, <1>t DEF Call
  <2>2. calls' = [calls EXCEPT ![c] = to]
    BY <1>2 DEF Returns, Become
  <2>3. Counted(c)' /\ Truthful(c)'
    BY <2>1, <2>2, <1>2, <1>t DEF Counted, Truthful
  <2> HIDE DEF to
  <2> QED BY <2>1, <2>2, <2>3, <1>2, <1>t, OneCall
<1>3. ASSUME NEW c \in Callers, calls[c].at = "sent", NextAttempt(c), posts' = posts, cancelled' = cancelled
      PROVE  Inv'
  <2>1. posts[c] = calls[c].attempt + 1
    BY <1>3, <1>t DEF Counted
  <2>2. CASE calls[c].attempt < Config[c].MaxRetries
    <3> DEFINE to == [calls[c] EXCEPT !.at = "backoff", !.attempt = @ + 1]
    <3>1. to \in Call /\ to.at = "backoff" /\ to.attempt = calls[c].attempt + 1
      <4>1. calls[c].attempt + 1 \in Nat
        BY <1>f
      <4> QED BY <4>1, <1>f, <1>t DEF Call
    <3>2. calls' = [calls EXCEPT ![c] = to]
      BY <1>3, <2>2 DEF NextAttempt, Become
    <3>3. Counted(c)' /\ Truthful(c)'
      BY <3>1, <3>2, <2>1, <1>3, <1>t DEF Counted, Truthful
    <3>4. to.attempt <= Config[c].MaxRetries
      BY <3>1, <2>2, <1>f
    <3> HIDE DEF to
    <3> QED BY <3>1, <3>2, <3>3, <3>4, <1>3, <1>t, OneCall
  <2>3. CASE ~(calls[c].attempt < Config[c].MaxRetries)
    <3>1. calls[c].attempt = Config[c].MaxRetries
      BY <2>3, <1>f, <1>t
    <3>2. Returns(c, "failed", Config[c].MaxRetries + 1)
      BY <1>3, <2>3 DEF NextAttempt
    <3>3. Config[c].MaxRetries + 1 \in Nat /\ Config[c].MaxRetries + 1 <= Config[c].MaxRetries + 1
      OBVIOUS
    <3>4. "failed" \in Outcomes /\ "failed" # "bad request"
      BY DEF Outcomes
    <3> QED BY <3>1, <3>2, <3>3, <3>4, <2>1, <1>2, <1>3, <1>t
  <2> QED BY <2>2, <2>3
<1>4. ASSUME NEW c \in Callers, BuildFails(c) PROVE Inv'
  <2>1. posts[c] = 0 /\ Returns(c, "bad request", calls[c].attempt + 1)
        /\ posts' = posts /\ cancelled' = cancelled
    BY <1>4, <1>t DEF BuildFails, Counted
  <2>2. calls[c].attempt + 1 \in Nat /\ "bad request" \in Outcomes
    BY <1>f DEF Outcomes
  <2> QED BY <2>1, <2>2, <1>2, <1>t
<1>5. ASSUME NEW c \in Callers, Post(c) PROVE Inv'
  <2>1. /\ posts' = [posts EXCEPT ![c] = @ + 1] /\ cancelled' = cancelled
        /\ posts' \in [Callers -> Nat]
        /\ \A d \in Callers \ {c} : posts'[d] = posts[d]
    BY <1>5, <1>t DEF Post
  <2>2. posts'[c] = calls[c].attempt + 1 /\ calls[c].attempt <= Config[c].MaxRetries
    BY <2>1, <1>5, <1>t DEF Post, Counted
  <2>3. CASE cancelled
    <3>1. Returns(c, "cancelled", calls[c].attempt + 1)
      BY <1>5, <2>3 DEF Post
    <3>2. calls[c].attempt + 1 \in Nat /\ calls[c].attempt + 1 <= Config[c].MaxRetries + 1
      BY <2>2, <1>f
    <3> QED BY <3>1, <3>2, <2>1, <2>2, <1>2 DEF Outcomes
  <2>4. CASE ~cancelled
    <3> DEFINE to == [calls[c] EXCEPT !.at = "sent"]
    <3>1. to \in Call /\ to.at = "sent" /\ to.attempt = calls[c].attempt
      BY <1>f, <1>t DEF Call
    <3>2. calls' = [calls EXCEPT ![c] = to]
      BY <1>5, <2>4 DEF Post, Become
    <3>3. Counted(c)' /\ Truthful(c)'
      BY <3>1, <3>2, <2>2, <1>t DEF Counted, Truthful
    <3> HIDE DEF to
    <3> QED BY <3>1, <3>2, <3>3, <2>1, <2>2, <1>t, OneCall
  <2> QED BY <2>3, <2>4
<1>6. ASSUME NEW c \in Callers, calls[c].at = "sent", NEW out \in Outcomes, out # "bad request",
             Returns(c, out, calls[c].attempt + 1), posts' = posts, cancelled' = cancelled
      PROVE  Inv'
  <2>1. posts[c] = calls[c].attempt + 1 /\ calls[c].attempt <= Config[c].MaxRetries
    BY <1>6, <1>t DEF Counted
  <2>2. calls[c].attempt + 1 \in Nat /\ calls[c].attempt + 1 <= Config[c].MaxRetries + 1
    BY <2>1, <1>f
  <2> QED BY <2>1, <2>2, <1>2, <1>6, <1>t
<1>7. ASSUME NEW c \in Callers, Accepted(c) PROVE Inv'
  BY <1>7, <1>6 DEF Accepted, Outcomes
<1>8. ASSUME NEW c \in Callers, Refused(c) PROVE Inv'
  BY <1>8, <1>3 DEF Refused
<1>9. ASSUME NEW c \in Callers, NoAnswer(c) PROVE Inv'
  BY <1>9, <1>3, <1>6 DEF NoAnswer, Outcomes
<1>10. ASSUME NEW c \in Callers, Wake(c) PROVE Inv'
  <2> DEFINE to == [calls[c] EXCEPT !.at = "post", !.backoff = Lesser(@ * Config[c].Multiplier, Config[c].MaxBackoff)]
  <2>0. Lesser(calls[c].backoff * Config[c].Multiplier, Config[c].MaxBackoff) \in Nat
    <3>1. calls[c].backoff * Config[c].Multiplier \in Nat
      BY <1>f
    <3> HIDE DEF to
    <3> QED BY <3>1, LesserType
  <2>1. to \in Call /\ to.at = "post" /\ to.attempt = calls[c].attempt
    BY <2>0, <1>f, <1>t DEF Call
  <2>2. calls' = [calls EXCEPT ![c] = to] /\ posts' = posts /\ cancelled' = cancelled
    BY <1>10 DEF Wake, Become
  <2>3. posts[c] = calls[c].attempt
    BY <1>10, <1>t DEF Wake, Counted
  <2>4. Counted(c)' /\ Truthful(c)'
    BY <2>1, <2>2, <2>3, <1>t DEF Counted, Truthful
  <2> HIDE DEF to
  <2> QED BY <2>1, <2>2, <2>4, <1>t, OneCall
<1>11. ASSUME NEW c \in Callers, CancelWait(c) PROVE Inv'
  <2>1. posts[c] = calls[c].attempt /\ calls[c].attempt <= Config[c].MaxRetries
    BY <1>11, <1>t DEF CancelWait, Counted
  <2>2. calls[c].attempt <= Config[c].MaxRetries + 1
    BY <2>1, <1>f
  <2> QED BY <2>1, <2>2, <1>2, <1>11, <1>f, <1>t DEF CancelWait, Outcomes
<1>12. ASSUME NEW c \in Callers, TakeResult(c) PROVE Inv'
  <2>1. NoCall \in Call /\ NoCall.at = "none" /\ NoCall.attempt = 0 /\ NoCall.attempt <= Config[c].MaxRetries
    BY NoCallType
  <2>2. calls' = [calls EXCEPT ![c] = NoCall] /\ posts' = [posts EXCEPT ![c] = 0] /\ cancelled' = cancelled
    BY <1>12 DEF TakeResult, Become
  <2>3. Counted(c)' /\ Truthful(c)'
    BY <2>1, <2>2, <1>t DEF Counted, Truthful
  <2>4. posts' \in [Callers -> Nat] /\ \A d \in Callers \ {c} : posts'[d] = posts[d]
    BY <2>2, <1>t
  <2> QED BY <2>1, <2>2, <2>3, <2>4, <1>t, OneCall
<1>13. CASE Cancel
  BY <1>13 DEF Cancel, Inv, TypeOK, Counted, Truthful
<1>14. CASE UNCHANGED vars
  BY <1>14 DEF vars, Inv, TypeOK, Counted, Truthful
<1> QED
  BY <1>1, <1>4, <1>5, <1>7, <1>8, <1>9, <1>10, <1>11, <1>12, <1>13, <1>14 DEF Next, DispatchStep

LEMMA DispatchInvariant == Spec => []Inv
BY InitInv, NextInv, PTL DEF Spec

-----------------------------------------------------------------------------
\* Calls stay in their types, and no attempt is beyond the Config.
THEOREM DispatchTypeCorrect == Spec => []TypeOK
<1>1. Inv => TypeOK
  BY DEF Inv
<1> QED BY <1>1, DispatchInvariant, PTL

\* The attempts of a Result are the requests Dispatch made, and no more than the
\* Config allows, whichever way the call ended and whenever the context did.
THEOREM ResultsTellTheTruth == Spec => []AttemptsAreRequests
<1>1. Inv => AttemptsAreRequests
  BY DEF Inv, Truthful, AttemptsAreRequests
<1> QED BY <1>1, DispatchInvariant, PTL
=============================================================================
