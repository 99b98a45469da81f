------------------------------ MODULE FeedFetch ------------------------------
(* The one seam every sanctions-feed request goes through                    *)
(* (sources/fetchWithTimeout.ts): attempts with a growing pause, a WAF       *)
(* challenge told from a payload, and a body read under limits.  Time is     *)
(* left out: a deadline may fire wherever one is armed.                      *)
EXTENDS Naturals, FiniteSets

CONSTANTS Feed,
          Attempts,   \* FEED_FETCH_ATTEMPTS
          BodyLimit   \* maxBytes of a body, in chunks

ASSUME FeedAssumption == Attempts \in Nat \ {0} /\ BodyLimit \in Nat \ {0}

VARIABLE req  \* the request of every feed: its phase, attempt, and the response in hand

\* What a server answers: a status, a WAF's mark, whether the headers or the payload date
\* the list, and the chunks of a body, if there is one.
Genuine == [status : {"ok"}, waf : {FALSE}, dated : BOOLEAN, body : BOOLEAN,
            length : 1..BodyLimit + 1]
Refusal == [status : {"transient", "permanent"}, waf : BOOLEAN, dated : {FALSE},
            body : {TRUE}, length : {1}]
Challenge == [status : {"ok"}, waf : {TRUE}, dated : {FALSE}, body : {TRUE}, length : {1}]
FeedAnswers == Genuine \cup Refusal \cup Challenge
NoAnswer == [status |-> "none", waf |-> FALSE, dated |-> FALSE, body |-> FALSE, length |-> 0]

\* A request no one waits for; open: its response is neither read to the end nor aborted.
Quiet == [phase |-> "idle", attempt |-> 0, answer |-> NoAnswer, got |-> 0, open |-> FALSE]
FeedInit == req = [f \in Feed |-> Quiet]

FeedPhase == {"idle", "asking", "pausing", "answered", "reading", "read", "failed"}
FeedTypeOK == req \in [Feed -> [phase : FeedPhase, attempt : 0..Attempts, open : BOOLEAN,
                                answer : FeedAnswers \cup {NoAnswer}, got : 0..BodyLimit]]

FeedAt(f, phase) == req[f].phase = phase
FeedBecomes(f, r) == req' = [req EXCEPT ![f] = r]

-----------------------------------------------------------------------------

\* The outcome of an attempt that gave no payload, its response, if any, cancelled.
Failing(f, retryable) ==
  IF retryable /\ req[f].attempt < Attempts
    THEN [req[f] EXCEPT !.phase = "pausing", !.open = FALSE]
    ELSE [req[f] EXCEPT !.phase = "failed", !.open = FALSE]

BacksOff(f) ==
  FeedAt(f, "pausing") /\ FeedBecomes(f, [req[f] EXCEPT !.phase = "asking", !.attempt = @ + 1])

Usable(a) == a.status = "ok" /\ ~a.waf

\* A challenge that answers 202 is not worth another attempt; a rate limit is.
AttemptAnswered(f) ==
  /\ FeedAt(f, "asking")
  /\ \E a \in FeedAnswers :
       IF Usable(a)
         THEN FeedBecomes(f, [req[f] EXCEPT !.phase = "answered", !.answer = a, !.open = TRUE])
         ELSE FeedBecomes(f, Failing(f, a.status = "transient"))

\* Our own deadline is terminal; a connection that breaks is not.
DeadlineFires(f) == FeedAt(f, "asking") /\ FeedBecomes(f, Failing(f, FALSE))
ConnectionBreaks(f) == FeedAt(f, "asking") /\ FeedBecomes(f, Failing(f, TRUE))

FeedAsks(f) == BacksOff(f) \/ AttemptAnswered(f) \/ DeadlineFires(f) \/ ConnectionBreaks(f)

-----------------------------------------------------------------------------
(* The body of a response, as its consumer pulls it *)

\* cancelResponse, by a consumer that does not want the body, and cancelReader, on any
\* error while it is read or when the consumer walks away.
CancelledFeed(f) == [req[f] EXCEPT !.phase = "failed", !.open = FALSE]

BodyBegins(f) ==
  /\ FeedAt(f, "answered")
  /\ IF req[f].answer.body THEN FeedBecomes(f, [req[f] EXCEPT !.phase = "reading"])
                           ELSE FeedBecomes(f, CancelledFeed(f))

\* The next chunk is handed on, or is one too many.
ChunkComes(f) ==
  /\ FeedAt(f, "reading") /\ req[f].got < req[f].answer.length
  /\ FeedBecomes(f, IF req[f].got = BodyLimit THEN CancelledFeed(f)
                ELSE [req[f] EXCEPT !.got = @ + 1])

BodyEnds(f) ==
  /\ FeedAt(f, "reading") /\ req[f].got = req[f].answer.length
  /\ FeedBecomes(f, [req[f] EXCEPT !.phase = "read", !.open = FALSE])

\* The elapsed or the idle limit, or the transport in mid-body.
BodyBreaks(f) == FeedAt(f, "reading") /\ FeedBecomes(f, CancelledFeed(f))
=============================================================================
