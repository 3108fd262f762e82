----------------------------- MODULE SdkCalls ------------------------------
(***************************************************************************)
(* One user of an SDK who adds messages to a session, call after call: the *)
(* HTTP clients of the two SDKs with their timeouts and retries            *)
(* (src/sdks/python/src/honcho/http/client.py and async_client.py,         *)
(* src/sdks/typescript/src/http/client.ts), the network, and the route     *)
(* that stores the messages (src/src/routers/messages.py).  A request      *)
(* that the client has given up may still be handled, at any time.         *)
(***************************************************************************)
EXTENDS Integers, Sequences, FiniteSets

CONSTANTS
  Clients,      \* the SDKs that are checked, of "python" and "typescript"
  MaxRetries,   \* max_retries
  MaxCalls      \* bound: calls of add_messages

ASSUME SdkAssumption ==
  /\ Clients \subseteq {"python", "typescript"}
  /\ MaxRetries \in Nat /\ MaxCalls \in Nat

VARIABLES
  client,    \* which SDK
  call,      \* the number of the current call
  stage,     \* the request it makes: "ensure" the workspace, then "add"
  pc,        \* where HonchoHTTPClient.request stands
  attempt,
  ensured,   \* _workspace_ensured; "failed": the memoized promise was rejected
  network,   \* requests and answers under way
  stored,    \* the messages of the session in the order of their ids
  outcome,   \* what each call came to
  tried,     \* history: the calls that have made an attempt
  unknown,   \* history: the attempts of a call that no answer of the server ended
  aborted    \* the calls whose signal has fired

vars == <<client, call, stage, pc, attempt, ensured, network, stored, outcome, tried,
          unknown, aborted>>
server == <<network, stored>>

Call == 1..MaxCalls
Packet == [call : Call, stage : {"ensure", "add"}, attempt : 0..MaxRetries,
           answer : {"none", "ok", "retry", "refused"}]

TypeOK ==
  /\ client \in Clients /\ call \in 0..MaxCalls /\ stage \in {"ensure", "add"}
  /\ pc \in {"idle", "ready", "waiting", "reading", "stalled", "sleeping"}
  /\ attempt \in 0..MaxRetries /\ ensured \in {"no", "yes", "failed"}
  /\ network \subseteq Packet /\ stored \in Seq(Call)
  /\ outcome \in [Call -> {"none", "returned", "raised"}]
  /\ tried \subseteq Call /\ unknown \in [Call -> 0..(2 * MaxRetries + 2)] /\ aborted \subseteq Call

Init ==
  /\ client \in Clients /\ call = 0 /\ stage = "ensure" /\ pc = "idle" /\ attempt = 0
  /\ ensured = "no" /\ network = {} /\ stored = <<>>
  /\ outcome = [c \in Call |-> "none"]
  /\ tried = {} /\ unknown = [c \in Call |-> 0] /\ aborted = {}
-----------------------------------------------------------------------------
(* The client. *)

Request == [call |-> call, stage |-> stage, attempt |-> attempt, answer |-> "none"]
AnswerTo(m) == [m EXCEPT !.answer = "none"] = Request

Start(s) == stage' = s /\ pc' = "ready" /\ attempt' = 0

\* mutant: the python client takes a failed get-or-create for done, like a memoized promise
MemoizedFailure == "failed"
\* What remains of a failed get-or-create: python sets its flag after success only.
AfterFailure == IF client = "python" THEN "no" ELSE "failed"

Raise ==
  /\ outcome' = [outcome EXCEPT ![call] = "raised"]
  /\ ensured' = IF stage = "ensure" THEN AfterFailure ELSE ensured
  /\ pc' = "idle"
  /\ UNCHANGED <<stage, attempt>>

Return ==
  \/ stage = "ensure" /\ ensured' = "yes" /\ Start("add") /\ UNCHANGED outcome
  \/ /\ stage = "add" /\ pc' = "idle"
     /\ outcome' = [outcome EXCEPT ![call] = "returned"]
     /\ UNCHANGED <<stage, attempt, ensured>>

\* mutant: one retry more than max_retries
RetryOnceMore ==
  IF attempt <= MaxRetries
  THEN pc' = "sleeping" /\ UNCHANGED <<stage, attempt, ensured, outcome>>
  ELSE Raise
RetryOrRaise ==
  IF attempt < MaxRetries
  THEN pc' = "sleeping" /\ UNCHANGED <<stage, attempt, ensured, outcome>>
  ELSE Raise

Begin ==
  /\ pc = "idle" /\ call < MaxCalls
  /\ call' = call + 1
  /\ \/ ensured = "no"  /\ Start("ensure") /\ UNCHANGED outcome
     \/ ensured = "yes" /\ Start("add") /\ UNCHANGED outcome
     \/ /\ ensured = "failed"       \* await of the rejected promise
        /\ outcome' = [outcome EXCEPT ![call'] = "raised"]
        /\ UNCHANGED <<stage, pc, attempt>>
  /\ UNCHANGED <<client, ensured, server, tried, unknown, aborted>>

Send ==
  /\ pc = "ready" /\ pc' = "waiting"
  /\ network' = network \union {Request}
  /\ tried' = tried \union {call}
  /\ UNCHANGED <<client, call, stage, attempt, ensured, stored, outcome, unknown, aborted>>

\* httpx.ConnectError; fetch fails.
Unreachable ==
  /\ pc = "ready"
  /\ tried' = tried \union {call}
  /\ RetryOrRaise
  /\ UNCHANGED <<client, call, server, unknown, aborted>>

\* The attempt ends and the client does not know whether the request was handled.
Forsaken == unknown' = [unknown EXCEPT ![call] = @ + 1]

\* mutant: the timeout covers the first attempt only
TimesOutOnce ==
  /\ pc = "waiting" /\ attempt = 0 /\ Forsaken /\ RetryOrRaise
  /\ UNCHANGED <<client, call, server, tried, aborted>>
\* httpx.TimeoutException; the AbortController of fetchWithTimeout.
TimesOut ==
  /\ pc = "waiting" /\ Forsaken /\ RetryOrRaise
  /\ UNCHANGED <<client, call, server, tried, aborted>>

\* A proxy answers 502 or 504 in place of the server.
GatewayFails ==
  /\ pc = "waiting" /\ Forsaken /\ RetryOrRaise
  /\ UNCHANGED <<client, call, server, tried, aborted>>

\* The connection breaks: for httpx neither a timeout nor a ConnectError, for fetch
\* the same TypeError as an unreachable server.
Disconnected ==
  /\ pc = "waiting" /\ Forsaken
  /\ IF client = "python" THEN Raise ELSE RetryOrRaise
  /\ UNCHANGED <<client, call, server, tried, aborted>>

\* mutant: every answer that can be parsed is a success
AnyAnswerIsSuccess(m) == m.answer # "none"
IsSuccess(m) == m.answer = "ok"

\* fetch resolves with the headers and its timer is cleared; response.text() waits
\* for the rest without one.  httpx reads the body within its own timeouts.
Succeeds(m) ==
  /\ IsSuccess(m)
  /\ IF client = "python" THEN Return
     ELSE /\ pc' \in {"reading", "stalled"}
          /\ UNCHANGED <<stage, attempt, ensured, outcome>>

Answered(m) ==
  /\ pc = "waiting" /\ AnswerTo(m) /\ m.answer # "none"
  /\ network' = network \ {m}
  /\ \/ Succeeds(m)
     \/ ~IsSuccess(m) /\ m.answer = "retry" /\ RetryOrRaise
     \/ ~IsSuccess(m) /\ m.answer = "refused" /\ Raise
  /\ UNCHANGED <<client, call, stored, tried, unknown, aborted>>

BodyArrives ==
  /\ pc = "reading" /\ Return
  /\ UNCHANGED <<client, call, server, tried, unknown, aborted>>

\* The error of response.text() is none of those that are retried.
BodyBreaks ==
  /\ pc = "reading" /\ Raise
  /\ UNCHANGED <<client, call, server, tried, unknown, aborted>>

Wakes ==
  /\ pc = "sleeping"
  /\ attempt' = attempt + 1 /\ pc' = "ready"
  /\ UNCHANGED <<client, call, stage, ensured, server, outcome, tried, unknown, aborted>>

\* fetchWithTimeout listens to the caller's signal while a fetch lasts and takes the
\* AbortError for its own timeout.  A signal that has fired does not fire again.
Abort ==
  /\ client = "typescript" /\ call \in Call \ aborted
  /\ aborted' = aborted \union {call}
  /\ \/ pc = "waiting" /\ Forsaken /\ RetryOrRaise
     \/ /\ pc = "sleeping"
        /\ UNCHANGED <<stage, pc, attempt, ensured, outcome, unknown>>
     \/ pc \in {"reading", "stalled"} /\ Raise /\ UNCHANGED unknown
  /\ UNCHANGED <<client, call, server, tried>>

ClientStep == Send \/ TimesOut \/ BodyArrives \/ Wakes
-----------------------------------------------------------------------------
(* The server and the network. *)

\* The answer to an attempt that the client has given up goes nowhere.
Reply(m, status) ==
  network' = (network \ {m})
             \union {a \in {[m EXCEPT !.answer = status]} : pc = "waiting" /\ AnswerTo(a)}

\* mutant: the answer waits for the embeddings, whose failure is an error of the request
CommitThenFail(m) ==
  /\ m.answer = "none"
  /\ stored' = IF m.stage = "add" THEN Append(stored, m.call) ELSE stored
  /\ Reply(m, "ok") \/ Reply(m, "retry")
\* mutant: the messages are stored in the background, after the answer
AnswerThenCommit(m) ==
  /\ m.answer = "none"
  /\ \/ /\ UNCHANGED stored
        /\ network' = network \union {a \in {[m EXCEPT !.answer = "ok"]} : AnswerTo(a)}
     \/ /\ stored' = IF m.stage = "add" THEN Append(stored, m.call) ELSE stored
        /\ network' = network \ {m}
\* create_messages_for_session: after the commit nothing makes the request fail, errors of
\* the embeddings are logged.  Creating the workspace again changes nothing.
Handle(m) ==
  /\ m.answer = "none"
  /\ stored' = IF m.stage = "add" THEN Append(stored, m.call) ELSE stored
  /\ Reply(m, "ok")

\* The request fails before its commit: 429 and 5xx are to be retried, 4xx are not.
Reject(m) ==
  /\ m.answer = "none" /\ UNCHANGED stored
  /\ Reply(m, "retry") \/ Reply(m, "refused")

Lose(m) == network' = network \ {m} /\ UNCHANGED stored

ServerStep ==
  /\ \E m \in network : Handle(m) \/ Reject(m) \/ Lose(m)
  /\ UNCHANGED <<client, call, stage, pc, attempt, ensured, outcome, tried, unknown, aborted>>

Next ==
  \/ Begin \/ ClientStep \/ Abort \/ \E m \in network : Answered(m)
  \/ Unreachable \/ GatewayFails \/ Disconnected \/ BodyBreaks \/ ServerStep

\* The client goes on by itself: its timers fire, and a body arrives unless it stalls.
\* Nothing else is assumed of the network and of the server.
Spec == Init /\ [][Next]_vars /\ WF_vars(ClientStep)
-----------------------------------------------------------------------------
(* Properties. *)

Copies(c) == {i \in DOMAIN stored : stored[i] = c}

\* A call that returned has stored its messages, through whatever attempts it took.
\* Retries may repeat them, but what a user added in order is in order: they come before
\* all those of later calls.
ReturnedComesFirst ==
  \A c \in Call :
    outcome[c] = "returned" =>
      /\ Copies(c) # {}
      /\ \A d \in Call, j \in 1..Len(stored) :
           c < d /\ j \in Copies(d) => \E i \in Copies(c) : i < j

\* Messages are repeated by attempts that the server did not answer and by no others.
CopiesHaveACause == \A c \in Call : Cardinality(Copies(c)) <= unknown[c] + 1

\* A call of the python SDK that fails has been attempted: a failure of the call before
\* it does not stay.  (The typescript SDK memoizes the rejected promise.)
FailuresWereTried ==
  \A c \in Call : client = "python" /\ outcome[c] = "raised" => c \in tried

\* What a user adds is stored, in order, repeated for a reason only, and missing only
\* after an attempt.
StoredAsCalled == ReturnedComesFirst /\ CopiesHaveACause /\ FailuresWereTried

\* Every call returns or raises, whatever the network and the server do, unless a body
\* stops to arrive, for which the typescript SDK waits without a limit.
CallsEnd == []<>(pc \in {"idle", "stalled"})
=============================================================================
