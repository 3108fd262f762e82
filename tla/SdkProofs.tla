----------------------------- MODULE SdkProofs -----------------------------
(***************************************************************************)
(* What is proved of the SDKs.  Of adding messages (SdkCalls), for any     *)
(* number of calls and retries: what a user adds is stored as called.  Of  *)
(* iterating over pages (SdkPages), for any writers, rows and size of the  *)
(* pages: an iteration is exhaustive.  Of the objects of records           *)
(* (SdkHandles), for any programs in any of the SDKs and any number of     *)
(* calls: updates are kept, and caches hold what was once true.            *)
(***************************************************************************)
EXTENDS MCSdk, FiniteSetTheorems, SequenceTheorems, TLAPS

-----------------------------------------------------------------------------
(* The type, with what it takes to bound the counter of unanswered attempts. *)

\* The attempts of a call that ended without an answer: those of each stage at most.
UnknownInStage ==
  unknown[call] <= (IF stage = "add" THEN MaxRetries + 1 ELSE 0)
                   + attempt + (IF pc = "sleeping" THEN 1 ELSE 0)

TypeInv ==
  /\ TypeOK /\ IsFiniteSet(network)
  /\ pc # "idle" => call \in Call /\ UnknownInStage
  /\ pc = "sleeping" => attempt < MaxRetries
  /\ \A c \in Call : c > call => unknown[c] = 0 /\ c \notin tried /\ outcome[c] = "none"
  /\ pc \in {"waiting", "reading", "stalled", "sleeping"} => call \in tried

\* What a step of the server or of the network leaves is made of packets.
LEMMA NetworkType ==
  ASSUME TypeInv, ServerStep
  PROVE  network' \subseteq Packet /\ IsFiniteSet(network') /\ stored' \in Seq(Call)
<1>1. PICK m \in network : Handle(m) \/ Reject(m) \/ Lose(m)
  BY DEF ServerStep
<1>2. m \in Packet /\ network \subseteq Packet /\ IsFiniteSet(network) /\ stored \in Seq(Call)
  BY DEF TypeInv, TypeOK
<1>3. m.call \in Call
  BY <1>2 DEF Packet
<1>4. stored' \in Seq(Call)
  BY <1>1, <1>2, <1>3 DEF Handle, Reject, Lose
<1>5. IsFiniteSet(network \ {m}) /\ network \ {m} \subseteq Packet
  BY <1>2, FS_RemoveElement
<1>6. ASSUME NEW status \in {"ok", "retry", "refused"}, Reply(m, status)
      PROVE  network' \subseteq Packet /\ IsFiniteSet(network')
  <2> DEFINE a == [m EXCEPT !.answer = status]
  <2>1. a \in Packet
    BY <1>2 DEF Packet
  <2>2. network' = network \ {m} \/ network' = (network \ {m}) \union {a}
    BY <1>6 DEF Reply
  <2>3. IsFiniteSet((network \ {m}) \union {a})
    BY <1>5, FS_AddElement
  <2> QED BY <1>5, <2>1, <2>2, <2>3
<1>7. CASE Lose(m)
  BY <1>4, <1>5, <1>7 DEF Lose
<1>8. CASE Handle(m) \/ Reject(m)
  BY <1>4, <1>6, <1>8 DEF Handle, Reject
<1> QED
  BY <1>1, <1>7, <1>8

LEMMA RequestType ==
  ASSUME TypeInv, pc # "idle"
  PROVE  Request \in Packet /\ IsFiniteSet(network \union {Request})
<1>1. call \in Call /\ stage \in {"ensure", "add"} /\ attempt \in 0..MaxRetries
  BY DEF TypeInv, TypeOK
<1>2. Request \in Packet
  BY <1>1 DEF Request, Packet
<1> QED
  BY <1>2, FS_AddElement DEF TypeInv

LEMMA TypeInitially == Init => TypeInv
<1> SUFFICES ASSUME Init PROVE TypeInv
  OBVIOUS
<1>1. IsFiniteSet(network)
  BY FS_EmptySet DEF Init
<1>2. TypeOK
  BY SdkAssumption DEF Init, TypeOK
<1> QED
  BY <1>1, <1>2 DEF Init, TypeInv

\* How an attempt or a request can end for the client.
LEMMA Raising ==
  ASSUME TypeInv, pc # "idle", Raise
  PROVE  /\ stage' = stage /\ attempt' = attempt /\ pc' = "idle"
         /\ ensured' \in {"no", "yes", "failed"}
         /\ ensured' = "failed" => ensured = "failed" \/ client # "python"
         /\ outcome' = [outcome EXCEPT ![call] = "raised"]
         /\ outcome' \in [Call -> {"none", "returned", "raised"}]
BY DEF Raise, AfterFailure, TypeInv, TypeOK

LEMMA Retrying ==
  ASSUME TypeInv, pc # "idle", RetryOrRaise
  PROVE  /\ stage' = stage /\ attempt' = attempt
         /\ ensured' \in {"no", "yes", "failed"}
         /\ ensured' = "failed" => ensured = "failed" \/ client # "python"
         /\ outcome' \in [Call -> {"none", "returned", "raised"}]
         /\ \/ pc' = "sleeping" /\ attempt < MaxRetries /\ outcome' = outcome
            \/ pc' = "idle" /\ outcome' = [outcome EXCEPT ![call] = "raised"]
BY Raising DEF RetryOrRaise, TypeInv, TypeOK

LEMMA Returning ==
  ASSUME TypeInv, pc # "idle", Return
  PROVE  /\ ensured' \in {"no", "yes", "failed"}
         /\ ensured' = "failed" => ensured = "failed"
         /\ outcome' \in [Call -> {"none", "returned", "raised"}]
         /\ \/ /\ stage = "ensure" /\ stage' = "add" /\ pc' = "ready" /\ attempt' = 0
               /\ outcome' = outcome
            \/ /\ stage = "add" /\ stage' = "add" /\ pc' = "idle" /\ attempt' = attempt
               /\ outcome' = [outcome EXCEPT ![call] = "returned"]
BY DEF Return, Start, TypeInv, TypeOK

\* What an attempt that ends without an answer leaves.
LEMMA ForsakenType ==
  ASSUME TypeInv, pc # "idle", pc # "sleeping", Forsaken
  PROVE  /\ unknown' \in [Call -> 0..(2 * MaxRetries + 2)]
         /\ unknown'[call] = unknown[call] + 1
         /\ \A c \in Call : c # call => unknown'[c] = unknown[c]
         /\ unknown[call] + 1 <= (IF stage = "add" THEN MaxRetries + 1 ELSE 0) + attempt + 1
<1>1. call \in Call /\ unknown \in [Call -> 0..(2 * MaxRetries + 2)] /\ attempt \in 0..MaxRetries
  BY DEF TypeInv, TypeOK
<1>2. /\ unknown[call] <= (IF stage = "add" THEN MaxRetries + 1 ELSE 0) + attempt
      /\ MaxRetries \in Nat
  BY <1>1, SdkAssumption DEF TypeInv, UnknownInStage
<1>3. unknown[call] \in Nat /\ unknown[call] + 1 \in 0..(2 * MaxRetries + 2)
  BY <1>1, <1>2
<1> QED
  BY <1>1, <1>2, <1>3 DEF Forsaken

\* The client of a call goes on, to the same call.
LEMMA TypeOfCall ==
  ASSUME TypeInv, pc # "idle",
         UNCHANGED <<client, call>>, call \in tried', tried' \subseteq Call,
         stage' \in {"ensure", "add"},
         pc' \in {"idle", "ready", "reading", "stalled", "sleeping"},
         attempt' \in 0..MaxRetries, ensured' \in {"no", "yes", "failed"},
         network' \subseteq Packet, IsFiniteSet(network'), stored' \in Seq(Call),
         outcome' \in [Call -> {"none", "returned", "raised"}],
         \A c \in Call : c # call => outcome'[c] = outcome[c],
         unknown' \in [Call -> 0..(2 * MaxRetries + 2)],
         \A c \in Call : c # call => unknown'[c] = unknown[c],
         \A c \in Call : c # call => (c \in tried' <=> c \in tried),
         aborted' \subseteq Call,
         pc' = "sleeping" => attempt' < MaxRetries,
         pc' # "idle" => UnknownInStage'
  PROVE  TypeInv'
<1>1. TypeOK'
  BY DEF TypeInv, TypeOK
<1>2. call \in Call /\ call' = call
  BY DEF TypeInv
<1>3. ASSUME NEW c \in Call, c > call'
      PROVE  unknown'[c] = 0 /\ c \notin tried' /\ outcome'[c] = "none"
  <2>1. c # call /\ c > call
    BY <1>2, <1>3 DEF Call
  <2> QED
    BY <2>1 DEF TypeInv
<1> QED
  BY <1>1, <1>2, <1>3 DEF TypeInv

LEMMA TypePreserved == TypeInv /\ [Next]_vars => TypeInv'
<1> SUFFICES ASSUME TypeInv, [Next]_vars
             PROVE  TypeInv'
  OBVIOUS
<1>0. MaxRetries \in Nat /\ MaxCalls \in Nat
  BY SdkAssumption
<1>t. /\ tried \subseteq Call /\ aborted \subseteq Call /\ attempt \in 0..MaxRetries
      /\ network \subseteq Packet /\ IsFiniteSet(network) /\ stored \in Seq(Call)
      /\ unknown \in [Call -> 0..(2 * MaxRetries + 2)]
      /\ outcome \in [Call -> {"none", "returned", "raised"}]
      /\ stage \in {"ensure", "add"}
  BY DEF TypeInv, TypeOK
<1>u. \A c \in Call, o \in {"returned", "raised"} :
        c # call => [outcome EXCEPT ![call] = o][c] = outcome[c]
  BY <1>t
<1>1. CASE Begin
  <2>1. call + 1 \in Call /\ call' = call + 1 /\ call \in 0..MaxCalls
    BY <1>0, <1>1 DEF Begin, TypeInv, TypeOK, Call
  <2>2. unknown[call + 1] = 0 /\ outcome[call + 1] = "none"
    BY <2>1 DEF TypeInv, Call
  <2>3. CASE Start("ensure") \/ Start("add")
    <3>1. TypeOK'
      BY <1>0, <1>1, <2>1, <2>3 DEF Begin, Start, TypeInv, TypeOK, server
    <3>2. UnknownInStage'
      BY <1>0, <1>1, <2>1, <2>2, <2>3 DEF Begin, Start, UnknownInStage
    <3>3. \A c \in Call : c > call' => unknown[c] = 0 /\ c \notin tried /\ outcome[c] = "none"
      BY <2>1 DEF TypeInv, Call
    <3>4. outcome' = outcome
      BY <1>1, <2>3 DEF Begin, Start
    <3>5. UNCHANGED <<unknown, tried, network>> /\ pc' = "ready"
      BY <1>1, <2>3 DEF Begin, Start, server
    <3> QED
      BY <2>1, <3>1, <3>2, <3>3, <3>4, <3>5 DEF TypeInv
  <2>4. CASE outcome' = [outcome EXCEPT ![call'] = "raised"] /\ UNCHANGED <<stage, pc, attempt>>
    <3>1. TypeOK'
      BY <1>0, <1>1, <2>1, <2>4 DEF Begin, TypeInv, TypeOK, server
    <3>3. \A c \in Call : c > call' => unknown[c] = 0 /\ c \notin tried /\ outcome'[c] = "none"
      BY <1>t, <2>1, <2>4 DEF TypeInv, Call
    <3>5. UNCHANGED <<unknown, tried, network, pc>> /\ pc = "idle"
      BY <1>1, <2>4 DEF Begin, server
    <3> QED
      BY <2>1, <3>1, <3>3, <3>5 DEF TypeInv
  <2> QED
    BY <1>1, <2>3, <2>4 DEF Begin
<1>2. CASE Send
  <2>1. network' \subseteq Packet /\ IsFiniteSet(network')
    BY <1>2, RequestType DEF Send, TypeInv, TypeOK
  <2> QED
    BY <1>0, <1>2, <2>1 DEF Send, TypeInv, TypeOK, UnknownInStage, Call
<1>3. CASE Unreachable
  <2>1. RetryOrRaise /\ pc = "ready"
    BY <1>3 DEF Unreachable
  <2>2. UnknownInStage /\ call \in Call
    BY <2>1 DEF TypeInv
  <2>3. pc' = "sleeping" => UnknownInStage'
    BY <1>0, <1>t, <1>3, <2>1, <2>2, Retrying DEF Unreachable, UnknownInStage
  <2>4. UNCHANGED <<client, call, network, stored, unknown, aborted>> /\ tried' = tried \union {call}
    BY <1>3 DEF Unreachable, server
  <2> QED
    BY <1>t, <1>u, <2>1, <2>2, <2>3, <2>4, Retrying, TypeOfCall
<1>4. CASE TimesOut \/ GatewayFails \/ Disconnected
  <2>1. (RetryOrRaise \/ Raise) /\ pc = "waiting" /\ Forsaken
    BY <1>4 DEF TimesOut, GatewayFails, Disconnected
  <2>2. UnknownInStage /\ call \in Call /\ call \in tried
    BY <2>1 DEF TypeInv
  <2>3. UNCHANGED <<client, call, network, stored, tried, aborted>>
    BY <1>4 DEF TimesOut, GatewayFails, Disconnected, server
  <2>4. pc' # "idle" => UnknownInStage'
    BY <2>1, <2>2, <2>3, Retrying, Raising, ForsakenType DEF UnknownInStage
  <2>5. \A c \in Call : c # call => outcome'[c] = outcome[c]
    BY <1>u, <2>1, Retrying, Raising
  <2> QED
    BY <1>t, <2>1, <2>2, <2>3, <2>4, <2>5, Retrying, Raising, ForsakenType, TypeOfCall
<1>6. CASE BodyArrives
  <2>1. Return /\ pc = "reading"
    BY <1>6 DEF BodyArrives
  <2>2. UnknownInStage /\ call \in Call /\ call \in tried
    BY <2>1 DEF TypeInv
  <2>3. UNCHANGED <<client, call, network, stored, tried, unknown, aborted>>
    BY <1>6 DEF BodyArrives, server
  <2>4. pc' # "idle" => UnknownInStage'
    BY <1>0, <1>t, <2>1, <2>2, <2>3, Returning DEF UnknownInStage
  <2>5. \A c \in Call : c # call => outcome'[c] = outcome[c]
    BY <1>u, <2>1, Returning
  <2>6. attempt' \in 0..MaxRetries
    BY <1>0, <1>t, <2>1, Returning
  <2> QED
    BY <1>t, <2>1, <2>2, <2>3, <2>4, <2>5, <2>6, Returning, TypeOfCall
<1>7. CASE BodyBreaks
  BY <1>0, <1>7
  DEF BodyBreaks, Raise, AfterFailure, TypeInv, TypeOK, UnknownInStage, Call, server
<1>8. CASE Wakes
  BY <1>0, <1>8 DEF Wakes, TypeInv, TypeOK, UnknownInStage, Call, server
<1>9. CASE Abort
  <2>1. /\ UNCHANGED <<client, call, network, stored, tried>> /\ call \in Call
        /\ aborted' \subseteq Call
    BY <1>9, <1>t DEF Abort, server
  <2>2. CASE pc = "waiting" /\ Forsaken /\ RetryOrRaise
    <3>2. UnknownInStage /\ call \in Call /\ call \in tried
      BY <2>2 DEF TypeInv
    <3>4. pc' # "idle" => UnknownInStage'
      BY <2>1, <2>2, <3>2, Retrying, ForsakenType DEF UnknownInStage
    <3>5. \A c \in Call : c # call => outcome'[c] = outcome[c]
      BY <1>u, <2>2, Retrying
    <3> QED
      BY <1>t, <2>1, <2>2, <3>2, <3>4, <3>5, Retrying, ForsakenType, TypeOfCall
  <2>3. CASE /\ pc = "sleeping"
             /\ UNCHANGED <<stage, pc, attempt, ensured, outcome, unknown>>
    BY <2>1, <2>3 DEF TypeInv, TypeOK, UnknownInStage
  <2>4. CASE pc \in {"reading", "stalled"} /\ Raise /\ UNCHANGED unknown
    <3>2. call \in tried
      BY <2>4 DEF TypeInv
    <3>5. \A c \in Call : c # call => outcome'[c] = outcome[c]
      BY <1>u, <2>4, Raising
    <3> QED
      BY <1>t, <2>1, <2>4, <3>2, <3>5, Raising, TypeOfCall
  <2> QED
    BY <1>9, <2>2, <2>3, <2>4 DEF Abort
<1>10. ASSUME NEW m \in network, Answered(m)
       PROVE  TypeInv'
  <2>1. network' \subseteq Packet /\ IsFiniteSet(network')
    BY <1>10, FS_RemoveElement DEF Answered, TypeInv, TypeOK
  <2>2. UNCHANGED <<client, call, stored, tried, unknown, aborted>> /\ pc = "waiting"
    BY <1>10 DEF Answered
  <2>3. UnknownInStage /\ call \in Call /\ call \in tried
    BY <2>2 DEF TypeInv
  <2>4. CASE RetryOrRaise \/ Raise
    <3>4. pc' # "idle" => UnknownInStage'
      BY <1>0, <1>t, <2>2, <2>3, <2>4, Retrying, Raising DEF UnknownInStage
    <3>5. \A c \in Call : c # call => outcome'[c] = outcome[c]
      BY <1>u, <2>2, <2>4, Retrying, Raising
    <3> QED
      BY <1>t, <2>1, <2>2, <2>3, <2>4, <3>4, <3>5, Retrying, Raising, TypeOfCall
  <2>5. CASE Return
    <3>4. pc' # "idle" => UnknownInStage'
      BY <1>0, <1>t, <2>2, <2>3, <2>5, Returning DEF UnknownInStage
    <3>5. \A c \in Call : c # call => outcome'[c] = outcome[c]
      BY <1>u, <2>2, <2>5, Returning
    <3>6. attempt' \in 0..MaxRetries
      BY <1>0, <1>t, <2>2, <2>5, Returning
    <3> QED
      BY <1>t, <2>1, <2>2, <2>3, <2>5, <3>4, <3>5, <3>6, Returning, TypeOfCall
  <2>6. CASE pc' \in {"reading", "stalled"} /\ UNCHANGED <<stage, attempt, ensured, outcome>>
    BY <2>1, <2>2, <2>3, <2>6 DEF TypeInv, TypeOK, UnknownInStage
  <2> QED
    BY <1>10, <2>4, <2>5, <2>6 DEF Answered, Succeeds
<1>11. CASE ServerStep
  <2>1. network' \subseteq Packet /\ IsFiniteSet(network') /\ stored' \in Seq(Call)
    BY <1>11, NetworkType
  <2> QED
    BY <1>11, <2>1 DEF ServerStep, TypeInv, TypeOK, UnknownInStage
<1>12. CASE UNCHANGED vars
  BY <1>12 DEF vars, server, TypeInv, TypeOK, UnknownInStage
<1> QED
  BY <1>1, <1>2, <1>3, <1>4, <1>6, <1>7, <1>8, <1>9, <1>10, <1>11, <1>12
  DEF Next, ClientStep

\* The state of a user of an SDK has its type: the attempts without an answer are at
\* most those of the two requests of a call.
THEOREM CallsHaveTheirType == Spec => []TypeOK
<1>1. TypeInv => TypeOK
  BY DEF TypeInv
<1> QED
  BY <1>1, TypeInitially, TypePreserved, PTL DEF Spec
-----------------------------------------------------------------------------
(* No packet is older than its attempt: what is sent is new. *)

SentBefore(m) ==
  \/ m.call < call
  \/ m.call = call /\ m.stage = "ensure" /\ stage = "add"
  \/ m.call = call /\ m.stage = stage /\ m.attempt < attempt
  \/ m.call = call /\ m.stage = stage /\ m.attempt = attempt /\ pc # "ready"

Fresh == \A m \in network : SentBefore(m)

\* Of a request a step of the server leaves its call, its stage and its attempt.
LEMMA SameAttempt ==
  ASSUME TypeInv, ServerStep, NEW n \in network'
  PROVE  \E m \in network : m.call = n.call /\ m.stage = n.stage /\ m.attempt = n.attempt
<1>1. PICK m \in network : Handle(m) \/ Reject(m) \/ Lose(m)
  BY DEF ServerStep
<1>2. m \in Packet
  BY DEF TypeInv, TypeOK
<1>3. \E status \in {"ok", "retry", "refused"} :
        n \in network \/ n = [m EXCEPT !.answer = status]
  BY <1>1 DEF Handle, Reject, Lose, Reply
<1> QED
  BY <1>2, <1>3 DEF Packet

LEMMA FreshPreserved ==
  ASSUME TypeInv, Fresh, [Next]_vars
  PROVE  Fresh'
<1>0. /\ call \in 0..MaxCalls /\ attempt \in 0..MaxRetries /\ MaxRetries \in Nat
      /\ MaxCalls \in Nat /\ stage \in {"ensure", "add"}
      /\ \A m \in network : m.call \in Nat /\ m.attempt \in Nat /\ SentBefore(m)
  BY SdkAssumption DEF TypeInv, TypeOK, Fresh, Packet, Call
<1>1. CASE Begin
  BY <1>0, <1>1 DEF Begin, Fresh, SentBefore, server
<1>2. CASE Send
  <2>1. \A m \in {Request} : SentBefore(m)'
    BY <1>2 DEF Send, SentBefore, Request
  <2>2. \A m \in network : SentBefore(m)'
    BY <1>0, <1>2 DEF Send, SentBefore
  <2> QED
    BY <1>2, <2>1, <2>2 DEF Send, Fresh
<1>3. ASSUME pc # "idle", RetryOrRaise \/ Raise, call' = call, network' \subseteq network
      PROVE  Fresh'
  <2>1. stage' = stage /\ attempt' = attempt /\ pc' # "ready"
    BY <1>3, Retrying, Raising
  <2>2. \A m \in network' : SentBefore(m)'
    BY <1>0, <1>3, <2>1 DEF SentBefore
  <2> QED
    BY <2>2 DEF Fresh
<1>4. ASSUME pc # "idle", Return, call' = call, network' \subseteq network
      PROVE  Fresh'
  <2>1. \/ stage = "ensure" /\ stage' = "add"
        \/ stage' = stage /\ attempt' = attempt /\ pc' # "ready"
    BY <1>4, Returning
  <2>2. \A m \in network' : SentBefore(m)'
    BY <1>0, <1>4, <2>1 DEF SentBefore
  <2> QED
    BY <2>2 DEF Fresh
<1>5. CASE Unreachable \/ TimesOut \/ GatewayFails \/ Disconnected
  BY <1>3, <1>5 DEF Unreachable, TimesOut, GatewayFails, Disconnected, server
<1>6. CASE BodyArrives
  BY <1>4, <1>6 DEF BodyArrives, server
<1>7. CASE BodyBreaks
  BY <1>3, <1>7 DEF BodyBreaks, server
<1>8. CASE Wakes
  <2>1. \A m \in network' : SentBefore(m)'
    BY <1>0, <1>8 DEF Wakes, SentBefore, server
  <2> QED
    BY <2>1 DEF Fresh
<1>9. CASE Abort
  <2>1. CASE UNCHANGED <<stage, pc, attempt>>
    <3>1. \A m \in network' : SentBefore(m)'
      BY <1>0, <1>9, <2>1 DEF Abort, SentBefore, server
    <3> QED
      BY <3>1 DEF Fresh
  <2> QED
    BY <1>3, <1>9, <2>1 DEF Abort, server
<1>10. ASSUME NEW m \in network, Answered(m)
       PROVE  Fresh'
  <2>1. call' = call /\ network' \subseteq network /\ pc = "waiting"
    BY <1>10 DEF Answered
  <2>2. CASE pc' \in {"reading", "stalled"} /\ UNCHANGED <<stage, attempt>>
    <3>1. \A n \in network' : SentBefore(n)'
      BY <1>0, <2>1, <2>2 DEF SentBefore
    <3> QED
      BY <3>1 DEF Fresh
  <2> QED
    BY <1>3, <1>4, <1>10, <2>1, <2>2 DEF Answered, Succeeds
<1>11. CASE ServerStep
  <2>1. UNCHANGED <<call, stage, attempt, pc>>
    BY <1>11 DEF ServerStep
  <2>2. ASSUME NEW n \in network'
        PROVE  SentBefore(n)'
    <3>1. PICK m \in network : m.call = n.call /\ m.stage = n.stage /\ m.attempt = n.attempt
      BY <1>11, SameAttempt
    <3>2. SentBefore(m)
      BY DEF Fresh
    <3> QED
      BY <2>1, <3>1, <3>2 DEF SentBefore
  <2> QED
    BY <2>2 DEF Fresh
<1>12. CASE UNCHANGED vars
  BY <1>0, <1>12 DEF vars, server, Fresh, SentBefore
<1> QED
  BY <1>1, <1>2, <1>5, <1>6, <1>7, <1>8, <1>9, <1>10, <1>11, <1>12 DEF Next, ClientStep
-----------------------------------------------------------------------------
(* Failures, in the python SDK. *)

FailuresInv == (client = "python" => ensured # "failed") /\ FailuresWereTried

LEMMA FailuresPreserved ==
  ASSUME TypeInv, FailuresInv, [Next]_vars
  PROVE  FailuresInv'
<1>0. outcome \in [Call -> {"none", "returned", "raised"}]
  BY DEF TypeInv, TypeOK
<1>1. ASSUME pc # "idle", RetryOrRaise \/ Raise \/ Return, UNCHANGED <<client, call>>,
             tried \subseteq tried', call \in tried'
      PROVE  FailuresInv'
  <2>1. ensured' = "failed" => ensured = "failed" \/ client # "python"
    BY <1>1, Retrying, Raising, Returning
  <2>2. \A c \in Call : outcome'[c] = "raised" => outcome[c] = "raised" \/ c = call
    BY <1>0, <1>1, Retrying, Raising, Returning
  <2> QED
    BY <1>1, <2>1, <2>2 DEF FailuresInv, FailuresWereTried
<1>2. ASSUME UNCHANGED <<client, ensured, outcome>>, tried \subseteq tried'
      PROVE  FailuresInv'
  BY <1>2 DEF FailuresInv, FailuresWereTried
<1>3. CASE Begin
  BY <1>0, <1>3 DEF Begin, Start, FailuresInv, FailuresWereTried
<1>4. CASE Send \/ Wakes
  BY <1>2, <1>4 DEF Send, Wakes
<1>5. CASE Unreachable
  BY <1>1, <1>5 DEF Unreachable
<1>6. CASE TimesOut \/ GatewayFails \/ Disconnected \/ BodyArrives \/ BodyBreaks
  <2>1. call \in tried
    BY <1>6 DEF TimesOut, GatewayFails, Disconnected, BodyArrives, BodyBreaks, TypeInv
  <2> QED
    BY <1>1, <1>6, <2>1 DEF TimesOut, GatewayFails, Disconnected, BodyArrives, BodyBreaks
<1>7. CASE Abort
  <2>1. pc # "idle" => pc \in {"waiting", "reading", "stalled", "sleeping"} /\ call \in tried
    BY <1>7 DEF Abort, TypeInv
  <2> QED
    BY <1>1, <1>2, <1>7, <2>1 DEF Abort
<1>8. ASSUME NEW m \in network, Answered(m)
      PROVE  FailuresInv'
  <2>1. call \in tried
    BY <1>8 DEF Answered, TypeInv
  <2> QED
    BY <1>1, <1>2, <1>8, <2>1 DEF Answered, Succeeds
<1>9. CASE ServerStep
  BY <1>2, <1>9 DEF ServerStep
<1>10. CASE UNCHANGED vars
  BY <1>2, <1>10 DEF vars
<1> QED
  BY <1>3, <1>4, <1>5, <1>6, <1>7, <1>8, <1>9, <1>10 DEF Next, ClientStep
-----------------------------------------------------------------------------
(* A call that returned has stored its messages, before those of later calls. *)

ReturnedInv ==
  /\ \A m \in network : m.call <= call
  /\ \A i \in DOMAIN stored : stored[i] <= call
  /\ \A m \in network : m.stage = "add" /\ m.answer = "ok" => Copies(m.call) # {}
  /\ pc \in {"reading", "stalled"} /\ stage = "add" => Copies(call) # {}
  /\ \A c \in Call : outcome[c] = "returned" => c <= call
  /\ ReturnedComesFirst

\* Handling a request appends its messages, or none.
LEMMA Storing ==
  ASSUME TypeInv, NEW m \in network, Handle(m)
  PROVE  \/ m.stage # "add" /\ stored' = stored
         \/ /\ m.stage = "add" /\ Len(stored') = Len(stored) + 1
            /\ stored'[Len(stored) + 1] = m.call
            /\ \A i \in 1..Len(stored) : stored'[i] = stored[i]
<1>1. stored \in Seq(Call) /\ m.call \in Call
  BY DEF TypeInv, TypeOK, Packet
<1> QED
  BY <1>1 DEF Handle

LEMMA CopiesGrow ==
  ASSUME TypeInv, NEW m \in network, Handle(m)
  PROVE  /\ m.stage # "add" => \A c : Copies(c)' = Copies(c)
         /\ m.stage = "add" =>
              \A c : Copies(c)' = IF c = m.call THEN Copies(c) \union {Len(stored) + 1}
                                                ELSE Copies(c)
<1>1. m.call \in Call /\ stored \in Seq(Call)
  BY DEF TypeInv, TypeOK, Packet
<1>2. stored' \in Seq(Call)
  BY <1>1 DEF Handle
<1>3. DOMAIN stored = 1..Len(stored) /\ DOMAIN stored' = 1..Len(stored') /\ Len(stored) \in Nat
  BY <1>1, <1>2
<1>4. CASE m.stage # "add"
  BY <1>4, Storing DEF Copies
<1>5. CASE m.stage = "add"
  <2> SUFFICES ASSUME NEW c
               PROVE  Copies(c)' = IF c = m.call THEN Copies(c) \union {Len(stored) + 1}
                                                 ELSE Copies(c)
    BY <1>5
  <2>0. Len(stored') = Len(stored) + 1
    BY <1>5, Storing
  <2>1. DOMAIN stored' = DOMAIN stored \union {Len(stored) + 1}
    BY <1>3, <2>0
  <2>2. \A i \in DOMAIN stored' :
          stored'[i] = IF i = Len(stored) + 1 THEN m.call ELSE stored[i]
    BY <1>3, <1>5, <2>1, Storing
  <2>3. \A i \in DOMAIN stored : i # Len(stored) + 1
    BY <1>3
  <2> QED
    BY <2>1, <2>2, <2>3 DEF Copies
<1> QED
  BY <1>4, <1>5

LEMMA ReturnedPreserved ==
  ASSUME TypeInv, ReturnedInv, [Next]_vars
  PROVE  ReturnedInv'
<1>0. /\ outcome \in [Call -> {"none", "returned", "raised"}] /\ call \in 0..MaxCalls
      /\ MaxCalls \in Nat /\ stored \in Seq(Call) /\ network \subseteq Packet
  BY SdkAssumption DEF TypeInv, TypeOK
<1>r. /\ \A m \in network : m.call <= call
      /\ \A i \in DOMAIN stored : stored[i] <= call
      /\ \A m \in network : m.stage = "add" /\ m.answer = "ok" => Copies(m.call) # {}
      /\ pc \in {"reading", "stalled"} /\ stage = "add" => Copies(call) # {}
      /\ \A c \in Call : outcome[c] = "returned" => c <= call
  BY DEF ReturnedInv
\* Nothing is stored: what the step has to show.
<1>1. ASSUME stored' = stored, call' \in Nat, call <= call',
             \A m \in network' : m.call <= call',
             \A m \in network' : m.stage = "add" /\ m.answer = "ok" => Copies(m.call) # {},
             pc' \in {"reading", "stalled"} /\ stage' = "add" => Copies(call') # {},
             \A c \in Call : outcome'[c] = "returned" =>
               outcome[c] = "returned" \/ (c = call /\ Copies(c) # {})
      PROVE  ReturnedInv'
  <2>1. \A c : Copies(c)' = Copies(c)
    BY <1>1 DEF Copies
  <2>2. \A i \in DOMAIN stored : stored[i] \in Nat /\ stored[i] <= call
    BY <1>0 DEF ReturnedInv, Call
  <2>3. ASSUME NEW c \in Call, outcome'[c] = "returned"
        PROVE  /\ c <= call' /\ Copies(c) # {}
               /\ \A d \in Call, j \in 1..Len(stored) :
                    c < d /\ j \in Copies(d) => \E i \in Copies(c) : i < j
    <3>1. CASE outcome[c] = "returned"
      BY <1>0, <1>1, <3>1 DEF ReturnedInv, ReturnedComesFirst, Call
    <3>2. CASE c = call /\ Copies(c) # {}
      <4>1. \A d \in Call, j \in 1..Len(stored) : c < d => j \notin Copies(d)
        BY <1>0, <2>2, <3>2 DEF Copies, Call
      <4> QED
        BY <1>0, <1>1, <3>2, <4>1
    <3> QED
      BY <1>1, <2>3, <3>1, <3>2
  <2>4. \A i \in DOMAIN stored' : stored'[i] <= call'
    BY <1>0, <1>1, <2>2
  <2>5. ReturnedComesFirst'
    BY <1>1, <2>1, <2>3 DEF ReturnedComesFirst
  <2> QED
    BY <1>1, <2>1, <2>3, <2>4, <2>5 DEF ReturnedInv
<1>2. CASE Begin
  <2>1. call' = call + 1 /\ stored' = stored /\ network' = network
    BY <1>2 DEF Begin, server
  <2>2. \A m \in network : m.call \in Nat
    BY <1>0 DEF Packet, Call
  <2>3. pc' \notin {"reading", "stalled"}
    BY <1>2 DEF Begin, Start
  <2>4. \A c \in Call : outcome'[c] = "returned" => outcome[c] = "returned"
    BY <1>0, <1>2 DEF Begin, Start
  <2> QED
    BY <1>0, <1>r, <1>1, <2>1, <2>2, <2>3, <2>4
<1>3. CASE Send
  <2>1. \A m \in network' : m \in network \/ (m.call = call /\ m.answer = "none")
    <3>1. Request.call = call /\ Request.answer = "none"
      BY DEF Request
    <3> QED
      BY <1>3, <3>1 DEF Send
  <2>2. stored' = stored /\ call' = call /\ outcome' = outcome /\ pc' = "waiting"
    BY <1>3 DEF Send
  <2> QED
    BY <1>0, <1>r, <1>1, <2>1, <2>2
<1>4. ASSUME pc # "idle", RetryOrRaise \/ Raise, UNCHANGED <<stored, call>>,
             network' \subseteq network
      PROVE  ReturnedInv'
  <2>1. pc' \notin {"reading", "stalled"}
    BY <1>4, Retrying, Raising
  <2>2. \A c \in Call : outcome'[c] = "returned" => outcome[c] = "returned"
    BY <1>0, <1>4, Retrying, Raising
  <2> QED
    BY <1>0, <1>r, <1>1, <1>4, <2>1, <2>2
<1>5. ASSUME pc # "idle", Return, UNCHANGED <<stored, call>>, network' \subseteq network,
             stage = "add" => Copies(call) # {}
      PROVE  ReturnedInv'
  <2>1. pc' \notin {"reading", "stalled"}
    BY <1>5, Returning
  <2>2. \A c \in Call : outcome'[c] = "returned" =>
          outcome[c] = "returned" \/ (stage = "add" /\ c = call)
    <3>1. \/ outcome' = outcome
          \/ stage = "add" /\ outcome' = [outcome EXCEPT ![call] = "returned"]
      BY <1>5, Returning
    <3> QED
      BY <1>0, <3>1
  <2> QED
    BY <1>0, <1>r, <1>1, <1>5, <2>1, <2>2
<1>6. CASE Unreachable \/ TimesOut \/ GatewayFails \/ Disconnected
  BY <1>4, <1>6 DEF Unreachable, TimesOut, GatewayFails, Disconnected, server
<1>7. CASE BodyArrives
  <2>1. stage = "add" => Copies(call) # {}
    BY <1>7 DEF BodyArrives, ReturnedInv
  <2> QED
    BY <1>5, <1>7, <2>1 DEF BodyArrives, server
<1>8. CASE BodyBreaks
  BY <1>4, <1>8 DEF BodyBreaks, server
<1>9. CASE Wakes
  <2>1. pc' = "ready" /\ UNCHANGED <<network, stored, call, outcome>>
    BY <1>9 DEF Wakes, server
  <2> QED
    BY <1>0, <1>r, <1>1, <2>1
<1>10. CASE Abort
  <2>1. UNCHANGED <<network, stored, call>>
    BY <1>10 DEF Abort, server
  <2>2. CASE UNCHANGED <<stage, pc, outcome>>
    BY <1>0, <1>r, <1>1, <2>1, <2>2
  <2> QED
    BY <1>4, <1>10, <2>1, <2>2 DEF Abort
<1>11. ASSUME NEW m \in network, Answered(m)
       PROVE  ReturnedInv'
  <2>1. UNCHANGED <<stored, call>> /\ network' \subseteq network /\ pc = "waiting"
    BY <1>11 DEF Answered
  <2>2. CASE Succeeds(m)
    <3>1. m.stage = stage /\ m.call = call /\ m.answer = "ok"
      <4>1. m \in Packet
        BY <1>0
      <4>2. [m EXCEPT !.answer = "none"] = Request
        BY <1>11 DEF Answered, AnswerTo
      <4> QED
        BY <2>2, <4>1, <4>2 DEF Succeeds, IsSuccess, Request, Packet
    <3>2. stage = "add" => Copies(call) # {}
      BY <3>1 DEF ReturnedInv
    <3>3. CASE pc' \in {"reading", "stalled"} /\ UNCHANGED <<stage, outcome>>
      BY <1>0, <1>r, <1>1, <2>1, <3>2, <3>3
    <3> QED
      BY <1>5, <2>1, <2>2, <3>2, <3>3 DEF Succeeds
  <2> QED
    BY <1>4, <1>11, <2>1, <2>2 DEF Answered
<1>12. CASE UNCHANGED vars
  BY <1>0, <1>r, <1>1, <1>12 DEF vars, server
<1>13. CASE ServerStep
  <2>0. UNCHANGED <<call, stage, pc, outcome>>
    BY <1>13 DEF ServerStep
  <2>1. PICK m \in network : Handle(m) \/ Reject(m) \/ Lose(m)
    BY <1>13 DEF ServerStep
  <2>2. m \in Packet /\ m.call <= call /\ m.call \in Call
    BY <1>0 DEF ReturnedInv, Packet
  <2>3. ASSUME Reject(m) \/ Lose(m)
        PROVE  ReturnedInv'
    <3>1. \A n \in network' : n \in network \/ (n.call = m.call /\ n.answer # "ok")
      BY <2>2, <2>3 DEF Reject, Lose, Reply, Packet
    <3>2. stored' = stored
      BY <2>3 DEF Reject, Lose
    <3> QED
      BY <1>0, <1>r, <1>1, <2>0, <2>2, <3>1, <3>2
  <2>4. ASSUME Handle(m)
        PROVE  ReturnedInv'
    <3>1. \A n \in network' : n \in network \/ (n.call = m.call /\ n.stage = m.stage)
      BY <2>2, <2>4 DEF Handle, Reply, Packet
    <3>2. CASE m.stage # "add"
      <4>1. stored' = stored
        BY <2>4, <3>2 DEF Handle
      <4> QED
        BY <1>0, <1>r, <1>1, <2>0, <2>2, <3>1, <3>2, <4>1
    <3>3. CASE m.stage = "add"
      <4>1. /\ Len(stored') = Len(stored) + 1 /\ stored'[Len(stored) + 1] = m.call
            /\ \A i \in 1..Len(stored) : stored'[i] = stored[i]
        BY <2>4, <3>3, Storing
      <4>2. \A c : Copies(c)' = IF c = m.call THEN Copies(c) \union {Len(stored) + 1}
                                              ELSE Copies(c)
        BY <2>4, <3>3, CopiesGrow
      <4>3. stored' \in Seq(Call) /\ Len(stored) \in Nat
        BY <1>0, <1>13, NetworkType
      <4>4. \A i \in DOMAIN stored' : stored'[i] <= call
        BY <1>0, <2>2, <4>1, <4>3 DEF ReturnedInv
      <4>5. \A n \in network' : n.call <= call
        BY <2>2, <3>1 DEF ReturnedInv
      <4>6. \A n \in network' : n.stage = "add" /\ n.answer = "ok" => Copies(n.call)' # {}
        <5>1. ASSUME NEW n \in network', n.stage = "add" /\ n.answer = "ok"
              PROVE  Copies(n.call)' # {}
          <6>1. n.call = m.call \/ Copies(n.call) # {}
            BY <3>1, <5>1 DEF ReturnedInv
          <6> QED
            BY <4>2, <6>1
        <5> QED BY <5>1
      <4>7. pc \in {"reading", "stalled"} /\ stage = "add" => Copies(call)' # {}
        <5>1. Copies(call) \subseteq Copies(call)'
          BY <2>0, <4>2
        <5> QED
          BY <1>r, <5>1
      <4>8. ReturnedComesFirst'
        <5>1. SUFFICES ASSUME NEW c \in Call, outcome[c] = "returned"
                       PROVE  /\ Copies(c)' # {}
                              /\ \A d \in Call, j \in 1..Len(stored') :
                                   c < d /\ j \in Copies(d)' => \E i \in Copies(c)' : i < j
          BY <2>0 DEF ReturnedComesFirst
        <5>2. /\ Copies(c) # {}
              /\ \A d \in Call, j \in 1..Len(stored) :
                   c < d /\ j \in Copies(d) => \E i \in Copies(c) : i < j
          BY <5>1 DEF ReturnedInv, ReturnedComesFirst
        <5>3. Copies(c) \subseteq Copies(c)' /\ Copies(c) \subseteq 1..Len(stored)
          <6>1. Copies(c) \subseteq 1..Len(stored)
            BY <1>0 DEF Copies
          <6> QED
            BY <4>2, <6>1
        <5>4. ASSUME NEW d \in Call, NEW j \in 1..Len(stored'), c < d, j \in Copies(d)'
              PROVE  \E i \in Copies(c) : i < j
          <6>1. CASE j = Len(stored) + 1
            BY <4>3, <5>2, <5>3, <6>1
          <6>2. CASE j # Len(stored) + 1
            <7>1. j \in 1..Len(stored) /\ j \in Copies(d)
              BY <4>1, <4>2, <4>3, <5>4, <6>2
            <7> QED
              BY <5>2, <5>4, <7>1
          <6> QED
            BY <6>1, <6>2
        <5> QED
          BY <5>2, <5>3, <5>4
      <4>9. call' = call
        BY <2>0
      <4> QED
        BY <2>0, <4>4, <4>5, <4>6, <4>7, <4>8, <4>9 DEF ReturnedInv
    <3> QED
      BY <3>2, <3>3
  <2> QED
    BY <2>1, <2>3, <2>4
<1> QED
  BY <1>2, <1>3, <1>6, <1>7, <1>8, <1>9, <1>10, <1>11, <1>12, <1>13 DEF Next, ClientStep
-----------------------------------------------------------------------------
(* What is stored, and what a request under way may yet store, has been paid for by an *)
(* attempt without an answer, except once.                                             *)

Pending(c) == {m \in network : m.call = c /\ m.stage = "add" /\ m.answer = "none"}
Refused == \E m \in network : AnswerTo(m) /\ m.answer \in {"retry", "refused"}

\* A call that is over, or that has an attempt which may have succeeded.
Credit(c) ==
  IF \/ c < call
     \/ c = call /\ pc = "idle"
     \/ c = call /\ stage = "add" /\ pc \in {"reading", "stalled"}
     \/ c = call /\ stage = "add" /\ pc = "waiting" /\ ~Refused
  THEN 1 ELSE 0

Counted ==
  \A c \in Call :
    Cardinality(Copies(c)) + Cardinality(Pending(c)) <= unknown[c] + Credit(c)

LEMMA CountsAreNumbers ==
  ASSUME TypeInv
  PROVE  \A c : /\ IsFiniteSet(Copies(c)) /\ Cardinality(Copies(c)) \in Nat
                /\ IsFiniteSet(Pending(c)) /\ Cardinality(Pending(c)) \in Nat
<1> SUFFICES ASSUME NEW c
             PROVE  IsFiniteSet(Copies(c)) /\ IsFiniteSet(Pending(c))
  BY FS_CardinalityType
<1>1. stored \in Seq(Call) /\ IsFiniteSet(network)
  BY DEF TypeInv, TypeOK
<1>2. Copies(c) \subseteq 1..Len(stored) /\ Len(stored) \in Nat
  BY <1>1 DEF Copies
<1>3. IsFiniteSet(1..Len(stored))
  BY <1>2, FS_Interval
<1>4. Pending(c) \subseteq network
  BY DEF Pending
<1> QED
  BY <1>1, <1>2, <1>3, <1>4, FS_Subset

\* A step that stores nothing and sends nothing, and leaves each call what it has paid.
LEMMA NothingSpent ==
  ASSUME TypeInv, TypeInv', Counted, stored' = stored,
         \A c \in Call : Pending(c)' \subseteq Pending(c),
         \A c \in Call : unknown[c] + Credit(c) <= unknown'[c] + Credit(c)'
  PROVE  Counted'
<1> SUFFICES ASSUME NEW c \in Call
             PROVE  Cardinality(Copies(c)') + Cardinality(Pending(c)') <= unknown'[c] + Credit(c)'
  BY DEF Counted
<1>1. Copies(c)' = Copies(c)
  BY DEF Copies
<1>2. Cardinality(Pending(c)') <= Cardinality(Pending(c))
  BY CountsAreNumbers, FS_Subset
<1>3. Cardinality(Copies(c)) \in Nat /\ Cardinality(Pending(c)) \in Nat
  BY CountsAreNumbers
<1>4. IsFiniteSet(Pending(c)')
  BY CountsAreNumbers, FS_Subset
<1>5. Cardinality(Pending(c)') \in Nat
  BY <1>4, FS_CardinalityType
<1>6. unknown[c] \in Nat /\ unknown'[c] \in Nat /\ Credit(c) \in Nat /\ Credit(c)' \in Nat
  BY SdkAssumption DEF TypeInv, TypeOK, Credit
<1>7. Cardinality(Copies(c)) + Cardinality(Pending(c)) <= unknown[c] + Credit(c)
  BY DEF Counted
<1> QED
  BY <1>1, <1>2, <1>3, <1>5, <1>6, <1>7

\* A step of the client, within a call or to the next, which sends nothing.
LEMMA ClientCounts ==
  ASSUME TypeInv, TypeInv', Counted, stored' = stored, network' \subseteq network,
         \/ /\ call' = call
            /\ \A c \in Call : c # call => unknown'[c] = unknown[c]
            /\ unknown[call] + Credit(call) <= unknown'[call] + Credit(call)'
         \/ call' = call + 1 /\ unknown' = unknown
  PROVE  Counted'
<1>1. \A c \in Call : Pending(c)' \subseteq Pending(c)
  BY DEF Pending
<1>2. /\ unknown \in [Call -> Nat] /\ call \in Nat
      /\ \A c \in Call : c \in Nat /\ Credit(c) \in 0..1 /\ Credit(c)' \in 0..1
  BY SdkAssumption DEF TypeInv, TypeOK, Call, Credit
<1>3. ASSUME call' = call, NEW c \in Call, c # call
      PROVE  Credit(c)' = Credit(c)
  BY <1>3 DEF Credit
<1>4. ASSUME call' = call + 1, NEW c \in Call
      PROVE  Credit(c) <= Credit(c)'
  <2>1. CASE c <= call
    <3>1. c < call'
      BY <1>2, <1>4, <2>1
    <3> QED
      BY <1>2, <3>1 DEF Credit
  <2>2. CASE c > call
    <3>1. Credit(c) = 0 /\ Credit(c)' \in 0..1
      BY <1>2, <2>2 DEF Credit
    <3> QED
      BY <3>1
  <2> QED
    BY <1>2, <2>1, <2>2
<1>5. \A c \in Call : unknown[c] + Credit(c) <= unknown'[c] + Credit(c)'
  BY <1>2, <1>3, <1>4
<1> QED
  BY <1>1, <1>5, NothingSpent

\* A request is handled: what was pending is stored.
LEMMA HandledCounts ==
  ASSUME TypeInv, TypeInv', Counted, NEW m \in network, Handle(m),
         UNCHANGED <<call, stage, pc, attempt, unknown>>
  PROVE  Counted'
<1>1. m \in Packet
  BY DEF TypeInv, TypeOK
<1>2. PICK a : a = [m EXCEPT !.answer = "ok"]
  OBVIOUS
<1>3. a.answer = "ok" /\ network' \subseteq (network \ {m}) \union {a} /\ network \ {m} \subseteq network'
  BY <1>1, <1>2 DEF Handle, Reply, Packet
<1>4. m.answer = "none"
  BY DEF Handle
<1>5. ASSUME NEW c
      PROVE  Credit(c) <= Credit(c)'
  <2>1. Refused' => Refused
    BY <1>3 DEF Refused, AnswerTo, Request
  <2> QED
    BY <2>1 DEF Credit
<1>6. \A c : Pending(c)' = Pending(c) \ {m}
  BY <1>3 DEF Pending
<1>7. CASE m.stage # "add"
  <2>1. stored' = stored
    BY <1>7 DEF Handle
  <2>2. \A c \in Call : unknown[c] \in Nat /\ Credit(c) \in Nat /\ Credit(c)' \in Nat
    BY SdkAssumption DEF TypeInv, TypeOK, Credit
  <2> QED
    BY <1>5, <1>6, <2>1, <2>2, NothingSpent
<1>8. CASE m.stage = "add"
  <2> SUFFICES ASSUME NEW c \in Call
               PROVE  Cardinality(Copies(c)') + Cardinality(Pending(c)') <= unknown'[c] + Credit(c)'
    BY DEF Counted
  <2>1. Cardinality(Copies(c)) + Cardinality(Pending(c)) <= unknown[c] + Credit(c)
    BY DEF Counted
  <2>2. unknown'[c] = unknown[c] /\ unknown[c] \in Nat /\ Credit(c) \in Nat /\ Credit(c)' \in Nat
    BY SdkAssumption DEF TypeInv, TypeOK, Credit
  <2>3. /\ IsFiniteSet(Copies(c)) /\ Cardinality(Copies(c)) \in Nat
        /\ IsFiniteSet(Pending(c)) /\ Cardinality(Pending(c)) \in Nat
    BY CountsAreNumbers
  <2>4. CASE c = m.call
    <3>1. m \in Pending(c)
      BY <1>4, <1>8, <2>4 DEF Pending
    <3>2. Cardinality(Pending(c)') = Cardinality(Pending(c)) - 1
      BY <1>6, <2>3, <3>1, FS_RemoveElement
    <3>3. Copies(c)' = Copies(c) \union {Len(stored) + 1}
      BY <1>8, <2>4, CopiesGrow
    <3>4. Cardinality(Copies(c)') \in {Cardinality(Copies(c)), Cardinality(Copies(c)) + 1}
      <4>1. Cardinality(Copies(c) \union {Len(stored) + 1})
              = IF Len(stored) + 1 \in Copies(c) THEN Cardinality(Copies(c))
                                                 ELSE Cardinality(Copies(c)) + 1
        BY <2>3, FS_AddElement
      <4> QED
        BY <3>3, <4>1
    <3> QED
      BY <1>5, <2>1, <2>2, <2>3, <3>2, <3>4
  <2>5. CASE c # m.call
    <3>1. Pending(c)' = Pending(c)
      BY <1>6, <2>5 DEF Pending
    <3>2. Copies(c)' = Copies(c)
      BY <1>8, <2>5, CopiesGrow
    <3> QED
      BY <1>5, <2>1, <2>2, <2>3, <3>1, <3>2
  <2> QED
    BY <2>4, <2>5
<1> QED
  BY <1>7, <1>8

\* A request is rejected: its client will know.
LEMMA RejectedCounts ==
  ASSUME TypeInv, TypeInv', Counted, NEW m \in network, Reject(m),
         UNCHANGED <<call, stage, pc, attempt, unknown>>
  PROVE  Counted'
<1>1. m \in Packet /\ m.answer = "none"
  BY DEF TypeInv, TypeOK, Reject
<1>2. PICK status \in {"retry", "refused"} : Reply(m, status)
  BY DEF Reject
<1>3. PICK a : a = [m EXCEPT !.answer = status]
  OBVIOUS
<1>4. /\ a.answer = status /\ a.call = m.call /\ a.stage = m.stage /\ a.attempt = m.attempt
      /\ [a EXCEPT !.answer = "none"] = m
  BY <1>1, <1>3 DEF Packet
<1>5. network' = (network \ {m}) \union {b \in {a} : pc = "waiting" /\ AnswerTo(b)}
  BY <1>2, <1>3 DEF Reply
<1>6. \A c : Pending(c)' = Pending(c) \ {m}
  BY <1>4, <1>5 DEF Pending
<1>7. stored' = stored
  BY DEF Reject
<1>8. CASE pc = "waiting" /\ AnswerTo(a)
  <2>1. m = Request
    BY <1>4, <1>8 DEF AnswerTo
  <2>2. m.call = call /\ m.stage = stage
    BY <2>1 DEF Request
  <2>3. Refused'
    <3>1. a \in network'
      BY <1>5, <1>8
    <3>2. AnswerTo(a)'
      BY <1>8 DEF AnswerTo, Request
    <3> QED
      BY <1>4, <3>1, <3>2 DEF Refused
  <2> SUFFICES ASSUME NEW c \in Call
               PROVE  Cardinality(Copies(c)') + Cardinality(Pending(c)') <= unknown'[c] + Credit(c)'
    BY DEF Counted
  <2>4. Copies(c)' = Copies(c)
    BY <1>7 DEF Copies
  <2>5. Cardinality(Copies(c)) + Cardinality(Pending(c)) <= unknown[c] + Credit(c)
    BY DEF Counted
  <2>6. /\ unknown'[c] = unknown[c] /\ unknown[c] \in Nat
        /\ Credit(c) \in 0..1 /\ Credit(c)' \in 0..1
    BY SdkAssumption DEF TypeInv, TypeOK, Credit
  <2>7. /\ IsFiniteSet(Copies(c)) /\ Cardinality(Copies(c)) \in Nat
        /\ IsFiniteSet(Pending(c)) /\ Cardinality(Pending(c)) \in Nat
    BY CountsAreNumbers
  <2>8. CASE c = call /\ stage = "add"
    <3>1. m \in Pending(c)
      BY <1>1, <2>2, <2>8 DEF Pending
    <3>2. Cardinality(Pending(c)') = Cardinality(Pending(c)) - 1
      BY <1>6, <2>7, <3>1, FS_RemoveElement
    <3> QED
      BY <2>4, <2>5, <2>6, <2>7, <3>2
  <2>9. CASE ~(c = call /\ stage = "add")
    <3>1. m \notin Pending(c)
      BY <2>2, <2>9 DEF Pending
    <3>2. Pending(c)' = Pending(c)
      BY <1>6, <3>1
    <3>3. Credit(c)' = Credit(c)
      BY <2>9 DEF Credit
    <3> QED
      BY <2>4, <2>5, <2>6, <3>2, <3>3
  <2> QED
    BY <2>8, <2>9
<1>9. CASE ~(pc = "waiting" /\ AnswerTo(a))
  <2>1. network' \subseteq network
    BY <1>5, <1>9
  <2>3. \A c \in Call : unknown[c] \in Nat /\ Credit(c) \in Nat /\ Credit(c)' \in Nat
    BY SdkAssumption DEF TypeInv, TypeOK, Credit
  <2>4. Refused' => Refused
    BY <2>1 DEF Refused, AnswerTo, Request
  <2>5. \A c \in Call : Credit(c) <= Credit(c)'
    BY <2>4 DEF Credit
  <2>6. \A c \in Call : unknown[c] + Credit(c) <= unknown'[c] + Credit(c)'
    BY <2>3, <2>5
  <2> QED
    BY <1>6, <1>7, <2>6, NothingSpent
<1> QED
  BY <1>8, <1>9

LEMMA LostCounts ==
  ASSUME TypeInv, TypeInv', Counted, NEW m \in network, Lose(m),
         UNCHANGED <<call, stage, pc, attempt, unknown>>
  PROVE  Counted'
<1>1. network' \subseteq network /\ stored' = stored
  BY DEF Lose
<1>2. \A c \in Call : unknown[c] \in Nat /\ Credit(c) \in Nat /\ Credit(c)' \in Nat
  BY SdkAssumption DEF TypeInv, TypeOK, Credit
<1>3. Refused' => Refused
  BY <1>1 DEF Refused, AnswerTo, Request
<1>4. \A c \in Call : Credit(c) <= Credit(c)'
  BY <1>3 DEF Credit
<1>5. \A c \in Call : unknown[c] + Credit(c) <= unknown'[c] + Credit(c)'
  BY <1>2, <1>4
<1>6. \A c \in Call : Pending(c)' \subseteq Pending(c)
  BY <1>1 DEF Pending
<1> QED
  BY <1>1, <1>5, <1>6, NothingSpent

LEMMA CountedPreserved ==
  ASSUME TypeInv, TypeInv', Fresh, Counted, [Next]_vars
  PROVE  Counted'
<1>0. /\ unknown \in [Call -> Nat] /\ unknown' \in [Call -> Nat] /\ stage \in {"ensure", "add"}
      /\ \A c : Credit(c) \in 0..1 /\ Credit(c)' \in 0..1
  BY SdkAssumption DEF TypeInv, TypeOK, Credit
<1>1. CASE Begin
  BY <1>1, ClientCounts DEF Begin, server
<1>2. CASE Send
  <2>1. /\ call \in Call /\ call' = call /\ stage' = stage /\ pc = "ready" /\ pc' = "waiting"
        /\ unknown' = unknown /\ stored' = stored /\ network' = network \union {Request}
        /\ attempt' = attempt /\ MaxCalls \in Nat /\ call \in Nat
    BY <1>2, SdkAssumption DEF Send, TypeInv, Call
  <2>2. Credit(call) = 0
    BY <2>1 DEF Credit
  <2>3. ~Refused'
    <3>1. SUFFICES ASSUME NEW m \in network', AnswerTo(m)', m.answer \in {"retry", "refused"}
                   PROVE  FALSE
      BY DEF Refused
    <3>2. [m EXCEPT !.answer = "none"] = Request
      BY <2>1, <3>1 DEF AnswerTo, Request
    <3>3. m # Request
      BY <3>1 DEF Request
    <3>4. m \in network /\ m \in Packet /\ SentBefore(m)
      BY <2>1, <3>3 DEF TypeInv, TypeOK, Fresh
    <3>5. m.call = call /\ m.stage = stage /\ m.attempt = attempt
      BY <3>2, <3>4 DEF Request, Packet
    <3> QED
      BY <2>1, <3>4, <3>5, SdkAssumption DEF SentBefore, TypeInv, TypeOK
  <2> SUFFICES ASSUME NEW c \in Call
               PROVE  Cardinality(Copies(c)') + Cardinality(Pending(c)') <= unknown'[c] + Credit(c)'
    BY DEF Counted
  <2>4. Copies(c)' = Copies(c)
    BY <2>1 DEF Copies
  <2>5. /\ IsFiniteSet(Copies(c)) /\ Cardinality(Copies(c)) \in Nat
        /\ IsFiniteSet(Pending(c)) /\ Cardinality(Pending(c)) \in Nat
        /\ Cardinality(Copies(c)) + Cardinality(Pending(c)) <= unknown[c] + Credit(c)
    BY CountsAreNumbers DEF Counted
  <2>6. Request.call = call /\ Request.stage = stage /\ Request.answer = "none"
    BY DEF Request
  <2>7. CASE c = call /\ stage = "add"
    <3>1. Pending(c)' = Pending(c) \union {Request}
      BY <2>1, <2>6, <2>7 DEF Pending
    <3>2. Cardinality(Pending(c) \union {Request})
            = IF Request \in Pending(c) THEN Cardinality(Pending(c)) ELSE Cardinality(Pending(c)) + 1
      BY <2>5, FS_AddElement
    <3>3. Credit(c)' = 1
      BY <2>1, <2>3, <2>7 DEF Credit
    <3> QED
      BY <1>0, <2>1, <2>2, <2>4, <2>5, <2>7, <3>1, <3>2, <3>3
  <2>8. CASE ~(c = call /\ stage = "add")
    <3>1. Pending(c)' = Pending(c)
      BY <2>1, <2>6, <2>8 DEF Pending
    <3>2. Credit(c)' = Credit(c)
      BY <2>1, <2>8 DEF Credit
    <3> QED
      BY <2>1, <2>4, <2>5, <3>1, <3>2
  <2> QED
    BY <2>7, <2>8
\* An attempt fails: it was paid for, or nothing of it is left.
<1>3. ASSUME pc # "idle", RetryOrRaise \/ Raise, stored' = stored, call' = call,
             network' \subseteq network,
             \/ Forsaken
             \/ unknown' = unknown /\ (Credit(call) = 0 \/ Raise)
      PROVE  Counted'
  <2>1. call \in Call
    BY <1>3 DEF TypeInv
  <2>2. \A c \in Call : c # call => unknown'[c] = unknown[c]
    BY <1>0, <1>3 DEF Forsaken
  <2>3. Raise => Credit(call)' = 1
    BY <1>3, Raising DEF Credit
  <2>4. Forsaken => unknown'[call] = unknown[call] + 1
    BY <1>0, <2>1 DEF Forsaken
  <2>5. unknown[call] + Credit(call) <= unknown'[call] + Credit(call)'
    BY <1>0, <1>3, <2>1, <2>3, <2>4
  <2> QED
    BY <1>3, <2>2, <2>5, ClientCounts
\* An attempt succeeds.
<1>4. ASSUME pc # "idle", stored' = stored, call' = call, network' \subseteq network,
             unknown' = unknown, pc \in {"waiting", "reading"},
             \/ Return
             \/ pc' \in {"reading", "stalled"} /\ stage' = stage
      PROVE  Counted'
  <2>1. call \in Call
    BY <1>4 DEF TypeInv
  <2>2. stage = "ensure" => Credit(call) = 0
    BY <1>4, SdkAssumption DEF Credit, TypeInv, Call
  <2>3. stage = "add" => Credit(call)' = 1
    BY <1>4, Returning DEF Credit
  <2>4. unknown[call] + Credit(call) <= unknown'[call] + Credit(call)'
    BY <1>0, <1>4, <2>1, <2>2, <2>3
  <2> QED
    BY <1>4, <2>4, ClientCounts
<1>5. CASE Unreachable
  <2>1. Credit(call) = 0
    BY <1>5, SdkAssumption DEF Unreachable, Credit, TypeInv, Call
  <2> QED
    BY <1>3, <1>5, <2>1 DEF Unreachable, server
<1>6. CASE TimesOut \/ GatewayFails \/ Disconnected
  BY <1>3, <1>6 DEF TimesOut, GatewayFails, Disconnected, server
<1>7. CASE BodyArrives
  BY <1>4, <1>7 DEF BodyArrives, server
<1>8. CASE BodyBreaks
  BY <1>3, <1>8 DEF BodyBreaks, server
<1>9. ASSUME call' = call, stored' = stored, network' = network, unknown' = unknown,
             Credit(call)' = Credit(call)
      PROVE  Counted'
  <2>1. call \in Call => unknown[call] + Credit(call) <= unknown'[call] + Credit(call)'
    BY <1>0, <1>9
  <2>2. \A c \in Call : unknown[c] + Credit(c) <= unknown'[c] + Credit(c)'
    BY <1>0, <1>9, <2>1 DEF Credit
  <2>3. \A c \in Call : Pending(c)' = Pending(c)
    BY <1>9 DEF Pending
  <2> QED
    BY <1>9, <2>2, <2>3, NothingSpent
<1>10. CASE Wakes
  BY <1>9, <1>10, SdkAssumption DEF Wakes, server, Credit, TypeInv, Call
<1>11. CASE Abort
  <2>1. UNCHANGED <<call, stored, network>>
    BY <1>11 DEF Abort, server
  <2>2. CASE pc = "sleeping" /\ UNCHANGED <<stage, pc, unknown>>
    BY <1>9, <2>1, <2>2 DEF Credit
  <2> QED
    BY <1>3, <1>11, <2>1, <2>2 DEF Abort
<1>12. ASSUME NEW m \in network, Answered(m)
       PROVE  Counted'
  <2>1. /\ UNCHANGED <<stored, call, unknown>> /\ network' \subseteq network
        /\ pc = "waiting" /\ AnswerTo(m)
    BY <1>12 DEF Answered
  <2>2. CASE Succeeds(m)
    BY <1>4, <2>1, <2>2 DEF Succeeds
  <2>3. CASE ~IsSuccess(m) /\ m.answer \in {"retry", "refused"} /\ (RetryOrRaise \/ Raise)
    <3>1. Refused
      BY <2>1, <2>3 DEF Refused
    <3>2. Credit(call) = 0
      BY <2>1, <3>1, SdkAssumption DEF Credit, TypeInv, Call
    <3> QED
      BY <1>3, <2>1, <2>3, <3>2
  <2> QED
    BY <1>12, <2>2, <2>3 DEF Answered
<1>13. CASE ServerStep
  BY <1>13, HandledCounts, RejectedCounts, LostCounts DEF ServerStep
<1>14. CASE UNCHANGED vars
  BY <1>9, <1>14 DEF vars, server, Credit, Refused, AnswerTo, Request
<1> QED
  BY <1>1, <1>2, <1>5, <1>6, <1>7, <1>8, <1>10, <1>11, <1>12, <1>13, <1>14
  DEF Next, ClientStep
-----------------------------------------------------------------------------
CallsInv == TypeInv /\ Fresh /\ FailuresInv /\ ReturnedInv /\ Counted

LEMMA CallsInitially == Init => CallsInv
<1> SUFFICES ASSUME Init PROVE CallsInv
  OBVIOUS
<1>1. TypeInv
  BY TypeInitially
<1>2. \A c : Copies(c) = {} /\ Pending(c) = {}
  BY DEF Init, Copies, Pending
<1>3. Fresh /\ FailuresInv /\ ReturnedInv
  BY <1>2 DEF Init, Fresh, FailuresInv, FailuresWereTried, ReturnedInv, ReturnedComesFirst
<1>4. Counted
  <2>1. \A c \in Call : unknown[c] = 0 /\ Credit(c) \in 0..1
    BY DEF Init, Credit
  <2> QED
    BY <1>2, <2>1, FS_EmptySet DEF Counted
<1> QED
  BY <1>1, <1>3, <1>4 DEF CallsInv

\* Whatever the network, the timeouts and the retries do: a call that returned has
\* stored its messages before those of later calls, they are repeated only by attempts
\* that had no answer, and no call of the python SDK fails without an attempt.
THEOREM StoredAsTheyWereCalled == Spec => []StoredAsCalled
<1>1. CallsInv /\ [Next]_vars => CallsInv'
  BY TypePreserved, FreshPreserved, FailuresPreserved, ReturnedPreserved, CountedPreserved
  DEF CallsInv
<1>2. CallsInv => StoredAsCalled
  <2>1. ASSUME CallsInv, NEW c \in Call
        PROVE  Cardinality(Copies(c)) <= unknown[c] + 1
    <3>1. /\ Cardinality(Copies(c)) \in Nat /\ Cardinality(Pending(c)) \in Nat
          /\ unknown[c] \in Nat /\ Credit(c) \in 0..1
      BY <2>1, CountsAreNumbers, SdkAssumption DEF CallsInv, TypeInv, TypeOK, Credit
    <3>2. Cardinality(Copies(c)) + Cardinality(Pending(c)) <= unknown[c] + Credit(c)
      BY <2>1 DEF CallsInv, Counted
    <3> QED
      BY <3>1, <3>2
  <2> QED
    BY <2>1 DEF CallsInv, FailuresInv, ReturnedInv, StoredAsCalled, CopiesHaveACause
<1> QED
  BY <1>1, <1>2, CallsInitially, PTL DEF Spec

-----------------------------------------------------------------------------
(* Pages (SdkPages). *)

\* The set operators that Pages brings along are the library's.
LEMMA PagesCount ==
  /\ \A S : Pages!Cardinality(S) = Cardinality(S)
  /\ \A S : Pages!IsFiniteSet(S) = IsFiniteSet(S)
BY DEF Pages!Cardinality, Cardinality, Pages!IsFiniteSet, IsFiniteSet

\* A page has a successor when it ends before the last row.
LEMMA PagesOfRows ==
  ASSUME NEW t \in Nat, NEW n \in Nat
  PROVE  n < Pages!PagesOf(t) <=> n * PageSize < t
<1>1. PageSize \in Nat /\ PageSize > 0
  BY PagesAssumed DEF Pages!PagesAssumption
<1> DEFINE d == (t + PageSize - 1) \div PageSize
<1>2. d \in Int /\ d * PageSize <= t + PageSize - 1 /\ t + PageSize - 1 < (d + 1) * PageSize
  BY <1>1
<1>3. n < d => n * PageSize < t
  BY <1>1, <1>2
<1>4. ~(n < d) => ~(n * PageSize < t)
  BY <1>1, <1>2
<1> QED
  BY <1>3, <1>4 DEF Pages!PagesOf

\* Rows get their ids in order and their time when they are inserted; committed messages
\* come before those that are not, of which one transaction has them all.
RowsInv ==
  /\ kind \in Kinds /\ rows \subseteq Pages!Row
  /\ born \in [Pages!Row -> Pages!Row \union {NoTime}]
  /\ open \in [Writer -> SUBSET Pages!Row]
  /\ \E n \in 0..MaxRows : Pages!Inserted = 1..n
  /\ rows \subseteq Pages!Inserted
  /\ \A w \in Writer : open[w] \subseteq Pages!Inserted
  /\ kind = "messages" =>
       /\ \A w \in Writer : \A i \in open[w], j \in rows : j < i
       /\ \A v, w \in Writer : open[v] # {} /\ open[w] # {} => v = w
  /\ kind # "conclusions" => removed = {}
  /\ atStart \subseteq rows \union removed
  /\ seen \in Seq(Pages!Row) /\ page \in Nat /\ pages \in Nat

LEMMA NextIdIsFree ==
  ASSUME RowsInv
  PROVE  /\ Pages!NextId \in Nat \ {0} /\ Pages!Inserted = 1..(Pages!NextId - 1)
         /\ IsFiniteSet(rows) /\ Cardinality(rows) \in Nat
<1>1. PICK n \in 0..MaxRows : Pages!Inserted = 1..n
  BY DEF RowsInv
<1>2. n \in Nat
  BY <1>1, PagesAssumed DEF Pages!PagesAssumption
<1>3. IsFiniteSet(1..n) /\ Cardinality(1..n) = n
  BY <1>2, FS_Interval
<1>4. Pages!NextId = n + 1
  BY <1>1, <1>3, PagesCount DEF Pages!NextId
<1>5. IsFiniteSet(rows)
  BY <1>1, <1>3, FS_Subset DEF RowsInv
<1> QED
  BY <1>1, <1>2, <1>4, <1>5, FS_CardinalityType

LEMMA RowsInitially == Pages!Init => RowsInv
<1> SUFFICES ASSUME Pages!Init PROVE RowsInv
  OBVIOUS
<1>1. Pages!Inserted = {}
  BY DEF Pages!Init, Pages!Inserted
<1>2. 0 \in 0..MaxRows /\ 1..0 = {}
  BY PagesAssumed DEF Pages!PagesAssumption
<1> QED
  BY <1>1, <1>2 DEF Pages!Init, RowsInv

\* What a writer inserts is new, and nothing else changes its time.
LEMMA Inserting ==
  ASSUME RowsInv, NEW w \in Writer, NEW n \in 1..2, Pages!Insert(w, n)
  PROVE  /\ born' \in [Pages!Row -> Pages!Row \union {NoTime}]
         /\ open' \in [Writer -> SUBSET Pages!Row]
         /\ Pages!Inserted' = 1..(Pages!NextId + n - 1) /\ Pages!NextId + n - 1 \in 0..MaxRows
         /\ Pages!Inserted \subseteq Pages!Inserted'
         /\ \A i \in Pages!Inserted : born'[i] = born[i]
         /\ open'[w] = Pages!NextId..(Pages!NextId + n - 1)
         /\ \A v \in Writer : v # w => open'[v] = open[v]
<1> DEFINE batch == Pages!NextId..(Pages!NextId + n - 1)
<1>1. /\ Pages!NextId \in Nat \ {0} /\ Pages!Inserted = 1..(Pages!NextId - 1)
      /\ Pages!NextId + n - 1 \in Pages!Row
  BY NextIdIsFree DEF Pages!Insert
<1>2. /\ MaxRows \in Nat /\ NoTime \notin Nat
      /\ Pages!NextId + n - 1 \in Nat /\ Pages!NextId + n - 1 <= MaxRows
  BY <1>1, PagesAssumed DEF Pages!PagesAssumption, Pages!Row
<1>3. batch \subseteq Pages!Row /\ Pages!NextId \in Pages!Row
  BY <1>1, <1>2 DEF Pages!Row
<1>4. /\ born' = [i \in Pages!Row |-> IF i \in batch THEN Pages!NextId ELSE born[i]]
      /\ open' = [open EXCEPT ![w] = batch]
  BY DEF Pages!Insert
<1>5. \A i \in Pages!Row : born'[i] # NoTime <=> i \in batch \/ born[i] # NoTime
  BY <1>1, <1>2, <1>4
<1>6. Pages!Inserted' = batch \union Pages!Inserted
  BY <1>3, <1>5 DEF Pages!Inserted
<1>7. Pages!Inserted' = 1..(Pages!NextId + n - 1)
  BY <1>1, <1>6
<1>8. \A i \in Pages!Inserted : i \notin batch /\ i \in Pages!Row
  BY <1>1 DEF Pages!Inserted
<1>9. born \in [Pages!Row -> Pages!Row \union {NoTime}] /\ open \in [Writer -> SUBSET Pages!Row]
  BY DEF RowsInv
<1> QED
  BY <1>2, <1>3, <1>4, <1>6, <1>7, <1>8, <1>9

Before(i) == {j \in rows \ {i} : Pages!MayPrecede(j, i)}
Untied(i) == \A j \in rows \ {i} : ~(Pages!MayPrecede(i, j) /\ Pages!MayPrecede(j, i))

\* An answer has all rows, and one that nothing ties to another has its place.
LEMMA AnswersHaveAll ==
  ASSUME RowsInv, NEW s \in Pages!SetToSeqs(rows)
  PROVE  /\ s \in Seq(rows) /\ Len(s) = Cardinality(rows)
         /\ \A a, b \in 1..Len(s) : s[a] = s[b] => a = b
         /\ \A i \in rows : \E a \in 1..Len(s) : s[a] = i
<1> DEFINE n == Cardinality(rows)
<1>1. n \in Nat /\ IsFiniteSet(rows)
  BY NextIdIsFree
<1>2. s \in [1..n -> rows] /\ \A a, b \in 1..n : a # b => s[a] # s[b]
  BY PagesCount DEF Pages!SetToSeqs
<1>3. s \in Seq(rows) /\ Len(s) = n
  BY <1>1, <1>2, IsASeq, LenProperties
<1>4. IsFiniteSet(1..n) /\ Cardinality(1..n) = n
  BY <1>1, FS_Interval
<1>5. s \in Injection(1..n, rows)
  BY <1>2 DEF Injection, IsInjective
<1>6. s \in Surjection(1..n, rows)
  BY <1>1, <1>4, <1>5, FS_Injection
<1> QED
  BY <1>2, <1>3, <1>6 DEF Surjection

LEMMA PlaceInAnswer ==
  ASSUME RowsInv, NEW s \in Pages!SetToSeqs(rows), Pages!IsAnswer(s),
         NEW a \in 1..Len(s), Untied(s[a])
  PROVE  IsFiniteSet(Before(s[a])) /\ Cardinality(Before(s[a])) = a - 1
<1>1. /\ s \in Seq(rows) /\ Len(s) \in Nat
      /\ \A b, c \in 1..Len(s) : s[b] = s[c] => b = c
      /\ \A i \in rows : \E b \in 1..Len(s) : s[b] = i
  BY AnswersHaveAll
<1>2. \A b, c \in 1..Len(s) : b < c => Pages!MayPrecede(s[b], s[c])
  <2>1. DOMAIN s = 1..Len(s)
    BY <1>1
  <2> QED
    BY <2>1 DEF Pages!IsAnswer
<1>3. \A b \in 1..(a - 1) : b \in 1..Len(s) /\ b < a /\ s[b] \in rows /\ s[b] # s[a]
  BY <1>1
<1>4. \A b \in 1..(a - 1) : s[b] \in Before(s[a])
  BY <1>2, <1>3 DEF Before
<1>5. ASSUME NEW j \in Before(s[a])
      PROVE  \E b \in 1..(a - 1) : s[b] = j
  <2>1. j \in rows /\ j # s[a] /\ Pages!MayPrecede(j, s[a])
    BY DEF Before
  <2>2. PICK b \in 1..Len(s) : s[b] = j
    BY <1>1, <2>1
  <2>3. ~(a < b)
    BY <1>2, <2>1, <2>2 DEF Untied
  <2>4. b # a
    BY <2>1, <2>2
  <2> QED
    BY <2>2, <2>3, <2>4
<1> DEFINE f == [b \in 1..(a - 1) |-> s[b]]
<1>6. f \in Injection(1..(a - 1), Before(s[a]))
  BY <1>1, <1>3, <1>4 DEF Injection, IsInjective
<1>7. f \in Surjection(1..(a - 1), Before(s[a]))
  BY <1>4, <1>5 DEF Surjection
<1>8. ExistsBijection(1..(a - 1), Before(s[a]))
  BY <1>6, <1>7 DEF ExistsBijection, Bijection
<1>9. IsFiniteSet(1..(a - 1)) /\ Cardinality(1..(a - 1)) = a - 1
  <2>1. a - 1 \in Nat
    BY <1>1
  <2>2. Cardinality(1..(a - 1)) = IF 1 > a - 1 THEN 0 ELSE (a - 1) - 1 + 1
    BY <2>1, FS_Interval
  <2>3. IsFiniteSet(1..(a - 1))
    BY <2>1, FS_Interval
  <2> QED
    BY <1>1, <2>2, <2>3
<1> QED
  BY <1>8, <1>9, FS_Bijection

LEMMA MinOfTwo ==
  ASSUME NEW a \in Int, NEW b \in Int
  PROVE  Pages!Min({a, b}) = IF a <= b THEN a ELSE b
BY DEF Pages!Min

\* Page n + 1 of an answer.
LEMMA PageOfAnswer ==
  ASSUME RowsInv, NEW s \in Pages!SetToSeqs(rows), NEW n \in Nat
  PROVE  /\ Pages!Page(s, n + 1) \in Seq(rows) /\ n * PageSize \in Nat
         /\ (n + 1) * PageSize = n * PageSize + PageSize
         /\ n * PageSize <= Len(s) =>
              Len(Pages!Page(s, n + 1)) = IF n * PageSize + PageSize <= Len(s) THEN PageSize
                                                                ELSE Len(s) - n * PageSize
         /\ \A k \in 1..Len(Pages!Page(s, n + 1)) : Pages!Page(s, n + 1)[k] = s[n * PageSize + k]
<1>1. PageSize \in Nat /\ PageSize > 0
  BY PagesAssumed DEF Pages!PagesAssumption
<1>2. s \in Seq(rows) /\ Len(s) \in Nat
  BY AnswersHaveAll
<1>3. /\ n * PageSize \in Nat /\ (n + 1) * PageSize = n * PageSize + PageSize
      /\ ((n + 1) - 1) * PageSize = n * PageSize
  BY <1>1
<1> DEFINE first == n * PageSize + 1
           last == IF n * PageSize + PageSize <= Len(s) THEN n * PageSize + PageSize ELSE Len(s)
<1>4. Pages!Page(s, n + 1) = SubSeq(s, first, last)
  <2>1. Pages!Min({(n + 1) * PageSize, Len(s)}) = last
    BY <1>1, <1>2, <1>3, MinOfTwo
  <2> QED
    BY <1>3, <2>1 DEF Pages!Page
<1>6. first \in Nat \ {0} /\ last \in 0..Len(s)
  BY <1>1, <1>2, <1>3
<1>7. SubSeq(s, first, last) \in Seq(rows)
  BY <1>2, <1>6
<1>8. Len(SubSeq(s, first, last)) = IF first <= last THEN last - first + 1 ELSE 0
  BY <1>2, <1>6
<1>9. \A k \in 1..Len(SubSeq(s, first, last)) : SubSeq(s, first, last)[k] = s[first + k - 1]
  BY <1>2, <1>6, <1>8
<1>10. n * PageSize <= Len(s) =>
         Len(Pages!Page(s, n + 1)) = IF n * PageSize + PageSize <= Len(s) THEN PageSize
                                                           ELSE Len(s) - n * PageSize
  <2>1. PICK k \in Nat : k = n * PageSize
    BY <1>3
  <2>2. Len(Pages!Page(s, n + 1)) = IF first <= last THEN last - first + 1 ELSE 0
    BY <1>4, <1>8
  <2>3. first = k + 1 /\ last = IF k + PageSize <= Len(s) THEN k + PageSize ELSE Len(s)
    BY <2>1
  <2> HIDE DEF first, last
  <2>4. k <= Len(s) =>
          (IF first <= last THEN last - first + 1 ELSE 0)
            = IF k + PageSize <= Len(s) THEN PageSize ELSE Len(s) - k
    BY <1>1, <1>2, <2>3
  <2> QED
    BY <2>1, <2>2, <2>4
<1>11. \A k \in 1..Len(Pages!Page(s, n + 1)) : Pages!Page(s, n + 1)[k] = s[n * PageSize + k]
  <2>1. \A k \in 1..Len(Pages!Page(s, n + 1)) : first + k - 1 = n * PageSize + k
    BY <1>3, <1>4, <1>7
  <2> QED
    BY <1>4, <1>9, <2>1
<1> QED
  BY <1>3, <1>4, <1>7, <1>10, <1>11

LEMMA RowsPreserved ==
  ASSUME RowsInv, [Pages!Next]_Pages!vars
  PROVE  RowsInv'
<1>1. ASSUME NEW w \in Writer, NEW n \in 1..2, Pages!Insert(w, n)
      PROVE  RowsInv'
  <2>1. UNCHANGED <<kind, rows, removed, page, pages, seen, atStart>>
    BY <1>1 DEF Pages!Insert, Pages!reader
  <2>2. \E k \in 0..MaxRows : Pages!Inserted' = 1..k
    BY <1>1, Inserting
  <2>3. \A v \in Writer : open'[v] \subseteq Pages!Inserted'
    <3>1. Pages!NextId \in Nat \ {0}
      BY NextIdIsFree
    <3>2. open'[w] \subseteq Pages!Inserted'
      BY <1>1, <3>1, Inserting
    <3> QED
      BY <1>1, <3>2, Inserting DEF RowsInv
  <2>4. ASSUME kind = "messages"
        PROVE  /\ \A v \in Writer : \A i \in open'[v], j \in rows : j < i
               /\ \A u, v \in Writer : open'[u] # {} /\ open'[v] # {} => u = v
    <3>1. \A v \in Writer : open[v] = {}
      BY <1>1, <2>4 DEF Pages!Insert, Pages!MayInsert
    <3>2. \A v \in Writer : v # w => open'[v] = {}
      BY <1>1, <3>1, Inserting
    <3>3. \A i \in open'[w], j \in rows : j < i
      <4>1. rows \subseteq 1..(Pages!NextId - 1) /\ Pages!NextId \in Nat \ {0}
        BY NextIdIsFree DEF RowsInv
      <4>2. open'[w] = Pages!NextId..(Pages!NextId + n - 1)
        BY <1>1, Inserting
      <4> QED
        BY <4>1, <4>2
    <3> QED
      BY <3>2, <3>3
  <2> QED
    BY <1>1, <2>1, <2>2, <2>3, <2>4, Inserting DEF RowsInv
<1>2. ASSUME NEW w \in Writer, Pages!Commit(w)
      PROVE  RowsInv'
  <2>1. /\ UNCHANGED <<kind, born, removed, page, pages, seen, atStart>>
        /\ rows' = rows \union open[w] /\ open' = [open EXCEPT ![w] = {}] /\ open[w] # {}
    BY <1>2 DEF Pages!Commit, Pages!reader
  <2>2. Pages!Inserted' = Pages!Inserted
    BY <2>1 DEF Pages!Inserted
  <2>3. /\ open' \in [Writer -> SUBSET Pages!Row] /\ open'[w] = {}
        /\ \A v \in Writer : v # w => open'[v] = open[v]
    BY <2>1 DEF RowsInv
  <2>4. ASSUME kind = "messages"
        PROVE  \A v \in Writer : open'[v] = {}
    BY <2>1, <2>3, <2>4 DEF RowsInv
  <2>5. \A v \in Writer : open'[v] \subseteq Pages!Inserted
    BY <2>3 DEF RowsInv
  <2> QED
    BY <2>1, <2>2, <2>3, <2>4, <2>5 DEF RowsInv
<1>3. ASSUME NEW i \in Pages!Row, Pages!Delete(i)
      PROVE  RowsInv'
  <2>1. Pages!Inserted' = Pages!Inserted
    BY <1>3 DEF Pages!Delete, Pages!Inserted
  <2> QED
    BY <1>3, <2>1 DEF Pages!Delete, Pages!reader, RowsInv
<1>4. CASE Pages!Fetch
  <2>1. Pages!Inserted' = Pages!Inserted
    BY <1>4 DEF Pages!Fetch, Pages!Inserted
  <2>2. PICK s \in Pages!SetToSeqs(rows) : seen' = seen \o Pages!Page(s, page + 1)
    BY <1>4 DEF Pages!Fetch
  <2>3. seen' \in Seq(Pages!Row)
    <3>1. Pages!Page(s, page + 1) \in Seq(rows) /\ rows \subseteq Pages!Row /\ page \in Nat
      BY PageOfAnswer DEF RowsInv
    <3>2. Pages!Page(s, page + 1) \in Seq(Pages!Row)
      BY <3>1
    <3> QED
      BY <2>2, <3>2 DEF RowsInv
  <2>4. pages' \in Nat
    <3>1. PageSize \in Nat \ {0} /\ Cardinality(rows) \in Nat
      BY NextIdIsFree, PagesAssumed DEF Pages!PagesAssumption
    <3>2. pages' = Pages!PagesOf(Cardinality(rows))
      BY <1>4, PagesCount DEF Pages!Fetch
    <3> QED
      BY <3>1, <3>2 DEF Pages!PagesOf
  <2>5. /\ UNCHANGED <<kind, rows, born, open, removed>> /\ page' \in Nat
        /\ atStart' \in {rows, atStart}
    BY <1>4 DEF Pages!Fetch, RowsInv
  <2> QED
    BY <2>1, <2>3, <2>4, <2>5 DEF RowsInv
<1>5. CASE UNCHANGED Pages!vars
  <2>1. Pages!Inserted' = Pages!Inserted
    BY <1>5 DEF Pages!vars, Pages!Inserted
  <2> QED
    BY <1>5, <2>1 DEF Pages!vars, RowsInv
<1> QED
  BY <1>1, <1>2, <1>3, <1>4, <1>5 DEF Pages!Next
-----------------------------------------------------------------------------
\* An iteration over messages has yielded the first rows, and before it goes on whole pages.
MessagesInv ==
  kind = "messages" =>
    /\ \A n \in 1..Len(seen) : seen[n] \in rows /\ Cardinality(Before(seen[n])) = n - 1
    /\ page = 0 \/ page < pages => Len(seen) = page * PageSize

\* A row that is there from the start and that nothing ties to another is ahead of the
\* iterator until it is yielded.
AheadInv ==
  /\ page = 0 => atStart = {} /\ seen = <<>>
  /\ \A i \in atStart :
       i \notin Pages!ToSet(seen) /\ ~Pages!MayBeMissed(i) =>
         page < pages /\ page * PageSize <= Cardinality(Before(i))

PageInv == RowsInv /\ MessagesInv /\ AheadInv

LEMMA BeforeIsFinite ==
  ASSUME RowsInv
  PROVE  \A i : IsFiniteSet(Before(i)) /\ Cardinality(Before(i)) \in Nat
<1>1. \A i : Before(i) \subseteq rows
  BY DEF Before
<1>2. \A i : IsFiniteSet(Before(i))
  BY <1>1, NextIdIsFree, FS_Subset
<1> QED
  BY <1>2, FS_CardinalityType

LEMMA MessagesAreOrdered ==
  ASSUME RowsInv, kind = "messages", NEW i \in rows, NEW j \in rows
  PROVE  /\ Untied(i) /\ (j \in Before(i) <=> j < i)
         /\ i < j => Cardinality(Before(i)) < Cardinality(Before(j))
<1>1. rows \subseteq Nat
  BY DEF RowsInv, Pages!Row
<1>2. \A a, b : Pages!MayPrecede(a, b) <=> a < b
  BY DEF Pages!MayPrecede
<1>3. Untied(i) /\ \A k \in rows : (k \in Before(i) <=> k < i) /\ (k \in Before(j) <=> k < j)
  BY <1>1, <1>2 DEF Untied, Before
<1>4. ASSUME i < j
      PROVE  Cardinality(Before(i)) < Cardinality(Before(j))
  <2>1. Before(i) \subseteq Before(j) /\ i \in Before(j) /\ i \notin Before(i)
    <3>1. \A k \in rows : k < i => k < j
      BY <1>1, <1>4
    <3>2. ~(i < i)
      BY <1>1
    <3>3. Before(i) \subseteq rows
      BY DEF Before
    <3> QED
      BY <1>3, <1>4, <3>1, <3>2, <3>3
  <2>2. /\ IsFiniteSet(Before(j)) /\ Cardinality(Before(i)) \in Nat
        /\ Cardinality(Before(j)) \in Nat
    BY BeforeIsFinite
  <2>3. /\ Cardinality(Before(i)) <= Cardinality(Before(j))
        /\ Cardinality(Before(j)) = Cardinality(Before(i)) => Before(j) = Before(i)
    BY <2>1, <2>2, FS_Subset
  <2> QED
    BY <2>1, <2>2, <2>3
<1> QED
  BY <1>3, <1>4

\* What cannot be missed is not tied.
LEMMA NotMissable ==
  ASSUME RowsInv, NEW i, i \in rows \/ i \in atStart, ~Pages!MayBeMissed(i)
  PROVE  i \in rows /\ Untied(i)
<1>1. removed = {}
  BY DEF Pages!MayBeMissed, RowsInv
<1>2. i \in rows
  BY <1>1 DEF RowsInv
<1>3. CASE kind = "messages"
  BY <1>2, <1>3, MessagesAreOrdered
<1>4. CASE kind # "messages"
  <2>1. \A j \in rows \ {i} : born[j] # born[i]
    BY <1>4 DEF Pages!MayBeMissed
  <2>2. \A j \in rows : born[j] \in Nat
    <3>1. \A j \in rows : j \in Pages!Row /\ born[j] # NoTime
      BY DEF RowsInv, Pages!Inserted
    <3>2. Pages!Row \subseteq Nat
      BY DEF Pages!Row
    <3> QED
      BY <3>1, <3>2 DEF RowsInv
  <2>3. kind \in {"peers", "conclusions"}
    BY <1>4, PagesAssumed DEF RowsInv, Pages!PagesAssumption
  <2>4. ASSUME NEW j \in rows \ {i}
        PROVE  ~(Pages!MayPrecede(i, j) /\ Pages!MayPrecede(j, i))
    <3>1. born[i] \in Nat /\ born[j] \in Nat /\ born[i] # born[j]
      BY <1>2, <2>1, <2>2
    <3>2. CASE kind = "peers"
      BY <3>1, <3>2 DEF Pages!MayPrecede
    <3>3. CASE kind = "conclusions"
      BY <3>1, <3>3 DEF Pages!MayPrecede
    <3> QED
      BY <2>3, <3>2, <3>3
  <2> QED
    BY <1>2, <2>4 DEF Untied
<1> QED
  BY <1>2, <1>3, <1>4

LEMMA PageInitially == Pages!Init => PageInv
<1> SUFFICES ASSUME Pages!Init PROVE PageInv
  OBVIOUS
<1>1. page * PageSize = 0
  BY PagesAssumed DEF Pages!Init, Pages!PagesAssumption
<1> QED
  BY <1>1, RowsInitially DEF Pages!Init, PageInv, MessagesInv, AheadInv

\* Writers may add rows, but not before those of a conversation.
LEMMA WritingKeeps ==
  ASSUME PageInv, RowsInv', UNCHANGED <<kind, page, pages, seen, atStart>>,
         kind = "messages" \/ removed' = {} => rows \subseteq rows',
         \A i \in rows : born'[i] = born[i], removed \subseteq removed',
         kind = "messages" => \A i \in rows' \ rows, j \in rows : j < i
  PROVE  PageInv'
<1>1. \A i, j \in rows : Pages!MayPrecede(i, j)' <=> Pages!MayPrecede(i, j)
  BY DEF Pages!MayPrecede
<1>2. ASSUME rows \subseteq rows', NEW i \in rows
      PROVE  Before(i) \subseteq Before(i)'
  BY <1>1, <1>2 DEF Before
<1>3. ASSUME kind = "messages", NEW i \in rows
      PROVE  Before(i)' = Before(i) /\ i \in rows'
  <2>1. rows \subseteq rows' /\ rows' \subseteq Nat
    BY <1>3 DEF RowsInv, Pages!Row
  <2>2. \A j \in rows' : Pages!MayPrecede(j, i)' => j \in rows
    <3>1. \A j \in rows' : Pages!MayPrecede(j, i)' <=> j < i
      BY <1>3 DEF Pages!MayPrecede
    <3> QED
      BY <1>3, <2>1, <3>1
  <2> QED
    BY <1>1, <2>1, <2>2 DEF Before
<1>4. MessagesInv'
  BY <1>3 DEF PageInv, MessagesInv
<1>5. ASSUME NEW i \in atStart, i \notin Pages!ToSet(seen), ~Pages!MayBeMissed(i)'
      PROVE  page < pages /\ page * PageSize <= Cardinality(Before(i)')
  <2>1. rows \subseteq rows'
    BY <1>5 DEF Pages!MayBeMissed
  <2>2. ~Pages!MayBeMissed(i)
    <3>1. removed' = {} => removed = {}
      OBVIOUS
    <3>2. i \in rows
      <4>1. removed = {}
        BY <1>5, <3>1 DEF Pages!MayBeMissed, PageInv, RowsInv
      <4> QED
        BY <4>1 DEF PageInv, RowsInv
    <3> QED
      BY <1>5, <2>1, <3>1, <3>2 DEF Pages!MayBeMissed
  <2>3. page < pages /\ page * PageSize <= Cardinality(Before(i)) /\ i \in rows
    BY <1>5, <2>2, NotMissable DEF PageInv, AheadInv
  <2>4. Before(i) \subseteq Before(i)'
    BY <1>2, <2>1, <2>3
  <2>5. IsFiniteSet(Before(i)') /\ Cardinality(Before(i)') \in Nat
    <3>1. Before(i)' \subseteq rows'
      BY DEF Before
    <3>2. IsFiniteSet(rows')
      <4>1. PICK n \in 0..MaxRows : Pages!Inserted' = 1..n
        BY DEF RowsInv
      <4>2. n \in Int
        BY <4>1
      <4>3. IsFiniteSet(1..n)
        BY <4>2, FS_Interval
      <4>4. rows' \subseteq 1..n
        BY <4>1 DEF RowsInv
      <4> QED
        BY <4>3, <4>4, FS_Subset
    <3> QED
      BY <3>1, <3>2, FS_Subset, FS_CardinalityType
  <2>6. Cardinality(Before(i)) <= Cardinality(Before(i)')
    BY <2>4, <2>5, FS_Subset
  <2>7. Cardinality(Before(i)) \in Nat
    BY BeforeIsFinite DEF PageInv
  <2>8. page * PageSize \in Nat
    <3>1. page \in Nat /\ PageSize \in Nat
      BY PagesAssumed DEF PageInv, RowsInv, Pages!PagesAssumption
    <3> QED
      BY <3>1
  <2> QED
    BY <2>3, <2>5, <2>6, <2>7, <2>8
<1>6. AheadInv'
  BY <1>5 DEF PageInv, AheadInv
<1> QED
  BY <1>4, <1>6 DEF PageInv

\* The iterator takes the next page.
LEMMA FetchingKeeps ==
  ASSUME PageInv, RowsInv', Pages!Fetch
  PROVE  PageInv'
<1>1. PICK s \in Pages!SetToSeqs(rows) :
        Pages!IsAnswer(s) /\ seen' = seen \o Pages!Page(s, page + 1)
  BY DEF Pages!Fetch
<1>2. /\ UNCHANGED <<kind, rows, born, open, removed>> /\ page' = page + 1
      /\ pages' = Pages!PagesOf(Cardinality(rows))
      /\ atStart' = IF page = 0 THEN rows ELSE atStart
      /\ page = 0 \/ page < pages
  BY PagesCount DEF Pages!Fetch, Pages!HasNextPage
<1>3. /\ page \in Nat /\ seen \in Seq(Pages!Row) /\ RowsInv /\ Cardinality(rows) \in Nat
      /\ PageSize \in Nat /\ PageSize > 0
  <2>1. RowsInv
    BY DEF PageInv
  <2>2. PageSize \in Nat /\ PageSize > 0
    BY PagesAssumed DEF Pages!PagesAssumption
  <2>3. Cardinality(rows) \in Nat
    BY <2>1, NextIdIsFree
  <2> QED
    BY <2>1, <2>2, <2>3 DEF RowsInv
<1>4. \A i : Before(i)' = Before(i)
  BY <1>2 DEF Before, Pages!MayPrecede
<1>5. /\ s \in Seq(rows) /\ Len(s) = Cardinality(rows)
      /\ \A i \in rows : \E a \in 1..Len(s) : s[a] = i
  BY <1>3, AnswersHaveAll
<1> DEFINE items == Pages!Page(s, page + 1)
<1>f. PICK start \in Nat : start = page * PageSize
  BY <1>3
<1>6. /\ items \in Seq(rows) /\ page' * PageSize = start + PageSize
      /\ start <= Len(s) =>
           Len(items) = IF start + PageSize <= Len(s) THEN PageSize ELSE Len(s) - start
      /\ \A k \in 1..Len(items) : items[k] = s[start + k]
  BY <1>2, <1>3, <1>f, PageOfAnswer
<1>7. /\ seen' \in Seq(Pages!Row) /\ items \in Seq(rows) /\ items \in Seq(Pages!Row)
      /\ Len(seen') = Len(seen) + Len(items)
      /\ \A n \in 1..Len(seen) : seen'[n] = seen[n]
      /\ \A n \in 1..Len(items) : seen'[Len(seen) + n] = items[n]
  <2>1. items \in Seq(Pages!Row)
    <3>1. rows \subseteq Pages!Row
      BY <1>3 DEF RowsInv
    <3> HIDE DEF items
    <3> QED
      BY <1>6, <3>1
  <2> HIDE DEF items
  <2> QED
    BY <1>1, <1>3, <1>6, <2>1 DEF items
<1>8. page' < pages' <=> start + PageSize < Cardinality(rows)
  <2>1. page' \in Nat /\ (page' < pages' <=> page' * PageSize < Cardinality(rows))
    BY <1>2, <1>3, PagesOfRows
  <2> QED
    BY <1>6, <2>1
<1> HIDE DEF items
<1>9. ASSUME NEW a \in 1..Len(s), start < a, a <= start + PageSize
      PROVE  s[a] \in Pages!ToSet(seen')
  <2>1. a - start \in 1..Len(items)
    BY <1>3, <1>5, <1>6, <1>9
  <2>2. items[a - start] = s[start + (a - start)] /\ start + (a - start) = a
    BY <1>6, <1>9, <2>1
  <2>3. seen'[Len(seen) + (a - start)] = s[a] /\ Len(seen) + (a - start) \in 1..Len(seen')
    BY <1>3, <1>7, <2>1, <2>2
  <2>4. Len(seen) + (a - start) \in DOMAIN seen'
    BY <1>7, <2>3
  <2> QED
    BY <2>3, <2>4 DEF Pages!ToSet
<1>10. Pages!ToSet(seen) \subseteq Pages!ToSet(seen')
  <2>1. \A n \in DOMAIN seen : n \in DOMAIN seen' /\ seen'[n] = seen[n]
    BY <1>3, <1>7
  <2> QED
    BY <2>1 DEF Pages!ToSet
<1>11. AheadInv'
  <2>1. ASSUME NEW i \in atStart', i \notin Pages!ToSet(seen'), ~Pages!MayBeMissed(i)'
        PROVE  page' < pages' /\ page' * PageSize <= Cardinality(Before(i)')
    <3>1. ~Pages!MayBeMissed(i)
      BY <1>2, <2>1 DEF Pages!MayBeMissed
    <3>2. i \in rows /\ Untied(i)
      <4>1. removed' = {}
        BY <2>1 DEF Pages!MayBeMissed, RowsInv
      <4>2. i \in rows
        BY <1>2, <4>1 DEF RowsInv
      <4> QED
        BY <1>3, <3>1, <4>2, NotMissable
    <3>3. start <= Cardinality(Before(i))
      <4>1. CASE page = 0
        BY <1>3, <1>f, <4>1, BeforeIsFinite
      <4>2. CASE page # 0
        BY <1>2, <1>f, <1>10, <2>1, <3>1, <4>2 DEF PageInv, AheadInv
      <4> QED
        BY <4>1, <4>2
    <3>4. PICK a \in 1..Len(s) : s[a] = i
      BY <1>5, <3>2
    <3>5. Cardinality(Before(i)) = a - 1
      BY <1>1, <1>3, <3>2, <3>4, PlaceInAnswer
    <3>6. start < a /\ a > start + PageSize
      BY <1>3, <1>5, <1>6, <1>9, <2>1, <3>3, <3>4, <3>5
    <3>7. start + PageSize < Cardinality(rows) /\ start + PageSize <= Cardinality(Before(i))
      BY <1>3, <1>5, <1>6, <3>4, <3>5, <3>6
    <3> QED
      BY <1>2, <1>4, <1>6, <1>8, <3>7
  <2> QED
    BY <1>2, <1>3, <2>1 DEF AheadInv
<1>12. MessagesInv'
  <2> SUFFICES ASSUME kind = "messages"
               PROVE  /\ \A n \in 1..Len(seen') :
                           seen'[n] \in rows /\ Cardinality(Before(seen'[n])) = n - 1
                      /\ page' = 0 \/ page' < pages' => Len(seen') = page' * PageSize
    BY <1>2, <1>4 DEF MessagesInv
  <2>1. /\ \A n \in 1..Len(seen) : seen[n] \in rows /\ Cardinality(Before(seen[n])) = n - 1
        /\ Len(seen) = start
    BY <1>2, <1>f DEF PageInv, MessagesInv
  <2>2. Len(seen) <= Len(s)
    <3>1. CASE Len(seen) = 0
      BY <1>3, <1>5, <3>1
    <3>2. CASE Len(seen) # 0
      <4>1. Len(seen) \in 1..Len(seen)
        BY <1>3, <3>2
      <4>2. PICK a \in 1..Len(s) : s[a] = seen[Len(seen)]
        BY <1>5, <2>1, <4>1
      <4>3. Untied(s[a])
        BY <1>3, <2>1, <4>1, <4>2, MessagesAreOrdered
      <4>4. Cardinality(Before(s[a])) = a - 1
        BY <1>1, <1>3, <4>3, PlaceInAnswer
      <4> QED
        BY <1>3, <1>5, <2>1, <4>1, <4>2, <4>4
    <3> QED
      BY <3>1, <3>2
  <2>3. Len(items) = IF start + PageSize <= Len(s) THEN PageSize ELSE Len(s) - start
    BY <1>6, <2>1, <2>2
  <2>4. ASSUME NEW n \in 1..Len(seen')
        PROVE  seen'[n] \in rows /\ Cardinality(Before(seen'[n])) = n - 1
    <3>1. CASE n \in 1..Len(seen)
      BY <1>7, <2>1, <3>1
    <3>2. CASE n \notin 1..Len(seen)
      <4>1. n - Len(seen) \in 1..Len(items) /\ n = Len(seen) + (n - Len(seen))
        BY <1>3, <1>7, <2>4, <3>2
      <4>2. seen'[n] = items[n - Len(seen)]
        BY <1>7, <4>1
      <4>a. items[n - Len(seen)] = s[n]
        BY <1>6, <2>1, <4>1
      <4>3. n \in 1..Len(s)
        BY <1>3, <1>5, <2>1, <2>2, <2>3, <4>1
      <4>4. s[n] \in rows
        BY <1>5, <4>3
      <4>5. Untied(s[n])
        BY <1>3, <4>4, MessagesAreOrdered
      <4>6. Cardinality(Before(s[n])) = n - 1
        BY <1>1, <1>3, <4>3, <4>5, PlaceInAnswer
      <4> QED
        BY <4>2, <4>a, <4>4, <4>6
    <3> QED
      BY <3>1, <3>2
  <2>5. page' < pages' => Len(seen') = page' * PageSize
    BY <1>3, <1>5, <1>6, <1>7, <1>8, <2>1, <2>3
  <2>6. page' # 0
    BY <1>2, <1>3
  <2> QED
    BY <2>4, <2>5, <2>6
<1> QED
  BY <1>11, <1>12 DEF PageInv

LEMMA PagePreserved == PageInv /\ [Pages!Next]_Pages!vars => PageInv'
<1> SUFFICES ASSUME PageInv, [Pages!Next]_Pages!vars
             PROVE  PageInv'
  OBVIOUS
<1>0. RowsInv /\ RowsInv'
  BY RowsPreserved DEF PageInv
<1>1. ASSUME NEW w \in Writer, NEW n \in 1..2, Pages!Insert(w, n)
      PROVE  PageInv'
  <2>1. UNCHANGED <<kind, rows, removed, page, pages, seen, atStart>>
    BY <1>1 DEF Pages!Insert, Pages!reader
  <2>2. \A i \in rows : born'[i] = born[i]
    BY <1>0, <1>1, Inserting DEF RowsInv
  <2> QED
    BY <1>0, <2>1, <2>2, WritingKeeps
<1>2. ASSUME NEW w \in Writer, Pages!Commit(w)
      PROVE  PageInv'
  <2>1. /\ UNCHANGED <<kind, born, removed, page, pages, seen, atStart>>
        /\ rows' = rows \union open[w]
    BY <1>2 DEF Pages!Commit, Pages!reader
  <2>2. kind = "messages" => \A i \in rows' \ rows, j \in rows : j < i
    BY <1>0, <2>1 DEF RowsInv
  <2> QED
    BY <1>0, <2>1, <2>2, WritingKeeps
<1>3. ASSUME NEW i \in Pages!Row, Pages!Delete(i)
      PROVE  PageInv'
  <2>1. /\ UNCHANGED <<kind, born, page, pages, seen, atStart>> /\ kind = "conclusions"
        /\ removed' = removed \union {i}
    BY <1>3 DEF Pages!Delete, Pages!reader
  <2> QED
    BY <1>0, <2>1, WritingKeeps
<1>4. CASE Pages!Fetch
  BY <1>0, <1>4, FetchingKeeps
<1>5. CASE UNCHANGED Pages!vars
  BY <1>0, <1>5, WritingKeeps DEF Pages!vars
<1> QED
  BY <1>1, <1>2, <1>3, <1>4, <1>5 DEF Pages!Next

LEMMA ExhaustiveSoFar == PageInv => IterationIsExhaustive
<1> SUFFICES ASSUME PageInv PROVE Pages!IterationIsExhaustive
  BY DEF IterationIsExhaustive
<1>1. ASSUME Pages!IterationEnded, NEW i \in atStart \ removed
      PROVE  i \in Pages!ToSet(seen) \/ Pages!MayBeMissed(i)
  BY <1>1 DEF PageInv, AheadInv, Pages!IterationEnded, Pages!HasNextPage
<1>2. ASSUME kind = "messages"
      PROVE  /\ \A i \in rows : (\E j \in Pages!ToSet(seen) : i < j) => i \in Pages!ToSet(seen)
             /\ Pages!IsInjective(seen)
  <2>1. RowsInv /\ seen \in Seq(Pages!Row) /\ rows \subseteq Nat
    BY DEF PageInv, RowsInv, Pages!Row
  <2>2. \A n \in 1..Len(seen) : seen[n] \in rows /\ Cardinality(Before(seen[n])) = n - 1
    BY <1>2 DEF PageInv, MessagesInv
  <2>3. ASSUME NEW i \in rows, NEW m \in 1..Len(seen), i < seen[m]
        PROVE  \E n \in 1..Len(seen) : seen[n] = i
    <3>1. /\ Cardinality(Before(i)) \in Nat
          /\ Cardinality(Before(i)) < Cardinality(Before(seen[m]))
          /\ Cardinality(Before(seen[m])) = m - 1 /\ seen[m] \in rows
      BY <1>2, <2>1, <2>2, <2>3, BeforeIsFinite, MessagesAreOrdered
    <3>2. PICK n \in 1..Len(seen) : n = Cardinality(Before(i)) + 1
      BY <2>1, <3>1
    <3>3. seen[n] \in rows /\ Cardinality(Before(seen[n])) = Cardinality(Before(i))
      BY <2>2, <3>1, <3>2
    <3>4. ~(seen[n] < i) /\ ~(i < seen[n])
      <4>1. /\ seen[n] < i => Cardinality(Before(seen[n])) < Cardinality(Before(i))
            /\ i < seen[n] => Cardinality(Before(i)) < Cardinality(Before(seen[n]))
        BY <1>2, <2>1, <3>3, MessagesAreOrdered
      <4> QED
        BY <3>1, <3>3, <4>1
    <3>5. seen[n] \in Nat /\ i \in Nat
      BY <2>1, <3>3
    <3> QED
      BY <3>4, <3>5
  <2>4. DOMAIN seen = 1..Len(seen)
    BY <2>1
  <2>5. Pages!IsInjective(seen)
    <3>1. ASSUME NEW a \in 1..Len(seen), NEW b \in 1..Len(seen), seen[a] = seen[b]
          PROVE  a = b
      <4>1. a - 1 = b - 1
        BY <2>2, <3>1
      <4> QED
        BY <2>1, <4>1
    <3> QED
      BY <2>4, <3>1 DEF Pages!IsInjective
  <2> QED
    BY <2>3, <2>4, <2>5 DEF Pages!ToSet
<1> QED
  BY <1>1, <1>2 DEF Pages!IterationIsExhaustive

\* However others write while it goes on, an iteration yields what was there from its
\* start to its end; over messages, a beginning of the conversation and nothing twice.
THEOREM IterationsAreExhaustive == Pages!Spec => []IterationIsExhaustive
<1> QED
  BY PageInitially, PagePreserved, ExhaustiveSoFar, PTL DEF Pages!Spec

-----------------------------------------------------------------------------
(* Objects (SdkHandles). *)

Steps == [name : Handles!StepNames, kinds : SUBSET Handles!Kind, fields : SUBSET Handles!Fields]
\* What uses an answer comes after the request, and TypeScript sends no answer back.
Ordered(todo, sdk) ==
  \A i \in DOMAIN todo :
    /\ todo[i].name = "echo" => sdk # "typescript"
    /\ i > 1 /\ todo[i].name = "echo" => todo[i-1].name \in Handles!Answers
    /\ i > 1 /\ todo[i].name = "adopt" => todo[i-1].name \in Handles!Answers \union {"echo"}

Values(keys) == [metadata : Nat, configuration : [keys -> Nat]]
States == {"absent", "active", "inactive", "leaving"}
RecordsOf(keys) == [state : States, value : Values(keys)]
MayBeGiven(g, keys) ==
  g.metadata \in Nat \union {None} /\ g.configuration \in [keys -> Nat] \union {None}

\* The next step uses the last answer, or the answer is there.
Uses(tk) ==
  \/ Head(tk.todo).name \in {"echo", "adopt"}
  \/ tk.handled /\ Head(tk.todo).name \in Handles!Answers

TaskColumns ==
  {"todo", "on", "handled", "current", "raced", "given", "answer", "during"}
Ready(tk, sdk, keys) ==
  /\ DOMAIN tk = TaskColumns /\ tk.on \in Handles!Rec
  /\ tk.todo \in Seq(Steps) /\ tk.todo # <<>> /\ Ordered(tk.todo, sdk)
  /\ MayBeGiven(tk.given, keys) /\ tk.during \subseteq Values(keys)
Remembers(tk, rec) ==
  /\ rec[tk.on].value \in tk.during
  /\ Uses(tk) =>
       /\ tk.answer \in tk.during
       /\ tk.raced \/ (rec[tk.on].value = tk.answer /\ rec[tk.on].state \in {"active", "leaving"})
  /\ tk.handled /\ Head(tk.todo).name = "fetch" => tk.answer \in tk.during
  /\ tk.handled /\ Head(tk.todo).name = "put" =>
       \E v \in tk.during : Handles!IsPartOf(Handles!BodyOf(Head(tk.todo), tk), v)
Sound(tk, rec, sdk, keys) ==
  tk = Handles!Idle \/ (Ready(tk, sdk, keys) /\ Remembers(tk, rec))

HandlesTypes ==
  /\ recordKind \in Handles!Kind /\ language \in [Programs -> DOMAIN Handles!RunsOf]
  /\ uses \in Nat /\ record \in [Handles!Rec -> RecordsOf(Handles!Key)]
  /\ DOMAIN intended = Handles!Rec
  /\ DOMAIN object = Programs /\ \A p \in Programs : DOMAIN object[p] = Handles!Rec
TasksAreSound ==
  /\ DOMAIN task = Programs /\ \A p \in Programs : DOMAIN task[p] = Handles!Task
  /\ \A p \in Programs : \A t \in Handles!Task :
       Sound(task[p][t], record, language[p], Handles!Key)
HandlesInv == HandlesTypes /\ TasksAreSound /\ UpdatesSurvive

LEMMA PlansAreOrdered ==
  ASSUME NEW k \in Handles!Kind, NEW sdk \in DOMAIN Handles!RunsOf,
         NEW plan \in Handles!Plans(k, sdk)
  PROVE  /\ plan \in Seq(Steps) /\ plan # <<>> /\ Ordered(plan, sdk)
         /\ Head(plan).name \notin {"echo", "adopt"}
<1>1. /\ plan \in Seq(Steps) /\ Handles!WellOrdered(plan)
      /\ Handles!Echoes(plan) => sdk # "typescript"
  BY HandlesAssumed DEF Handles!HandlesAssumption, Handles!PlansAssumption, Steps
<1>2. plan # <<>>
  BY DEF Handles!Plans
<1>3. Ordered(plan, sdk)
  BY <1>1 DEF Ordered, Handles!WellOrdered, Handles!Echoes
<1>4. 1 \in DOMAIN plan /\ Head(plan) = plan[1]
  BY <1>1, <1>2, EmptySeq
<1>5. Head(plan).name \notin {"echo", "adopt"}
  BY <1>1, <1>4 DEF Handles!WellOrdered
<1> QED
  BY <1>1, <1>2, <1>3, <1>5

LEMMA TailsAreOrdered ==
  ASSUME NEW todo \in Seq(Steps), NEW sdk, todo # <<>>, Ordered(todo, sdk), Len(todo) # 1
  PROVE  /\ Tail(todo) \in Seq(Steps) /\ Tail(todo) # <<>> /\ Ordered(Tail(todo), sdk)
         /\ Head(Tail(todo)).name = "echo" => Head(todo).name \in Handles!Answers
         /\ Head(Tail(todo)).name = "adopt" => Head(todo).name \in Handles!Answers \union {"echo"}
<1>0. Len(todo) \in Nat \ {0} /\ DOMAIN todo = 1..Len(todo)
  BY EmptySeq, LenProperties
<1>1. Len(todo) \in Nat /\ Len(todo) > 1 /\ DOMAIN todo = 1..Len(todo)
  BY <1>0
<1>2. /\ Tail(todo) \in Seq(Steps) /\ DOMAIN Tail(todo) = 1..(Len(todo) - 1)
      /\ \A i \in 1..(Len(todo) - 1) : Tail(todo)[i] = todo[i+1]
  BY <1>1
<1>3. Tail(todo) # <<>> /\ Head(Tail(todo)) = todo[2] /\ Head(todo) = todo[1]
  <2>1. Len(Tail(todo)) = Len(todo) - 1
    BY <1>1
  <2>2. Tail(todo) # <<>>
    <3>1. Len(<<>>) = 0
      BY EmptySeq
    <3>2. Len(Tail(todo)) # 0
      BY <1>1, <2>1
    <3> QED
      BY <3>1, <3>2, Zenon
  <2>3. Head(todo) = todo[1] /\ Head(Tail(todo)) = Tail(todo)[1]
    BY <1>2, <2>2
  <2>4. Tail(todo)[1] = todo[1+1]
    BY <1>1, <1>2
  <2> QED
    BY <2>2, <2>3, <2>4
<1>4. ASSUME NEW i \in DOMAIN Tail(todo)
      PROVE  /\ i + 1 \in DOMAIN todo /\ Tail(todo)[i] = todo[i+1]
             /\ i > 1 => i - 1 \in DOMAIN Tail(todo) /\ Tail(todo)[i-1] = todo[i]
             /\ i + 1 > 1 /\ (i + 1) - 1 = i
  BY <1>1, <1>2
<1>5. Ordered(Tail(todo), sdk)
  BY <1>4 DEF Ordered
<1>6. 2 \in DOMAIN todo
  BY <1>1
<1>7. /\ 2 > 1 /\ todo[2].name = "echo" => todo[2-1].name \in Handles!Answers
      /\ 2 > 1 /\ todo[2].name = "adopt" =>
           todo[2-1].name \in Handles!Answers \union {"echo"}
  BY <1>6, Zenon DEF Ordered
<1> QED
  BY <1>2, <1>3, <1>5, <1>7

LEMMA UpdatesHaveTheirType ==
  ASSUME NEW rec \in RecordsOf(Handles!Key), NEW body, MayBeGiven(body, Handles!Key)
  PROVE  /\ Handles!GotOrCreated(rec, body) \in RecordsOf(Handles!Key)
         /\ Handles!GotOrCreated(rec, body).state \in {"active", "leaving"}
         /\ Handles!IsPartOf(body, Handles!GotOrCreated(rec, body).value)
<1> DEFINE new == Handles!Updated(rec.value, body)
<1>1. rec.value \in Values(Handles!Key)
  BY DEF RecordsOf
<1>2. rec.value.metadata \in Nat /\ rec.value.configuration \in [Handles!Key -> Nat]
  BY <1>1 DEF Values
<1>3. new.metadata \in Nat
  BY <1>2 DEF MayBeGiven, Handles!Updated
<1>4. new.configuration \in [Handles!Key -> Nat]
  <2>1. CASE body.configuration = None
    BY <1>2, <2>1 DEF Handles!Updated
  <2>2. CASE body.configuration # None
    <3>1. body.configuration \in [Handles!Key -> Nat]
      BY <2>2 DEF MayBeGiven
    <3>2. new.configuration = Handles!Configured(rec.value.configuration, body.configuration)
      BY <2>2 DEF Handles!Updated
    <3> QED
      BY <1>2, <3>1, <3>2 DEF Handles!Configured
  <2> QED
    BY <2>1, <2>2
<1>5. new \in Values(Handles!Key)
  BY <1>3, <1>4 DEF Values, Handles!Updated
<1>6. Handles!IsPartOf(body, new)
  <2>1. body.metadata \in {None, new.metadata}
    BY DEF Handles!Updated
  <2>2. ASSUME body.configuration # None, NEW k \in DOMAIN body.configuration
        PROVE  body.configuration[k] \in {0, new.configuration[k]}
    <3>1. body.configuration \in [Handles!Key -> Nat]
      BY <2>2 DEF MayBeGiven
    <3>2. new.configuration = Handles!Configured(rec.value.configuration, body.configuration)
      BY <2>2 DEF Handles!Updated
    <3> QED
      BY <2>2, <3>1, <3>2 DEF Handles!Configured
  <2> QED
    BY <2>1, <2>2 DEF Handles!IsPartOf
<1>7. /\ Handles!GotOrCreated(rec, body).value = new
      /\ Handles!GotOrCreated(rec, body).state \in {"active", "leaving"}
  BY DEF Handles!GotOrCreated
<1>8. Handles!GotOrCreated(rec, body) \in RecordsOf(Handles!Key)
  BY <1>5 DEF RecordsOf, States, Handles!GotOrCreated
<1> QED
  BY <1>6, <1>7, <1>8

LEMMA EchoesChangeNothing ==
  ASSUME NEW rec \in RecordsOf(Handles!Key), rec.state \in {"active", "leaving"}
  PROVE  Handles!GotOrCreated(rec, rec.value) = rec
<1>1. /\ rec.value \in Values(Handles!Key)
      /\ rec = [state |-> rec.state, value |-> rec.value]
  BY DEF RecordsOf
<1>2. /\ rec.value.configuration \in [Handles!Key -> Nat]
      /\ rec.value = [metadata |-> rec.value.metadata,
                      configuration |-> rec.value.configuration]
  BY <1>1 DEF Values
<1>3. Handles!Configured(rec.value.configuration, rec.value.configuration)
        = rec.value.configuration
  BY <1>2 DEF Handles!Configured
<1>4. Handles!Updated(rec.value, rec.value) = rec.value
  BY <1>2, <1>3 DEF Handles!Updated
<1> QED
  BY <1>1, <1>4 DEF Handles!GotOrCreated

\* What is left of a call that goes on.
LEMMA OnwardIsReady ==
  ASSUME NEW tk, NEW sdk, NEW keys, Ready(tk, sdk, keys), Handles!Onward(tk) # Handles!Idle
  PROVE  /\ Len(tk.todo) # 1 /\ Handles!Onward(tk) = [tk EXCEPT !.todo = Tail(@), !.handled = FALSE]
         /\ Ready(Handles!Onward(tk), sdk, keys)
         /\ Handles!Onward(tk).todo = Tail(tk.todo) /\ ~Handles!Onward(tk).handled
         /\ Handles!Onward(tk).on = tk.on /\ Handles!Onward(tk).raced = tk.raced
         /\ Handles!Onward(tk).answer = tk.answer /\ Handles!Onward(tk).during = tk.during
         /\ Handles!Onward(tk).given = tk.given
<1>1. Len(tk.todo) # 1 /\ Handles!Onward(tk) = [tk EXCEPT !.todo = Tail(@), !.handled = FALSE]
  BY DEF Handles!Onward
<1> DEFINE on == Handles!Onward(tk)
<1>2. DOMAIN tk = TaskColumns
  BY DEF Ready
<1>3. /\ DOMAIN on = TaskColumns /\ on.todo = Tail(tk.todo) /\ ~on.handled
      /\ on.on = tk.on /\ on.raced = tk.raced /\ on.answer = tk.answer
      /\ on.during = tk.during /\ on.given = tk.given
  BY <1>1, <1>2 DEF TaskColumns
<1>4. Tail(tk.todo) \in Seq(Steps) /\ Tail(tk.todo) # <<>> /\ Ordered(Tail(tk.todo), sdk)
  BY <1>1, TailsAreOrdered DEF Ready
<1>5. Ready(on, sdk, keys)
  BY <1>3, <1>4 DEF Ready
<1> QED
  BY <1>1, <1>3, <1>5

\* A step that is done hands its answer on to a step that uses it.
LEMMA OnwardIsSound ==
  ASSUME NEW tk, NEW rec, NEW sdk, NEW keys, tk # Handles!Idle, Sound(tk, rec, sdk, keys),
         tk.handled \/ Head(tk.todo).name \notin Handles!Answers,
         tk.handled \/ Head(tk.todo).name # "echo"
  PROVE  Sound(Handles!Onward(tk), rec, sdk, keys)
<1>1. SUFFICES ASSUME Handles!Onward(tk) # Handles!Idle
               PROVE  Ready(Handles!Onward(tk), sdk, keys) /\ Remembers(Handles!Onward(tk), rec)
  BY DEF Sound
<1> DEFINE on == Handles!Onward(tk)
<1>2. Ready(tk, sdk, keys) /\ Remembers(tk, rec)
  BY DEF Sound
<1>3. /\ Len(tk.todo) # 1 /\ Ready(on, sdk, keys) /\ on.todo = Tail(tk.todo) /\ ~on.handled
      /\ on.on = tk.on /\ on.raced = tk.raced /\ on.answer = tk.answer /\ on.during = tk.during
  BY <1>1, <1>2, OnwardIsReady
<1>4. /\ Head(Tail(tk.todo)).name = "echo" => Head(tk.todo).name \in Handles!Answers
      /\ Head(Tail(tk.todo)).name = "adopt" =>
           Head(tk.todo).name \in Handles!Answers \union {"echo"}
  BY <1>2, <1>3, TailsAreOrdered DEF Ready
<1> HIDE DEF on
<1>5. Uses(on) => Uses(tk)
  BY <1>3, <1>4 DEF Uses
<1>6. rec[on.on].value \in on.during
  BY <1>2, <1>3 DEF Remembers
<1>7. Uses(on) =>
       /\ on.answer \in on.during
       /\ on.raced \/ (rec[on.on].value = on.answer /\ rec[on.on].state \in {"active", "leaving"})
  BY <1>2, <1>3, <1>5 DEF Remembers
<1>8. Remembers(on, rec)
  BY <1>3, <1>6, <1>7 DEF Remembers
<1> QED
  BY <1>3, <1>8 DEF on

\* What another call does to a record is noted.
LEMMA NotedIsSound ==
  ASSUME NEW tk, NEW r \in Handles!Rec, NEW new \in RecordsOf(Handles!Key), NEW rec,
         NEW sdk, Sound(tk, record, sdk, Handles!Key), DOMAIN record = Handles!Rec,
         rec = [record EXCEPT ![r] = new]
  PROVE  Sound(Handles!Noted(tk, r, new), rec, sdk, Handles!Key)
<1> DEFINE noted == Handles!Noted(tk, r, new)
<1>1. CASE tk = Handles!Idle
  BY <1>1 DEF Handles!Noted, Sound
<1>2. CASE tk # Handles!Idle /\ tk.on # r
  <2>1. noted = tk /\ Ready(tk, sdk, Handles!Key) /\ Remembers(tk, record)
    BY <1>2 DEF Handles!Noted, Sound
  <2>2. rec[tk.on] = record[tk.on]
    BY <1>2, <2>1 DEF Ready
  <2>3. Remembers(tk, rec)
    BY <2>1, <2>2 DEF Remembers
  <2> QED
    BY <2>1, <2>3 DEF Sound
<1>3. CASE tk # Handles!Idle /\ tk.on = r
  <2>1. Ready(tk, sdk, Handles!Key) /\ Remembers(tk, record)
    BY <1>3 DEF Sound
  <2>2. noted = [tk EXCEPT !.raced = @ \/ new # record[r], !.during = @ \union {new.value}]
    BY <1>3 DEF Handles!Noted
  <2>3. DOMAIN tk = TaskColumns
    BY <2>1 DEF Ready
  <2>4. /\ DOMAIN noted = TaskColumns /\ noted.todo = tk.todo /\ noted.on = tk.on
        /\ noted.given = tk.given /\ noted.answer = tk.answer
    BY <2>2, <2>3 DEF TaskColumns
  <2>5. noted.during = tk.during \union {new.value}
    BY <2>2, <2>3 DEF TaskColumns
  <2>6. noted.handled = tk.handled
    BY <2>2, <2>3 DEF TaskColumns
  <2>7. noted.raced = (tk.raced \/ new # record[r])
    BY <2>2, <2>3 DEF TaskColumns
  <2>8. new.value \in Values(Handles!Key)
    BY DEF RecordsOf
  <2> HIDE DEF noted
  <2>9. Ready(noted, sdk, Handles!Key)
    BY <2>1, <2>4, <2>5, <2>8 DEF Ready
  <2>10. rec[r] = new
    OBVIOUS
  <2>11. Uses(noted) = Uses(tk) /\ Head(noted.todo) = Head(tk.todo)
    BY <2>4, <2>6 DEF Uses
  <2>12. Uses(tk) => tk.answer \in noted.during
    BY <2>1, <2>5 DEF Remembers
  <2>13. Uses(tk) /\ ~noted.raced =>
           rec[r].value = tk.answer /\ rec[r].state \in {"active", "leaving"}
    BY <1>3, <2>1, <2>7, <2>10 DEF Remembers
  <2>14. noted.handled /\ Head(noted.todo).name = "fetch" => noted.answer \in noted.during
    BY <2>1, <2>4, <2>5, <2>6 DEF Remembers
  <2>15. Handles!BodyOf(Head(noted.todo), noted) = Handles!BodyOf(Head(tk.todo), tk)
    BY <2>4 DEF Handles!BodyOf
  <2>16. noted.handled /\ Head(noted.todo).name = "put" =>
           \E v \in noted.during : Handles!IsPartOf(Handles!BodyOf(Head(noted.todo), noted), v)
    BY <2>1, <2>4, <2>5, <2>6, <2>15 DEF Remembers
  <2>17. rec[noted.on].value \in noted.during
    BY <1>3, <2>4, <2>5, <2>10
  <2>18. Uses(noted) => noted.answer \in noted.during /\
           (noted.raced \/ (rec[noted.on].value = noted.answer
                           /\ rec[noted.on].state \in {"active", "leaving"}))
    BY <1>3, <2>4, <2>11, <2>12, <2>13
  <2>19. Remembers(noted, rec)
    BY <2>14, <2>16, <2>17, <2>18 DEF Remembers
  <2> QED
    BY <2>9, <2>19 DEF Sound, noted
<1> QED
  BY <1>1, <1>2, <1>3

\* One call goes on, and nothing else changes what calls or records hold.
LEMMA OneTaskChanges ==
  ASSUME HandlesInv, NEW p \in Programs, NEW t \in Handles!Task, NEW tk,
         task' = [task EXCEPT ![p][t] = tk], Sound(tk, record, language[p], Handles!Key),
         UNCHANGED <<recordKind, language, record, intended, overtaken>>,
         uses' \in Nat,
         DOMAIN object' = Programs /\ \A q \in Programs : DOMAIN object'[q] = Handles!Rec
  PROVE  HandlesInv'
<1>1. Handles!Key' = Handles!Key
  BY DEF Handles!Key
<1>2. HandlesTypes'
  BY <1>1 DEF HandlesInv, HandlesTypes
<1>3. DOMAIN task' = Programs /\ \A q \in Programs : DOMAIN task'[q] = Handles!Task
  BY DEF HandlesInv, TasksAreSound
<1>4. ASSUME NEW q \in Programs, NEW u \in Handles!Task
      PROVE  Sound(task'[q][u], record, language[q], Handles!Key)
  <2>1. task'[q][u] = IF q = p /\ u = t THEN tk ELSE task[q][u]
    BY DEF HandlesInv, TasksAreSound
  <2> QED
    BY <2>1 DEF HandlesInv, TasksAreSound
<1>5. TasksAreSound'
  BY <1>1, <1>3, <1>4 DEF TasksAreSound
<1>6. UpdatesSurvive'
  BY DEF HandlesInv, UpdatesSurvive, Handles!UpdatesSurvive
<1> QED
  BY <1>2, <1>5, <1>6 DEF HandlesInv

LEMMA CallKeeps ==
  ASSUME HandlesInv, NEW p \in Programs, NEW t \in Handles!Task, NEW r \in Handles!Rec,
         Handles!Call(p, t, r)
  PROVE  HandlesInv'
<1>1. PICK plan \in Handles!Plans(recordKind, language[p]) :
        \E keys \in (IF Handles!Writes(plan, "configuration")
                      THEN (SUBSET Handles!Key) \ {{}} ELSE {{}}) :
          LET given == [metadata |-> uses + 1,
                        configuration |-> [k \in Handles!Key |-> IF k \in keys THEN uses + 1 ELSE 0]]
          IN task' = [task EXCEPT ![p][t] =
                       [Handles!Idle EXCEPT !.todo = plan, !.on = r, !.current = TRUE,
                          !.given = [f \in Handles!Fields |->
                                       IF Handles!Writes(plan, f) THEN given[f] ELSE None],
                          !.during = {record[r].value}]]
  BY DEF Handles!Call
<1>2. PICK keys \in (IF Handles!Writes(plan, "configuration")
                    THEN (SUBSET Handles!Key) \ {{}} ELSE {{}}) :
        LET given == [metadata |-> uses + 1,
                      configuration |-> [k \in Handles!Key |-> IF k \in keys THEN uses + 1 ELSE 0]]
        IN task' = [task EXCEPT ![p][t] =
                     [Handles!Idle EXCEPT !.todo = plan, !.on = r, !.current = TRUE,
                        !.given = [f \in Handles!Fields |->
                                     IF Handles!Writes(plan, f) THEN given[f] ELSE None],
                        !.during = {record[r].value}]]
  BY <1>1
<1> DEFINE configuration == [k \in Handles!Key |-> IF k \in keys THEN uses + 1 ELSE 0]
           given == [metadata |-> uses + 1, configuration |-> configuration]
           sent == [f \in Handles!Fields |-> IF Handles!Writes(plan, f) THEN given[f] ELSE None]
           tk == [Handles!Idle EXCEPT !.todo = plan, !.on = r, !.current = TRUE,
                    !.given = sent, !.during = {record[r].value}]
<1>3. task' = [task EXCEPT ![p][t] = tk]
  BY <1>2
<1>4. DOMAIN Handles!Idle = TaskColumns /\ ~Handles!Idle.handled
  BY DEF Handles!Idle, TaskColumns
<1>5. /\ DOMAIN tk = TaskColumns /\ tk.todo = plan /\ tk.on = r /\ tk.given = sent
      /\ ~tk.handled /\ tk.during = {record[r].value}
  BY <1>4 DEF TaskColumns
<1>6. recordKind \in Handles!Kind /\ language[p] \in DOMAIN Handles!RunsOf /\ uses \in Nat
  BY DEF HandlesInv, HandlesTypes
<1>7. /\ plan \in Seq(Steps) /\ plan # <<>> /\ Ordered(plan, language[p])
      /\ Head(plan).name \notin {"echo", "adopt"}
  BY <1>6, PlansAreOrdered
<1>8. record[r].value \in Values(Handles!Key)
  BY DEF HandlesInv, HandlesTypes, RecordsOf
<1>9. MayBeGiven(sent, Handles!Key)
  <2>1. configuration \in [Handles!Key -> Nat]
    BY <1>6
  <2>2. /\ given["metadata"] = uses + 1 /\ given["configuration"] = configuration
    OBVIOUS
  <2>3. /\ sent.metadata = IF Handles!Writes(plan, "metadata") THEN uses + 1 ELSE None
        /\ sent.configuration =
             IF Handles!Writes(plan, "configuration") THEN configuration ELSE None
    BY <2>2 DEF Handles!Fields
  <2> HIDE DEF sent, configuration
  <2> QED
    BY <1>6, <2>1, <2>3 DEF MayBeGiven
<1> HIDE DEF tk, sent
<1>10. Ready(tk, language[p], Handles!Key)
  BY <1>5, <1>7, <1>8, <1>9 DEF Ready
<1>11. ~Uses(tk)
  BY <1>5, <1>7 DEF Uses
<1>12. Remembers(tk, record)
  BY <1>5, <1>11 DEF Remembers
<1>13. Sound(tk, record, language[p], Handles!Key)
  BY <1>10, <1>12 DEF Sound
<1>14. /\ UNCHANGED <<recordKind, language, record, intended, overtaken>>
       /\ uses' \in Nat /\ object' = object
  BY <1>6 DEF Handles!Call
<1>15. DOMAIN object' = Programs /\ \A q \in Programs : DOMAIN object'[q] = Handles!Rec
  BY <1>14 DEF HandlesInv, HandlesTypes
<1> QED
  BY <1>3, <1>13, <1>14, <1>15, OneTaskChanges

LEMMA PassKeeps ==
  ASSUME HandlesInv, NEW p \in Programs, NEW t \in Handles!Task, Handles!Pass(p, t)
  PROVE  HandlesInv'
<1> DEFINE tk == task[p][t]
<1>1. Sound(tk, record, language[p], Handles!Key) /\ tk # Handles!Idle
  BY DEF HandlesInv, TasksAreSound, Handles!Pass, Handles!MayRun
<1>2. Head(tk.todo).name = "ensure"
  BY DEF Handles!Pass, Handles!Ensure, Handles!Step
<1>3. Sound(Handles!Onward(tk), record, language[p], Handles!Key)
  BY <1>1, <1>2, OnwardIsSound DEF Handles!Answers
<1>4. /\ UNCHANGED <<recordKind, language, record, intended, overtaken, uses, object>>
      /\ task' = [task EXCEPT ![p][t] = Handles!Onward(tk)]
  BY DEF Handles!Pass
<1>5. uses' \in Nat /\ DOMAIN object' = Programs
      /\ \A q \in Programs : DOMAIN object'[q] = Handles!Rec
  BY <1>4 DEF HandlesInv, HandlesTypes
<1> QED
  BY <1>3, <1>4, <1>5, OneTaskChanges

LEMMA AnswerKeeps ==
  ASSUME HandlesInv, NEW p \in Programs, NEW t \in Handles!Task, Handles!Answer(p, t)
  PROVE  HandlesInv'
<1> DEFINE tk == task[p][t]
<1>1. Sound(tk, record, language[p], Handles!Key) /\ tk # Handles!Idle /\ tk.handled
  BY DEF HandlesInv, TasksAreSound, Handles!Answer, Handles!MayRun
<1>3. Sound(Handles!Onward(tk), record, language[p], Handles!Key)
  BY <1>1, OnwardIsSound
<1>4. /\ UNCHANGED <<recordKind, language, record, intended, overtaken, uses>>
      /\ task' = [task EXCEPT ![p][t] = Handles!Onward(tk)]
      /\ object' = IF tk.current
                   THEN [object EXCEPT ![p][tk.on] = Handles!Cached(@, tk)] ELSE object
  BY DEF Handles!Answer
<1>5. uses' \in Nat /\ DOMAIN object' = Programs
      /\ \A q \in Programs : DOMAIN object'[q] = Handles!Rec
  BY <1>4 DEF HandlesInv, HandlesTypes
<1> QED
  BY <1>3, <1>4, <1>5, OneTaskChanges

LEMMA RaiseKeeps ==
  ASSUME HandlesInv, NEW p \in Programs, NEW t \in Handles!Task, Handles!Raise(p, t)
  PROVE  HandlesInv'
<1> DEFINE tk == task[p][t]
<1>3. Sound(Handles!Idle, record, language[p], Handles!Key)
  BY DEF Sound
<1>4. /\ UNCHANGED <<recordKind, language, record, intended, overtaken, uses>>
      /\ task' = [task EXCEPT ![p][t] = Handles!Idle]
      /\ object' = IF tk.current
                   THEN [object EXCEPT ![p][tk.on] = Handles!CachedOnError(@, tk)] ELSE object
  BY DEF Handles!Raise
<1>5. uses' \in Nat /\ DOMAIN object' = Programs
      /\ \A q \in Programs : DOMAIN object'[q] = Handles!Rec
  BY <1>4 DEF HandlesInv, HandlesTypes
<1> QED
  BY <1>3, <1>4, <1>5, OneTaskChanges

\* Who lists or updates a record has its answer; only the answer is new.
LEMMA ListKeeps ==
  ASSUME HandlesInv, NEW p \in Programs, NEW t \in Handles!Task,
         task[p][t] # Handles!Idle, Handles!HandleList(p, t)
  PROVE  HandlesInv'
<1> DEFINE tk == task[p][t]
           r == tk.on
           new == [tk EXCEPT !.handled = TRUE, !.raced = FALSE, !.answer = record[r].value]
<1>1. Ready(tk, language[p], Handles!Key) /\ Remembers(tk, record)
  BY DEF HandlesInv, TasksAreSound, Sound
<1>2. Head(tk.todo).name = "list" /\ record[r].state = "active"
  BY DEF Handles!HandleList
<1>3. /\ UNCHANGED <<recordKind, language, record, intended, overtaken, uses, object>>
      /\ task' = [task EXCEPT ![p][t].handled = TRUE, ![p][t].raced = FALSE,
                              ![p][t].answer = record[r].value]
  BY DEF Handles!HandleList
<1>4. DOMAIN tk = TaskColumns /\ DOMAIN task = Programs /\ DOMAIN task[p] = Handles!Task
  BY <1>1 DEF Ready, HandlesInv, TasksAreSound
<1>5. task' = [task EXCEPT ![p][t] = new]
  BY <1>3, <1>4 DEF TaskColumns
<1>6. /\ DOMAIN new = TaskColumns /\ new.todo = tk.todo /\ new.on = r /\ new.given = tk.given
      /\ new.during = tk.during /\ new.answer = record[r].value
  BY <1>4 DEF TaskColumns
<1> HIDE DEF new
<1>7. Ready(new, language[p], Handles!Key)
  BY <1>1, <1>6 DEF Ready
<1>8. Remembers(new, record)
  BY <1>1, <1>2, <1>6 DEF Remembers
<1>9. Sound(new, record, language[p], Handles!Key)
  BY <1>7, <1>8 DEF Sound
<1>10. uses' \in Nat /\ DOMAIN object' = Programs
       /\ \A q \in Programs : DOMAIN object'[q] = Handles!Rec
  BY <1>3 DEF HandlesInv, HandlesTypes
<1> QED
  BY <1>3, <1>5, <1>9, <1>10, OneTaskChanges

\* Everyone notes what a request makes of a record.
LEMMA RecordChanges ==
  ASSUME HandlesInv, NEW p \in Programs, NEW t \in Handles!Task, NEW tk,
         NEW r \in Handles!Rec, NEW new \in RecordsOf(Handles!Key),
         record' = [record EXCEPT ![r] = new],
         task' = Handles!NotedBy(p, t, r, new, tk),
         Sound(tk, record', language[p], Handles!Key),
         UNCHANGED <<recordKind, language, object, uses>>,
         DOMAIN intended' = Handles!Rec, UpdatesSurvive'
  PROVE  HandlesInv'
<1>1. Handles!Key' = Handles!Key
  BY DEF Handles!Key
<1>2. HandlesTypes'
  BY <1>1 DEF HandlesInv, HandlesTypes
<1>3. task' = [q \in Programs |-> [u \in Handles!Task |->
                IF q = p /\ u = t THEN tk ELSE Handles!Noted(task[q][u], r, new)]]
  BY DEF Handles!NotedBy
<1>4. ASSUME NEW q \in Programs, NEW u \in Handles!Task
      PROVE  Sound(task'[q][u], record', language[q], Handles!Key)
  <2>1. task'[q][u] = IF q = p /\ u = t THEN tk ELSE Handles!Noted(task[q][u], r, new)
    BY <1>3
  <2>2. DOMAIN record = Handles!Rec /\ Sound(task[q][u], record, language[q], Handles!Key)
    BY DEF HandlesInv, HandlesTypes, TasksAreSound
  <2>3. Sound(Handles!Noted(task[q][u], r, new), record', language[q], Handles!Key)
    BY <2>2, NotedIsSound
  <2> QED
    BY <2>1, <2>3
<1>5. TasksAreSound'
  BY <1>1, <1>3, <1>4 DEF TasksAreSound
<1> QED
  BY <1>2, <1>5 DEF HandlesInv

\* The same change of a record and of what it should be.
LEMMA SameChange ==
  ASSUME UpdatesSurvive, NEW r \in Handles!Rec, UNCHANGED language,
         DOMAIN record = Handles!Rec, DOMAIN intended = Handles!Rec,
         NEW old, NEW new, record' = [record EXCEPT ![r] = new],
         intended' = [intended EXCEPT ![r] = old],
         overtaken \subseteq overtaken',
         \/ record[r] = intended[r] => new = old
         \/ \E p \in Programs : language[p] # "typescript" /\ <<p, r>> \in overtaken'
  PROVE  UpdatesSurvive' /\ DOMAIN intended' = Handles!Rec
<1>1. SUFFICES ASSUME NEW s \in Handles!Rec, record'[s] # intended'[s]
               PROVE  \E p \in Programs : language[p] # "typescript" /\ <<p, s>> \in overtaken'
  BY DEF UpdatesSurvive, Handles!UpdatesSurvive
<1>2. record[s] # intended[s] =>
        \E p \in Programs : language[p] # "typescript" /\ <<p, s>> \in overtaken
  BY DEF UpdatesSurvive, Handles!UpdatesSurvive
<1>3. CASE s # r
  BY <1>1, <1>2, <1>3
<1>4. CASE s = r
  BY <1>1, <1>2, <1>4
<1> QED
  BY <1>3, <1>4

LEMMA PurgeKeeps ==
  ASSUME HandlesInv, NEW r \in Handles!Rec, Handles!Purge(r)
  PROVE  HandlesInv'
<1> DEFINE new == Handles!Absent
<1>1. new \in RecordsOf(Handles!Key)
  BY DEF Handles!Absent, Handles!Empty, RecordsOf, Values, States
<1>2. Handles!Key' = Handles!Key /\ UNCHANGED <<recordKind, language, object, uses, overtaken>>
  BY DEF Handles!Key, Handles!Purge
<1>3. /\ record' = [record EXCEPT ![r] = new] /\ intended' = [intended EXCEPT ![r] = new]
      /\ task' = [q \in Programs |-> [u \in Handles!Task |-> Handles!Noted(task[q][u], r, new)]]
  BY DEF Handles!Purge
<1>4. DOMAIN record = Handles!Rec /\ DOMAIN intended = Handles!Rec
  BY DEF HandlesInv, HandlesTypes
<1> HIDE DEF new
<1>5. UpdatesSurvive' /\ DOMAIN intended' = Handles!Rec
  BY <1>2, <1>3, <1>4, SameChange DEF HandlesInv
<1>6. HandlesTypes'
  BY <1>1, <1>2, <1>3, <1>5 DEF HandlesInv, HandlesTypes
<1>7. ASSUME NEW q \in Programs, NEW u \in Handles!Task
      PROVE  Sound(task'[q][u], record', language[q], Handles!Key)
  <2>1. Sound(task[q][u], record, language[q], Handles!Key)
    BY DEF HandlesInv, TasksAreSound
  <2>2. Sound(Handles!Noted(task[q][u], r, new), record', language[q], Handles!Key)
    BY <1>1, <1>3, <1>4, <2>1, NotedIsSound
  <2> QED
    BY <1>3, <2>2
<1>8. TasksAreSound'
  BY <1>2, <1>3, <1>7 DEF TasksAreSound
<1> QED
  BY <1>5, <1>6, <1>8 DEF HandlesInv

LEMMA DeleteKeeps ==
  ASSUME HandlesInv, NEW p \in Programs, NEW t \in Handles!Task,
         task[p][t] # Handles!Idle, Handles!HandleDelete(p, t)
  PROVE  HandlesInv'
<1> DEFINE tk == task[p][t]
           r == tk.on
           own == [tk EXCEPT !.handled = TRUE]
           gone == IF recordKind = "session" THEN "inactive" ELSE "leaving"
           new == [record[r] EXCEPT !.state = gone]
           old == [intended[r] EXCEPT !.state = gone]
<1>1. Ready(tk, language[p], Handles!Key) /\ Remembers(tk, record)
  BY DEF HandlesInv, TasksAreSound, Sound
<1>2. r \in Handles!Rec /\ DOMAIN tk = TaskColumns
  BY <1>1 DEF Ready
<1>3. /\ DOMAIN record = Handles!Rec /\ DOMAIN intended = Handles!Rec
      /\ record[r] \in RecordsOf(Handles!Key)
  BY <1>2 DEF HandlesInv, HandlesTypes
<1>4. /\ Head(tk.todo).name = "delete" /\ record[r].state = "active"
      /\ record' = [record EXCEPT ![r].state = gone]
      /\ intended' = [intended EXCEPT ![r].state = gone]
      /\ task' = Handles!NotedBy(p, t, r, record'[r], own)
      /\ UNCHANGED <<recordKind, language, object, uses, overtaken>>
  BY DEF Handles!HandleDelete
<1>5. new \in RecordsOf(Handles!Key) /\ new.value = record[r].value
  BY <1>3 DEF RecordsOf, States
<1>6. record' = [record EXCEPT ![r] = new] /\ record'[r] = new
  BY <1>2, <1>3, <1>4
<1>7. intended' = [intended EXCEPT ![r] = old]
  BY <1>4
<1>8. UpdatesSurvive' /\ DOMAIN intended' = Handles!Rec
  <2>1. record[r] = intended[r] => new = old
    OBVIOUS
  <2>2. UNCHANGED language /\ overtaken \subseteq overtaken' /\ UpdatesSurvive
    BY <1>4 DEF HandlesInv
  <2>3. record' = [record EXCEPT ![r] = new]
    BY <1>6
  <2> HIDE DEF new, old
  <2> QED
    BY <1>2, <1>3, <1>7, <2>1, <2>2, <2>3, SameChange
<1>9. /\ DOMAIN own = TaskColumns /\ own.todo = tk.todo /\ own.on = r /\ own.given = tk.given
      /\ own.during = tk.during
  BY <1>2 DEF TaskColumns
<1> HIDE DEF new, own
<1>10. Ready(own, language[p], Handles!Key)
  BY <1>1, <1>9 DEF Ready
<1>11. ~Uses(own)
  BY <1>4, <1>9 DEF Uses, Handles!Answers
<1>12. Remembers(own, record')
  BY <1>1, <1>4, <1>5, <1>6, <1>9, <1>11 DEF Remembers
<1>13. Sound(own, record', language[p], Handles!Key)
  BY <1>10, <1>12 DEF Sound
<1> QED
  BY <1>2, <1>4, <1>5, <1>6, <1>8, <1>13, RecordChanges

LEMMA CloneKeeps ==
  ASSUME HandlesInv, NEW p \in Programs, NEW t \in Handles!Task,
         task[p][t] # Handles!Idle, Handles!HandleClone(p, t)
  PROVE  HandlesInv'
<1> DEFINE tk == task[p][t]
           r == tk.on
           new == record[r]
           own == [tk EXCEPT !.handled = TRUE, !.raced = FALSE, !.on = "clone",
                             !.current = TRUE, !.answer = record[r].value,
                             !.during = {record[r].value}]
<1>1. Ready(tk, language[p], Handles!Key) /\ Remembers(tk, record)
  BY DEF HandlesInv, TasksAreSound, Sound
<1>2. r \in Handles!Rec /\ DOMAIN tk = TaskColumns /\ "clone" \in Handles!Rec
  BY <1>1 DEF Ready, Handles!Rec
<1>3. /\ DOMAIN record = Handles!Rec /\ DOMAIN intended = Handles!Rec
      /\ new \in RecordsOf(Handles!Key) /\ new.value \in Values(Handles!Key)
  BY <1>2 DEF HandlesInv, HandlesTypes, RecordsOf
<1>4. /\ Head(tk.todo) = Handles!Clone /\ record[r].state = "active"
      /\ record' = [record EXCEPT !["clone"] = new]
      /\ intended' = [intended EXCEPT !["clone"] = new]
      /\ task' = Handles!NotedBy(p, t, "clone", new, own)
      /\ UNCHANGED <<recordKind, language, object, uses, overtaken>>
  BY DEF Handles!HandleClone
<1>5. Head(tk.todo).name = "clone"
  BY <1>4 DEF Handles!Clone, Handles!Step
<1>6. UpdatesSurvive' /\ DOMAIN intended' = Handles!Rec
  BY <1>2, <1>3, <1>4, SameChange DEF HandlesInv
<1>7. /\ DOMAIN own = TaskColumns /\ own.todo = tk.todo /\ own.on = "clone"
      /\ own.given = tk.given /\ own.during = {new.value} /\ own.answer = new.value
  BY <1>2 DEF TaskColumns
<1>8. record'["clone"] = new
  BY <1>2, <1>3, <1>4
<1> HIDE DEF own
<1>9. Ready(own, language[p], Handles!Key)
  BY <1>1, <1>2, <1>3, <1>7 DEF Ready
<1>10. Remembers(own, record')
  BY <1>4, <1>5, <1>7, <1>8 DEF Remembers
<1>11. Sound(own, record', language[p], Handles!Key)
  BY <1>9, <1>10 DEF Sound
<1> QED
  BY <1>2, <1>3, <1>4, <1>6, <1>11, RecordChanges

LEMMA UpdateKeeps ==
  ASSUME HandlesInv, NEW p \in Programs, NEW t \in Handles!Task,
         task[p][t] # Handles!Idle, Handles!HandleUpdate(p, t)
  PROVE  HandlesInv'
<1> DEFINE tk == task[p][t]
           s == Head(tk.todo)
           r == tk.on
           body == Handles!BodyOf(s, tk)
           new == Handles!GotOrCreated(record[r], body)
           own == [tk EXCEPT !.handled = TRUE, !.raced = FALSE, !.answer = new.value,
                             !.during = @ \union {new.value}]
<1>1. Ready(tk, language[p], Handles!Key) /\ Remembers(tk, record)
  BY DEF HandlesInv, TasksAreSound, Sound
<1>2. r \in Handles!Rec /\ DOMAIN tk = TaskColumns
  BY <1>1 DEF Ready
<1>3. /\ DOMAIN record = Handles!Rec /\ DOMAIN intended = Handles!Rec
      /\ record[r] \in RecordsOf(Handles!Key) /\ record[r].value \in Values(Handles!Key)
  BY <1>2 DEF HandlesInv, HandlesTypes, RecordsOf
<1>4. /\ s.name \in {"fetch", "put", "create", "creates", "echo"} \/ s = Handles!Ensure
      /\ record' = [record EXCEPT ![r] = new]
      /\ intended' = [intended EXCEPT ![r] =
                        IF s.name = "echo" THEN @ ELSE Handles!GotOrCreated(@, body)]
      /\ overtaken' = IF s.name = "echo" /\ tk.raced
                        THEN overtaken \union {<<p, r>>} ELSE overtaken
      /\ task' = Handles!NotedBy(p, t, r, new, own)
      /\ UNCHANGED <<recordKind, language, object, uses>>
  BY DEF Handles!HandleUpdate
<1>5. s.name \in {"ensure", "fetch", "put", "create", "creates", "echo"}
  <2>1. Handles!Ensure.name = "ensure"
    BY DEF Handles!Ensure, Handles!Step
  <2> QED
    BY <1>4, <2>1
<1>6. ASSUME s.name = "echo"
      PROVE  /\ body = tk.answer /\ tk.answer \in Values(Handles!Key)
             /\ language[p] # "typescript"
             /\ tk.raced \/ (record[r].value = tk.answer
                             /\ record[r].state \in {"active", "leaving"})
  <2>1. Uses(tk)
    BY <1>6 DEF Uses
  <2>2. 1 \in DOMAIN tk.todo /\ s = tk.todo[1]
    BY <1>1, EmptySeq DEF Ready
  <2>3. language[p] # "typescript"
    BY <1>1, <1>6, <2>2 DEF Ready, Ordered
  <2>4. body = tk.answer
    BY <1>6 DEF Handles!BodyOf
  <2> QED
    BY <1>1, <2>1, <2>3, <2>4 DEF Ready, Remembers
<1>7. MayBeGiven(body, Handles!Key)
  <2>1. CASE s.name = "echo"
    BY <1>6, <2>1 DEF MayBeGiven, Values
  <2>2. CASE s.name \in {"put", "create"}
    <3>1. body = [f \in Handles!Fields |-> IF f \in s.fields THEN tk.given[f] ELSE None]
      BY <2>2 DEF Handles!BodyOf
    <3>2. /\ body.metadata \in {None, tk.given.metadata}
          /\ body.configuration \in {None, tk.given.configuration}
      BY <3>1 DEF Handles!Fields
    <3> HIDE DEF body
    <3> QED
      BY <1>1, <3>2 DEF Ready, MayBeGiven
  <2>3. CASE s.name \in {"ensure", "fetch", "creates"}
    <3>1. body = [f \in Handles!Fields |-> None]
      BY <2>3 DEF Handles!BodyOf, Handles!Nothing
    <3>2. body.metadata = None /\ body.configuration = None
      BY <3>1 DEF Handles!Fields
    <3> HIDE DEF body
    <3> QED
      BY <3>2 DEF MayBeGiven
  <2> QED
    BY <1>5, <2>1, <2>2, <2>3
<1>8. /\ new \in RecordsOf(Handles!Key) /\ new.state \in {"active", "leaving"}
      /\ Handles!IsPartOf(body, new.value) /\ new.value \in Values(Handles!Key)
  <2> HIDE DEF body
  <2>1. /\ new \in RecordsOf(Handles!Key) /\ new.state \in {"active", "leaving"}
        /\ Handles!IsPartOf(body, new.value)
    BY <1>3, <1>7, UpdatesHaveTheirType
  <2> QED
    BY <2>1 DEF RecordsOf
<1>9. UpdatesSurvive' /\ DOMAIN intended' = Handles!Rec
  <2> DEFINE old == IF s.name = "echo" THEN intended[r]
                    ELSE Handles!GotOrCreated(intended[r], body)
  <2>1. intended' = [intended EXCEPT ![r] = old] /\ overtaken \subseteq overtaken'
    BY <1>4
  <2>2. CASE s.name = "echo" /\ tk.raced
    <3>1. language[p] # "typescript" /\ <<p, r>> \in overtaken'
      BY <1>4, <1>6, <2>2
    <3> HIDE DEF new, old
    <3> QED
      BY <1>2, <1>3, <1>4, <2>1, <3>1, SameChange DEF HandlesInv
  <2>3. CASE s.name = "echo" /\ ~tk.raced
    <3>1. new = record[r] /\ old = intended[r]
      BY <1>3, <1>6, <2>3, EchoesChangeNothing
    <3> HIDE DEF new, old
    <3> QED
      BY <1>2, <1>3, <1>4, <2>1, <3>1, SameChange DEF HandlesInv
  <2>4. CASE s.name # "echo"
    <3>1. record[r] = intended[r] => new = old
      BY <2>4
    <3> HIDE DEF new, old
    <3> QED
      BY <1>2, <1>3, <1>4, <2>1, <3>1, SameChange DEF HandlesInv
  <2> QED
    BY <2>2, <2>3, <2>4
<1>10. /\ DOMAIN own = TaskColumns /\ own.todo = tk.todo /\ own.on = r /\ own.given = tk.given
       /\ own.during = tk.during \union {new.value} /\ own.answer = new.value
  BY <1>2 DEF TaskColumns
<1>11. s.name = "put" => Handles!BodyOf(Head(own.todo), own) = body
  <2>1. Head(own.todo) = s /\ own.given = tk.given
    BY <1>10
  <2> HIDE DEF own
  <2> QED
    BY <2>1 DEF Handles!BodyOf
<1>12. record'[r] = new
  BY <1>2, <1>3, <1>4
<1> HIDE DEF new, own, body
<1>13. Ready(own, language[p], Handles!Key)
  BY <1>1, <1>8, <1>10 DEF Ready
<1>14. Remembers(own, record')
  BY <1>8, <1>10, <1>11, <1>12 DEF Remembers
<1>15. Sound(own, record', language[p], Handles!Key)
  BY <1>13, <1>14 DEF Sound
<1> QED
  BY <1>2, <1>4, <1>8, <1>9, <1>15, RecordChanges

LEMMA NewObjectKeeps ==
  ASSUME HandlesInv, NEW p \in Programs, NEW t \in Handles!Task, Handles!NewObject(p, t)
  PROVE  HandlesInv'
<1> DEFINE tk == task[p][t]
           Other(u) == IF task[p][u].on = tk.on /\ task[p][u] # Handles!Idle
                       THEN [task[p][u] EXCEPT !.current = FALSE] ELSE task[p][u]
<1>1. /\ task' = [task EXCEPT ![p] = [u \in Handles!Task |->
                     IF u = t THEN Handles!Onward(tk) ELSE Other(u)]]
      /\ tk # Handles!Idle /\ Head(tk.todo).name \in {"adopt", "bare"}
      /\ UNCHANGED <<recordKind, language, record, uses, intended, overtaken>>
  BY DEF Handles!NewObject, Handles!MayRun
<1>2. Handles!Key' = Handles!Key
  BY <1>1 DEF Handles!Key
<1>3. DOMAIN object' = Programs /\ \A q \in Programs : DOMAIN object'[q] = Handles!Rec
  BY DEF Handles!NewObject, HandlesInv, HandlesTypes
<1>4. HandlesTypes'
  BY <1>1, <1>2, <1>3 DEF HandlesInv, HandlesTypes
<1>5. UpdatesSurvive'
  BY <1>1 DEF HandlesInv, UpdatesSurvive, Handles!UpdatesSurvive
<1>6. DOMAIN task = Programs /\ \A q \in Programs : DOMAIN task[q] = Handles!Task
  BY DEF HandlesInv, TasksAreSound
<1>7. ASSUME NEW u \in Handles!Task
      PROVE  Sound(Other(u), record, language[p], Handles!Key)
  <2>1. Sound(task[p][u], record, language[p], Handles!Key)
    BY DEF HandlesInv, TasksAreSound
  <2>2. CASE Other(u) # task[p][u]
    <3> DEFINE was == task[p][u]
               new == [was EXCEPT !.current = FALSE]
    <3>1. Other(u) = new /\ Ready(was, language[p], Handles!Key) /\ Remembers(was, record)
      BY <2>1, <2>2 DEF Sound
    <3>2. DOMAIN was = TaskColumns
      BY <3>1 DEF Ready
    <3>3. /\ DOMAIN new = TaskColumns /\ new.todo = was.todo /\ new.on = was.on
          /\ new.given = was.given /\ new.during = was.during /\ new.answer = was.answer
      BY <3>2 DEF TaskColumns
    <3>4. new.handled = was.handled /\ new.raced = was.raced
      BY <3>2 DEF TaskColumns
    <3>5. Handles!BodyOf(Head(new.todo), new) = Handles!BodyOf(Head(was.todo), was)
      BY <3>3 DEF Handles!BodyOf
    <3> HIDE DEF new, was
    <3>6. Ready(new, language[p], Handles!Key)
      BY <3>1, <3>3 DEF Ready
    <3>7. Uses(new) => Uses(was)
      BY <3>3, <3>4 DEF Uses
    <3>8. Remembers(new, record)
      BY <3>1, <3>3, <3>4, <3>5, <3>7 DEF Remembers
    <3> QED
      BY <3>1, <3>6, <3>8 DEF Sound
  <2> QED
    BY <2>1, <2>2
<1>8. Sound(Handles!Onward(tk), record, language[p], Handles!Key)
  <2>1. Sound(tk, record, language[p], Handles!Key)
    BY DEF HandlesInv, TasksAreSound
  <2> QED
    BY <1>1, <2>1, OnwardIsSound DEF Handles!Answers
<1> HIDE DEF Other
<1>9. ASSUME NEW q \in Programs, NEW u \in Handles!Task
      PROVE  Sound(task'[q][u], record, language[q], Handles!Key)
  <2>1. CASE q = p
    BY <1>1, <1>6, <1>7, <1>8, <2>1
  <2>2. CASE q # p
    BY <1>1, <1>6, <2>2 DEF HandlesInv, TasksAreSound
  <2> QED
    BY <2>1, <2>2
<1>10. TasksAreSound'
  BY <1>1, <1>2, <1>6, <1>9 DEF TasksAreSound
<1> QED
  BY <1>4, <1>5, <1>10 DEF HandlesInv

LEMMA HandlesInitially == Handles!Init => HandlesInv
<1> SUFFICES ASSUME Handles!Init PROVE HandlesInv
  OBVIOUS
<1>1. /\ recordKind \in Handles!Kind /\ language \in [Programs -> DOMAIN Handles!RunsOf]
      /\ uses \in Nat
  BY HandlesAssumed DEF Handles!Init, Handles!HandlesAssumption
<1>2. PICK state \in {"absent", "active"} :
        record = [Handles!NoRecords EXCEPT !["original"].state = state]
  BY DEF Handles!Init
<1>3. Handles!Absent \in RecordsOf(Handles!Key)
  BY DEF Handles!Absent, Handles!Empty, RecordsOf, Values, States
<1>4. Handles!NoRecords \in [Handles!Rec -> RecordsOf(Handles!Key)]
  BY <1>3 DEF Handles!NoRecords
<1>5. [Handles!NoRecords["original"] EXCEPT !.state = state] \in RecordsOf(Handles!Key)
  BY <1>4 DEF RecordsOf, States, Handles!Rec
<1>6. record \in [Handles!Rec -> RecordsOf(Handles!Key)]
  BY <1>2, <1>4, <1>5
<1>7. HandlesTypes
  BY <1>1, <1>6 DEF HandlesTypes, Handles!Init
<1>8. TasksAreSound
  BY DEF TasksAreSound, Sound, Handles!Init
<1>9. UpdatesSurvive
  BY DEF UpdatesSurvive, Handles!UpdatesSurvive, Handles!Init
<1> QED
  BY <1>7, <1>8, <1>9 DEF HandlesInv

LEMMA HandlesPreserved == HandlesInv /\ [Handles!Next]_(Handles!vars) => HandlesInv'
<1> SUFFICES ASSUME HandlesInv, [Handles!Next]_(Handles!vars) PROVE HandlesInv'
  OBVIOUS
<1>1. CASE UNCHANGED Handles!vars
  <2>1. UNCHANGED <<recordKind, language, record, object, task, uses, intended, overtaken>>
    BY <1>1 DEF Handles!vars
  <2>2. Handles!Key' = Handles!Key
    BY <2>1 DEF Handles!Key
  <2>3. HandlesTypes' /\ TasksAreSound'
    BY <2>1, <2>2 DEF HandlesInv, HandlesTypes, TasksAreSound
  <2>4. UpdatesSurvive'
    BY <2>1 DEF HandlesInv, UpdatesSurvive, Handles!UpdatesSurvive
  <2> QED
    BY <2>3, <2>4 DEF HandlesInv
<1>2. ASSUME NEW p \in Programs, NEW t \in Handles!Task, NEW r \in Handles!Rec,
             Handles!Call(p, t, r)
      PROVE  HandlesInv'
  BY <1>2, CallKeeps
<1>3. ASSUME NEW p \in Programs, NEW t \in Handles!Task, Handles!Pass(p, t)
      PROVE  HandlesInv'
  BY <1>3, PassKeeps
<1>4. ASSUME NEW p \in Programs, NEW t \in Handles!Task, Handles!Handle(p, t)
      PROVE  HandlesInv'
  <2>1. /\ task[p][t] # Handles!Idle
        /\ \/ Handles!HandleUpdate(p, t) \/ Handles!HandleClone(p, t)
           \/ Handles!HandleDelete(p, t) \/ Handles!HandleList(p, t)
    BY <1>4 DEF Handles!Handle, Handles!MayRun
  <2> QED
    BY <2>1, UpdateKeeps, CloneKeeps, DeleteKeeps, ListKeeps
<1>5. ASSUME NEW p \in Programs, NEW t \in Handles!Task, Handles!Answer(p, t)
      PROVE  HandlesInv'
  BY <1>5, AnswerKeeps
<1>6. ASSUME NEW p \in Programs, NEW t \in Handles!Task, Handles!NewObject(p, t)
      PROVE  HandlesInv'
  BY <1>6, NewObjectKeeps
<1>7. ASSUME NEW p \in Programs, NEW t \in Handles!Task, Handles!Raise(p, t)
      PROVE  HandlesInv'
  BY <1>7, RaiseKeeps
<1>8. ASSUME NEW r \in Handles!Rec, Handles!Purge(r)
      PROVE  HandlesInv'
  BY <1>8, PurgeKeeps
<1> QED
  BY <1>1, <1>2, <1>3, <1>4, <1>5, <1>6, <1>7, <1>8 DEF Handles!Next

\* A record is what the programs' updates and deletions have made of it, except where an
\* object of the Python SDK wrote back what it had been told (Peer.__init__,
\* Session.__init__): no other interleaving loses an update.
THEOREM UpdatesAreKept == Handles!Spec => []UpdatesSurvive
<1>1. HandlesInv => UpdatesSurvive
  BY DEF HandlesInv
<1> QED
  BY <1>1, HandlesInitially, HandlesPreserved, PTL DEF Handles!Spec

-----------------------------------------------------------------------------
(* Caches: what is put there is part of what the call has seen. *)

LEMMA PartsOfParts ==
  ASSUME NEW fresh, NEW whole, NEW value, Handles!IsPartOf(whole, value),
         fresh.metadata \in {None, whole.metadata},
         fresh.configuration \in {None, whole.configuration}
  PROVE  Handles!IsPartOf(fresh, value)
BY DEF Handles!IsPartOf

\* The new entries of a cache.
News(old, new) == [f \in Handles!Fields |-> IF new[f] = old[f] THEN None ELSE new[f]]

LEMMA NewsArePart ==
  ASSUME NEW old, NEW new, NEW whole, NEW value, Handles!IsPartOf(whole, value),
         \A f \in Handles!Fields : new[f] \in {old[f], None, whole[f]}
  PROVE  Handles!IsPartOf(News(old, new), value)
<1>1. /\ News(old, new).metadata \in {None, whole.metadata}
      /\ News(old, new).configuration \in {None, whole.configuration}
  BY DEF News, Handles!Fields
<1> QED
  BY <1>1, PartsOfParts

LEMMA NothingIsPart ==
  ASSUME NEW value PROVE Handles!IsPartOf(Handles!Nothing, value)
<1>1. Handles!Nothing.metadata = None /\ Handles!Nothing.configuration = None
  BY DEF Handles!Nothing, Handles!Fields
<1> QED
  BY <1>1 DEF Handles!IsPartOf

LEMMA CachedWasSeen ==
  ASSUME HandlesInv, NEW p \in Programs, NEW t \in Handles!Task, NEW old,
         task[p][t] # Handles!Idle, task[p][t].handled
  PROVE  \E value \in task[p][t].during :
           Handles!IsPartOf(News(old, Handles!Cached(old, task[p][t])), value)
<1> DEFINE tk == task[p][t]
           s == Head(tk.todo)
           new == Handles!Cached(old, tk)
<1>1. Ready(tk, language[p], Handles!Key) /\ Remembers(tk, record)
  BY DEF HandlesInv, TasksAreSound, Sound
<1>2. \A f \in Handles!Fields :
        new[f] = IF f \notin s.fields THEN old[f]
                 ELSE CASE s.name = "put" -> tk.given[f]
                        [] s.name = "fetch" -> tk.answer[f]
                        [] OTHER -> old[f]
  BY DEF Handles!Cached
<1> HIDE DEF new
<1>3. CASE s.name = "put"
  <2> DEFINE body == Handles!BodyOf(s, tk)
  <2>1. PICK v \in tk.during : Handles!IsPartOf(body, v)
    BY <1>1, <1>3 DEF Remembers
  <2>2. \A f \in Handles!Fields : body[f] = IF f \in s.fields THEN tk.given[f] ELSE None
    BY <1>3 DEF Handles!BodyOf
  <2>3. \A f \in Handles!Fields : new[f] \in {old[f], None, body[f]}
    BY <1>2, <1>3, <2>2
  <2> HIDE DEF body
  <2> QED
    BY <2>1, <2>3, NewsArePart DEF new
<1>4. CASE s.name = "fetch"
  <2>1. tk.answer \in tk.during
    BY <1>1, <1>4 DEF Remembers
  <2>2. Handles!IsPartOf(tk.answer, tk.answer)
    BY DEF Handles!IsPartOf
  <2>3. \A f \in Handles!Fields : new[f] \in {old[f], None, tk.answer[f]}
    BY <1>2, <1>4
  <2> QED
    BY <2>1, <2>2, <2>3, NewsArePart DEF new
<1>5. CASE s.name \notin {"put", "fetch"}
  <2>1. record[tk.on].value \in tk.during
    BY <1>1 DEF Remembers
  <2>2. \A f \in Handles!Fields : new[f] \in {old[f], None, Handles!Nothing[f]}
    BY <1>2, <1>5
  <2> QED
    BY <2>1, <2>2, NothingIsPart, NewsArePart DEF new
<1> QED
  BY <1>3, <1>4, <1>5

LEMMA CachesChange ==
  ASSUME HandlesInv, Handles!Next, NEW q \in Programs, NEW r \in Handles!Rec,
         object'[q][r] # object[q][r]
  PROVE  \E t \in Handles!Task : \E value \in task[q][t].during :
           Handles!IsPartOf(News(object[q][r], object'[q][r]), value)
<1>1. DOMAIN object = Programs /\ \A p \in Programs : DOMAIN object[p] = Handles!Rec
  BY DEF HandlesInv, HandlesTypes
<1>2. ASSUME NEW p \in Programs, NEW t \in Handles!Task, NEW on, NEW new,
             object' = [object EXCEPT ![p][on] = new]
      PROVE  q = p /\ r = on /\ object'[q][r] = new
  BY <1>1, <1>2
<1>3. CASE \E p \in Programs, t \in Handles!Task : Handles!Answer(p, t)
  <2>1. PICK p \in Programs, t \in Handles!Task : Handles!Answer(p, t)
    BY <1>3
  <2> DEFINE tk == task[p][t]
             new == Handles!Cached(object[p][tk.on], tk)
  <2>2. /\ object' = [object EXCEPT ![p][tk.on] = new] \/ object' = object
        /\ tk # Handles!Idle /\ tk.handled
    BY <2>1 DEF Handles!Answer, Handles!MayRun
  <2>3. object' = [object EXCEPT ![p][tk.on] = new]
    BY <2>2
  <2>4. q = p /\ r = tk.on /\ object'[q][r] = new
    BY <1>1, <2>3
  <2>5. \E value \in tk.during : Handles!IsPartOf(News(object[p][tk.on], new), value)
    BY <2>2, CachedWasSeen
  <2> HIDE DEF new
  <2> QED
    BY <2>4, <2>5
<1>4. CASE \E p \in Programs, t \in Handles!Task : Handles!NewObject(p, t)
  <2>1. PICK p \in Programs, t \in Handles!Task : Handles!NewObject(p, t)
    BY <1>4
  <2> DEFINE tk == task[p][t]
             new == IF Head(tk.todo).name = "adopt" THEN tk.answer ELSE Handles!Nothing
  <2>2. object' = [object EXCEPT ![p][tk.on] = new] /\ tk # Handles!Idle
    BY <2>1 DEF Handles!NewObject, Handles!MayRun
  <2>3. q = p /\ r = tk.on /\ object'[q][r] = new
    BY <1>1, <2>2
  <2>4. Remembers(tk, record)
    BY <2>2 DEF HandlesInv, TasksAreSound, Sound
  <2>5. CASE Head(tk.todo).name = "adopt"
    <3>1. tk.answer \in tk.during /\ new = tk.answer
      BY <2>4, <2>5 DEF Remembers, Uses
    <3>2. Handles!IsPartOf(tk.answer, tk.answer)
      BY DEF Handles!IsPartOf
    <3> HIDE DEF new
    <3> QED
      BY <2>3, <3>1, <3>2, NewsArePart
  <2>6. CASE Head(tk.todo).name # "adopt"
    <3>1. record[tk.on].value \in tk.during /\ new = Handles!Nothing
      BY <2>4, <2>6 DEF Remembers
    <3>2. Handles!IsPartOf(News(object[p][tk.on], Handles!Nothing), record[tk.on].value)
      BY NothingIsPart, NewsArePart
    <3> HIDE DEF new
    <3> QED
      BY <2>3, <3>1, <3>2
  <2> QED
    BY <2>5, <2>6
<1>5. CASE \E p \in Programs, t \in Handles!Task : Handles!Raise(p, t)
  <2>1. PICK p \in Programs, t \in Handles!Task : Handles!Raise(p, t)
    BY <1>5
  <2> DEFINE tk == task[p][t]
  <2>2. object' = [object EXCEPT ![p][tk.on] = object[p][tk.on]] \/ object' = object
    BY <2>1 DEF Handles!Raise, Handles!CachedOnError
  <2>3. object'[q][r] = object[q][r]
    BY <1>1, <2>2
  <2> QED
    BY <2>3
<1>6. CASE object' = object
  BY <1>6
<1>7. ASSUME NEW p \in Programs, NEW t \in Handles!Task,
             \/ \E s \in Handles!Rec : Handles!Call(p, t, s)
             \/ Handles!Pass(p, t) \/ Handles!Handle(p, t)
      PROVE  object' = object
  BY <1>7 DEF Handles!Call, Handles!Pass, Handles!Handle, Handles!HandleUpdate,
              Handles!HandleClone, Handles!HandleDelete, Handles!HandleList
<1>8. ASSUME NEW s \in Handles!Rec, Handles!Purge(s)
      PROVE  object' = object
  BY <1>8 DEF Handles!Purge
<1> QED
  BY <1>3, <1>4, <1>5, <1>6, <1>7, <1>8 DEF Handles!Next

\* What a call puts into the cache of an object was the server's at some moment of that
\* call (mixins.py and its like), of a configuration the part that was given.
THEOREM CachesWereOnceTrue == Handles!Spec => CachesWereTrue
<1>1. HandlesInv /\ [Handles!Next]_(Handles!vars) =>
        [\A p \in Programs, r \in Handles!Rec :
           object'[p][r] # object[p][r] =>
             \E t \in Handles!Task :
               LET old == object[p][r]
                   new == object'[p][r]
                   fresh == [f \in Handles!Fields |-> IF new[f] = old[f] THEN None ELSE new[f]]
               IN \E value \in task[p][t].during : Handles!IsPartOf(fresh, value)]_(Handles!vars)
  BY CachesChange DEF News
<1> QED
  BY <1>1, HandlesInitially, HandlesPreserved, PTL
     DEF Handles!Spec, CachesWereTrue, Handles!CachesWereTrue
=============================================================================
