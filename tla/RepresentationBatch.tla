------------------------ MODULE RepresentationBatch ------------------------
(***************************************************************************)
(* What one representation work unit serves its task: get_queue_item_batch *)
(* (src/src/deriver/queue_manager.py) chooses the rows and the context of  *)
(* the next batch and process_representation_tasks_batch                   *)
(* (src/src/deriver/deriver.py) derives conclusions from them.  WorkQueue  *)
(* models who may hold the unit; here one task holds it and the session's  *)
(* conversation goes on meanwhile.                                         *)
(*                                                                         *)
(* Messages are numbered in the order of their ids in the session.  The    *)
(* row of a message of the observed peer exists iff it has observers.      *)
(***************************************************************************)
EXTENDS Integers, Sequences, FiniteSetsExt

CONSTANTS
  Peer,            \* peers of the session
  Observed,        \* the peer the work unit is about
  Config,          \* resolved configurations a message may carry
  TokenCount,      \* token counts of messages
  BatchMaxTokens,  \* DERIVER.REPRESENTATION_BATCH_MAX_TOKENS
  MaxMessages      \* bound: messages sent in the session

\* What the modules that use this one assume.
BatchAssumption ==
  /\ Observed \in Peer
  /\ TokenCount \subseteq Nat
  /\ BatchMaxTokens \in Nat
  /\ MaxMessages \in Nat

VARIABLES
  messages,   \* sequence of the session's messages
  processed,  \* messages whose row is marked processed
  serving,    \* the batch being handled, or Idle
  derived     \* history: <<observer, message>> pairs conclusions were saved for

vars == <<messages, processed, serving, derived>>

Idle == [items |-> {}, context |-> {}]

\* generate_queue_records: the sender observes itself, or nobody is recorded.
Observers == {{}} \union {{Observed} \union S : S \in SUBSET (Peer \ {Observed})}

Message ==
  [peer : Peer \ {Observed}, tokens : TokenCount, config : Config, observers : {{}}]
    \union [peer : {Observed}, tokens : TokenCount, config : Config, observers : Observers]

\* A batch in hand consists of rows that are still pending.
TypeOK ==
  /\ messages \in Seq(Message) /\ Len(messages) <= MaxMessages
  /\ processed \subseteq {m \in DOMAIN messages : messages[m].observers # {}}
  /\ serving.items \subseteq {m \in DOMAIN messages : messages[m].observers # {}} \ processed
  /\ serving.context \subseteq DOMAIN messages
  /\ derived \subseteq Peer \X DOMAIN messages

-----------------------------------------------------------------------------
PendingOrProcessed == {m \in DOMAIN messages : messages[m].observers # {}}  \* mutant
Pending == {m \in DOMAIN messages : messages[m].observers # {}} \ processed
First   == Min(Pending)

\* effective_start_id: the message right before the first row, if it is another peer's.
Start == IF First > 1 /\ messages[First - 1].peer # Observed THEN First - 1 ELSE First

\* token_window: the running sum from the first message of the conversation.
Tokens(from, to) ==
  LET sum[m \in 0..Len(messages)] == IF m < from THEN 0 ELSE sum[m - 1] + messages[m].tokens
  IN  sum[to]

\* allowed_condition over the cte's running sum.
Allowed == {m \in Start..Len(messages) : Tokens(Start, m) <= BatchMaxTokens \/ m = First}

\* The rows up to the first one with another configuration than items[0].
SameConfigAnywhere(S) == {m \in S : messages[m].config = messages[Min(S)].config}  \* mutant
Homogeneous(S) ==
  {m \in S : \A n \in S : n <= m => messages[n].config = messages[Min(S)].config}

WholeContext(items) == Allowed                                      \* mutant
Context(items) == {m \in Allowed : m <= Max(items)}

\* message_ids: what the conclusions are attributed to.
Attributed == {m \in serving.context : messages[m].peer = Observed}

-----------------------------------------------------------------------------
\* create_messages and enqueue, for this unit: the observers are those of the moment.
Send(m) ==
  /\ Len(messages) < MaxMessages
  /\ messages' = Append(messages, m)
  /\ UNCHANGED <<processed, serving, derived>>

Fetch ==
  /\ serving = Idle /\ Pending # {}
  /\ LET items == Homogeneous(Allowed \intersect Pending) IN
     serving' = [items |-> items, context |-> Context(items)]
  /\ UNCHANGED <<messages, processed, derived>>

\* The batch goes to the observers of its first row; what save_representation
\* raises for one of them is logged and the rows are processed all the same.
Derive ==
  /\ serving # Idle
  /\ \E saved \in SUBSET messages[Min(serving.items)].observers :
       derived' = derived \union (saved \X Attributed)
  /\ processed' = processed \union serving.items
  /\ serving' = Idle
  /\ UNCHANGED messages

\* The LLM call raises: the first row is marked with the error, the others wait.
MarkedNone == {}                                                    \* mutant
MarkedOnError == {Min(serving.items)}
Raise ==
  /\ serving # Idle
  /\ processed' = processed \union MarkedOnError
  /\ serving' = Idle
  /\ UNCHANGED <<messages, derived>>

Init ==
  /\ messages = <<>>
  /\ processed = {}
  /\ serving = Idle
  /\ derived = {}

Next == (\E m \in Message : Send(m)) \/ Fetch \/ Derive \/ Raise

\* The task that holds the unit goes on; nobody has to send.
Spec == Init /\ [][Next]_vars /\ WF_vars(Fetch) /\ WF_vars(Derive \/ Raise)
-----------------------------------------------------------------------------
(* The reference: what the chain of subqueries is meant to choose. *)

Prefixes(S) == {B \in (SUBSET S) \ {{}} : \A m \in B, n \in S : n < m => n \in B}

\* A run may be served if one configuration covers it and its conversation,
\* opened by the message it answers, fits; a single row is served in any case.
Fits(B) ==
  /\ \A m, n \in B : messages[m].config = messages[n].config
  /\ B = {First} \/ Tokens(Start, Max(B)) <= BatchMaxTokens

\* The join of windows, filters and the cut at a new configuration serves
\* exactly the longest run of first rows that fits: never nothing, no gap, and
\* no row that another order of these cuts would have kept.
BatchIsLongestRun ==
  [][serving = Idle /\ serving' # Idle =>
       LET B == serving'.items IN
       /\ B \in Prefixes(Pending) /\ Fits(B)
       /\ \A P \in Prefixes(Pending) : Fits(P) => P \subseteq B]_vars

\* The model is shown one gapless piece of the conversation that ends with the
\* last row and starts with the first row or the other peer's turn before it.
ContextIsTheConversation ==
  serving # Idle =>
    /\ serving.context = Min(serving.context)..Max(serving.items)
    /\ \/ Min(serving.context) = Min(serving.items)
       \/ /\ Min(serving.context) = Min(serving.items) - 1
          /\ messages[Min(serving.context)].peer # Observed

\* Rows do not starve behind a large message, a change of configuration or a
\* row that keeps failing.
RowsDrain ==
  \A m \in 1..MaxMessages : m \in Pending ~> m \in processed

\* representation.mdx: "a peer will form representations of other peers in that
\* session based only on messages they've observed".
OnlyWhatTheySaw == \A pair \in derived : pair[1] \in messages[pair[2]].observers
=============================================================================
