----------------------------- MODULE AgentLoop -----------------------------
(***************************************************************************)
(* The calls of language models (src/src/utils/clients.py): what of a      *)
(* conversation reaches each provider, what becomes of its response, and   *)
(* the tool calling loop of the agents: call the model, execute the tools  *)
(* it asks for, append their results, and again, until it answers or the   *)
(* iterations are used up.  Every call is retried, the last attempt with   *)
(* the backup provider; before a call of the loop the conversation is      *)
(* truncated to the input limit.  The deriver and the summarizer make a    *)
(* single call, without tools.                                             *)
(***************************************************************************)
EXTENDS Integers, Sequences, SequencesExt, FiniteSetsExt

CONSTANTS
  Configs,     \* the calls of honcho_llm_call that are checked, see Config
  Attempts,    \* retry_attempts
  MaxTools,    \* bound: tool calls in one response
  Sizes,       \* the sizes, in tokens, of a tool result
  NoBackup,    \* no backup provider is configured
  NoLimit      \* max_input_tokens is None

Provider == {"anthropic", "google", "openai", "custom", "vllm", "groq"}

\* kind: a loop with tools, or a single call for text or for a structured answer;
\* system: the size of the system prompt; iterations: max_tool_iterations after the clamp.
Config == [kind : {"agent", "text", "structured"},
           primary : Provider, backup : Provider \union {NoBackup}, stream : BOOLEAN,
           limit : Nat \union {NoLimit}, system : Nat, iterations : Nat \ {0}]

ASSUME AgentAssumption ==
  /\ Configs \subseteq Config /\ \A c \in Configs : c.stream => c.kind = "agent"
  /\ Attempts \in Nat \ {0} /\ MaxTools \in Nat \ {0}
  /\ Sizes \subseteq Nat /\ NoBackup \notin Provider /\ NoLimit \notin Nat

VARIABLES
  conf,          \* the configuration of this call
  pc,            \* where _execute_tool_loop stands
  conversation,  \* conversation_messages
  iteration,
  attempt,       \* _current_attempt, a context variable: it selects the provider
  tries,         \* the attempt number of the retrying object of the current call
  asked,         \* the tool calls of the last response, not yet executed
  results,       \* tool_results
  nudged,        \* empty_response_retries
  total,         \* total_input_tokens; a response is billed one token
  called,        \* iteration_callback: the last iteration that executed tools
  billed         \* history: responses that were used, in the loop and after it

loopVars == <<conf, pc, conversation, iteration, attempt, tries, asked, results, nudged,
              total, called, billed>>

Kind == {"system", "user", "call", "results"}
Format == {"anthropic", "google", "openai", "text"}

\* Tools, the calls of tools and their results have three formats.
FormatOf(p) == IF p \in {"anthropic", "google"} THEN p ELSE "openai"

\* A message of the tool calling protocol is in the format of the provider that asked
\* for the tools; ids are the tool calls it makes or answers.
Message(kind, form, ids, size) == [kind |-> kind, form |-> form, ids |-> ids, size |-> size]
Text(kind, size) == Message(kind, "text", {}, size)
Id == (0..(Max({c.iterations : c \in Configs}) - 1)) \X (1..MaxTools)

\* The sum of some of the sizes.
SumOf(sizes, I) ==
  LET sum[J \in SUBSET I] ==
        IF J = {} THEN 0 ELSE LET i == Max(J) IN sum[J \ {i}] + sizes[i]
  IN  sum[I]

LoopTypeOK ==
  /\ conf \in Configs
  /\ pc \in {"loop", "call", "tools", "final", "single", "stream", "done", "empty", "failed"}
  /\ \A i \in DOMAIN conversation :
       /\ conversation[i].kind \in Kind /\ conversation[i].form \in Format
       /\ conversation[i].ids \subseteq Id /\ conversation[i].size \in Nat
  /\ iteration \in 0..conf.iterations
  /\ attempt \in 1..Attempts /\ tries \in 1..Attempts
  /\ asked \subseteq Id /\ \A r \in ToSet(results) : r.id \in Id /\ r.size \in Nat
  /\ nudged \in 0..1 /\ called \in 0..iteration /\ total \in Nat /\ billed \in Nat
-----------------------------------------------------------------------------
(* truncate_messages_to_fit. *)

\* The parts of google's messages are counted but not recognised as tool calls.
IsToolUse(m)    == m.kind = "call" /\ m.form # "google"
IsToolResult(m) == m.kind = "results" /\ m.form # "google"
\* count_message_tokens does not see the tool_calls field of openai's format.
Counted(m) == IF m.kind = "call" /\ m.form = "openai" THEN 0 ELSE m.size
Tokens(s, I) == SumOf([i \in DOMAIN s |-> Counted(s[i])], I)
Keep(s, I) ==
  LET kept[n \in 0..Len(s)] ==
        IF n = 0 THEN <<>> ELSE IF n \in I THEN Append(kept[n-1], s[n]) ELSE kept[n-1]
  IN  kept[Len(s)]

\* mutant: a call keeps only the first of its results
OneResult(s, i) ==
  {i} \union IF i < Len(s) /\ IsToolResult(s[i + 1]) THEN {i + 1} ELSE {}
\* The call at i and all results that follow it.
CallUnit(s, i) ==
  {i} \union {j \in (i + 1)..Len(s) : \A k \in (i + 1)..j : IsToolResult(s[k])}

\* _group_into_units, as sets of positions; calls and results without the other go.
Units(s) ==
  {CallUnit(s, i) : i \in {j \in DOMAIN s : /\ IsToolUse(s[j])
                                            /\ Cardinality(CallUnit(s, j)) > 1}}
    \union {{i} : i \in {j \in DOMAIN s : /\ s[j].kind # "system"
                                          /\ ~IsToolUse(s[j]) /\ ~IsToolResult(s[j])}}

SystemPart(s) == {i \in DOMAIN s : s[i].kind = "system"}

Available(s, max) == max - Tokens(s, SystemPart(s))

\* mutant: the newest units are removed
OldUnits(s, available) ==
  LET UpTo(u) == UNION {v \in Units(s) : Min(v) <= Min(u)}
      Fitting == {u \in Units(s) : Tokens(s, UpTo(u)) <= available}
      Oldest  == CHOOSE u \in Units(s) : \A v \in Units(s) : Min(u) <= Min(v)
      Newest  == CHOOSE u \in Fitting : \A v \in Fitting : Min(v) <= Min(u)
  IN  IF Fitting = {} THEN Oldest ELSE UpTo(Newest)

\* The units from the oldest that can stay; one stays whatever its size.
RecentUnits(s, available) ==
  LET From(u) == UNION {v \in Units(s) : Min(v) >= Min(u)}
      Fitting == {u \in Units(s) : Tokens(s, From(u)) <= available}
      Newest  == CHOOSE u \in Units(s) : \A v \in Units(s) : Min(v) <= Min(u)
      Oldest  == CHOOSE u \in Fitting : \A v \in Fitting : Min(u) <= Min(v)
  IN  IF Fitting = {} THEN Newest ELSE From(Oldest)

Truncated(s, max) ==
  IF max = NoLimit THEN s
  ELSE IF Tokens(s, DOMAIN s) <= max \/ Available(s, max) <= 0 THEN s
  ELSE IF Units(s) = {} THEN Keep(s, SystemPart(s))
  ELSE Keep(s, SystemPart(s) \union RecentUnits(s, Available(s, max)))
-----------------------------------------------------------------------------
(* One call with its retries. *)

\* _get_provider_and_model: the backup has the last attempt.
ProviderOf(n) == IF n = Attempts /\ conf.backup # NoBackup THEN conf.backup ELSE conf.primary

\* text: None, "" or blank, or an answer; fault: the JSON that it should contain, the
\* structured answer or the arguments of the tools, does not parse, or google blocked it.
Response == [text : {"none", "empty", "some"}, tools : 0..MaxTools, fault : BOOLEAN]

Answer(content, tools) == [content |-> content, tools |-> tools]
Unusable == Answer("raises", 0)
Content(r) == IF r.text = "some" THEN "some" ELSE "empty"
Structured == conf.kind = "structured"

\* The request has tools only in the loop, and groq's never has.
SendsTools(p) == pc = "call" /\ p # "groq"

AnthropicReply(r) == IF Structured /\ r.fault THEN Unusable ELSE Answer(Content(r), r.tools)

\* What cannot be repaired becomes a representation without observations.
VllmReply(r) == Answer(IF r.fault THEN "empty" ELSE Content(r), 0)

OpenaiParsed(r) == IF r.fault \/ r.text = "none" THEN Unusable ELSE Answer(Content(r), 0)

OpenaiReply(r) ==
  IF r.tools > 0 /\ r.fault THEN Unusable ELSE Answer(Content(r), r.tools)

GoogleReply(r) ==
  IF r.fault /\ r.text # "some" /\ r.tools = 0 THEN Unusable ELSE Answer(Content(r), r.tools)

GoogleParsed(r) == IF r.fault \/ r.text = "none" THEN Unusable ELSE Answer(Content(r), 0)

GroqReply(r) ==
  IF r.text = "none" \/ (Structured /\ r.fault) THEN Unusable ELSE Answer(Content(r), 0)

\* honcho_llm_call_inner: what the caller gets of response r of provider p.
Reply(p, r) ==
  CASE p = "anthropic"            -> AnthropicReply(r)
    [] p = "groq"                 -> GroqReply(r)
    [] p = "google" /\ Structured -> GoogleParsed(r)
    [] p = "google"               -> GoogleReply(r)
    [] p = "vllm" /\ Structured   -> VllmReply(r)
    [] Structured                 -> OpenaiParsed(r)
    [] OTHER                      -> OpenaiReply(r)

Replies ==
  LET p == ProviderOf(attempt)
  IN  {Reply(p, r) : r \in {q \in Response : SendsTools(p) \/ q.tools = 0}}

\* Google gets what is text or in its own format: anthropic's blocks are skipped, and
\* openai's calls and results are read as text.
GoogleContents ==
  LET Kept == Keep(conversation,
                   {i \in DOMAIN conversation : conversation[i].form # "anthropic"})
  IN  [i \in DOMAIN Kept |->
         IF Kept[i].form = "openai" THEN [Kept[i] EXCEPT !.form = "text", !.ids = {}]
                                    ELSE Kept[i]]

\* Google streams an answer to the first message alone, the system prompt.
StreamPrompt == IF conf.primary = "google" THEN <<Head(conversation)>> ELSE conversation

\* What of the conversation reaches the provider that is asked.
Prompted ==
  IF pc = "stream" THEN StreamPrompt
  ELSE IF ProviderOf(attempt) = "google" THEN GoogleContents ELSE conversation

\* mutant: the attempt of the previous call is still set
KeepAttempt == attempt
FirstAttempt == 1

\* The session's history is part of the system prompt, prefetched observations are
\* part of the query.
SystemPrompt(c) == Text("system", c.system)
UserPrompt      == Text("user", 1)
Question(c) == IF c.kind = "agent" THEN <<SystemPrompt(c), UserPrompt>> ELSE <<UserPrompt>>

\* honcho_llm_call, up to the loop, and the same for the next call of an agent.
LoopInit ==
  /\ conf \in Configs /\ pc = (IF conf.kind = "agent" THEN "loop" ELSE "single")
  /\ conversation = Question(conf)
  /\ iteration = 0 /\ attempt = 1 /\ tries = 1 /\ asked = {} /\ results = <<>>
  /\ nudged = 0 /\ total = 0 /\ called = 0 /\ billed = 0

StartLoop ==
  /\ pc' = "loop" /\ conversation' = Question(conf)
  /\ iteration' = 0 /\ attempt' = 1 /\ tries' = 1 /\ asked' = {} /\ results' = <<>>
  /\ nudged' = 0 /\ total' = 0 /\ called' = 0
  /\ UNCHANGED <<conf, billed>>

BeginIteration ==
  /\ pc = "loop" /\ iteration < conf.iterations
  /\ attempt' = FirstAttempt /\ tries' = 1
  /\ conversation' = Truncated(conversation, conf.limit)
  /\ pc' = "call"
  /\ UNCHANGED <<conf, iteration, asked, results, nudged, total, called,
                 billed>>

\* mutant: when the attempts are used up they start again
TryForever ==
  /\ pc \in {"call", "final", "single"}
  /\ tries' = (tries % Attempts) + 1 /\ attempt' = tries'
  /\ UNCHANGED <<conf, pc, conversation, iteration, asked, results, nudged, total, called,
                 billed>>

\* The provider raises, or its answer cannot be used: before_retry_callback, or the
\* attempts are used up and the caller gets the RetryError.
CallFails ==
  /\ pc \in {"call", "final", "single"}
  /\ IF tries < Attempts
     THEN tries' = tries + 1 /\ attempt' = tries + 1 /\ UNCHANGED pc
     ELSE pc' = "failed" /\ UNCHANGED <<tries, attempt>>
  /\ UNCHANGED <<conf, conversation, iteration, asked, results, nudged, total, called,
                 billed>>

Finished == IF conf.stream THEN "stream" ELSE "done"

AnswersText ==
  /\ pc = "call" /\ Answer("some", 0) \in Replies
  /\ pc' = Finished /\ total' = total + 1 /\ billed' = billed + 1
  /\ UNCHANGED <<conf, conversation, iteration, attempt, tries, asked, results, nudged,
                 called>>

\* mutant: an empty answer is asked for again and again
AskAlways == TRUE
MayAskAgain == nudged < 1

\* An empty answer is asked for again, once, if an iteration is left for it.
AnswersEmpty ==
  /\ pc = "call" /\ Answer("empty", 0) \in Replies
  /\ IF MayAskAgain /\ iteration < conf.iterations - 1
     THEN /\ nudged' = nudged + 1 /\ iteration' = iteration + 1 /\ pc' = "loop"
          /\ conversation' = Append(conversation, Text("user", 1))
     ELSE pc' = Finished /\ UNCHANGED <<nudged, iteration, conversation>>
  /\ total' = total + 1 /\ billed' = billed + 1
  /\ UNCHANGED <<conf, attempt, tries, asked, results, called>>

AnswersTools(n) ==
  /\ pc = "call" /\ \E content \in {"empty", "some"} : Answer(content, n) \in Replies
  /\ asked' = {<<iteration, t>> : t \in 1..n} /\ results' = <<>>
  /\ conversation' = Append(conversation, Message("call", FormatOf(ProviderOf(attempt)), asked', 1))
  /\ pc' = "tools" /\ total' = total + 1 /\ billed' = billed + 1
  /\ UNCHANGED <<conf, iteration, attempt, tries, nudged, called>>
-----------------------------------------------------------------------------
(* The tools of one response, and what follows the loop. *)

NextTool == CHOOSE t \in asked : \A u \in asked : t[2] <= u[2]

\* A tool that raises has its error for a result.
ExecuteTool(size) ==
  /\ pc = "tools" /\ asked # {}
  /\ results' = Append(results, [id |-> NextTool, size |-> size])
  /\ asked' = asked \ {NextTool}
  /\ UNCHANGED <<conf, pc, conversation, iteration, attempt, tries, nudged, total, called,
                 billed>>

\* _append_tool_results: one message for all of them, or (openai) one for each.
ResultMessages(form) ==
  IF form = "openai"
  THEN [i \in DOMAIN results |-> Message("results", form, {results[i].id}, results[i].size)]
  ELSE <<Message("results", form, {r.id : r \in ToSet(results)},
                 SumOf([i \in DOMAIN results |-> results[i].size], DOMAIN results))>>

AppendResults ==
  /\ pc = "tools" /\ asked = {}
  /\ conversation' = conversation \o ResultMessages(FormatOf(ProviderOf(attempt)))
  /\ results' = <<>> /\ iteration' = iteration + 1 /\ pc' = "loop"
  /\ called' = iteration + 1
  /\ UNCHANGED <<conf, attempt, tries, asked, nudged, total, billed>>

\* The iterations are used up: one more call, without tools and without truncation.
AskForSynthesis ==
  /\ pc = "loop" /\ iteration >= conf.iterations
  /\ conversation' = Append(conversation, Text("user", 1))
  /\ IF conf.stream THEN pc' = "stream" /\ UNCHANGED <<attempt, tries>>
                    ELSE pc' = "final" /\ attempt' = FirstAttempt /\ tries' = 1
  /\ UNCHANGED <<conf, iteration, asked, results, nudged, total, called,
                 billed>>

WithFinal == total + 1

FinalAnswer ==
  /\ pc = "final" /\ Replies # {Unusable}
  /\ total' = WithFinal /\ billed' = billed + 1 /\ pc' = "done"
  /\ UNCHANGED <<conf, conversation, iteration, attempt, tries, asked, results, nudged,
                 called>>

\* _stream_final_response: one attempt with the primary, whose blocked or broken answer
\* is not tried again; what it costs is not counted.
StreamCompletes ==
  /\ pc = "stream"
  /\ pc' = "done"
  /\ UNCHANGED <<conf, conversation, iteration, attempt, tries, asked, results, nudged,
                 total, called, billed>>

StreamBreaks ==
  /\ pc = "stream"
  /\ pc' = "failed"
  /\ UNCHANGED <<conf, conversation, iteration, attempt, tries, asked, results, nudged,
                 total, called, billed>>

\* Without tools: one call, which the input limit does not concern.
SingleAnswer(content) ==
  /\ pc = "single" /\ Answer(content, 0) \in Replies
  /\ pc' = IF content = "some" THEN "done" ELSE "empty"
  /\ total' = total + 1 /\ billed' = billed + 1
  /\ UNCHANGED <<conf, conversation, iteration, attempt, tries, asked, results, nudged,
                 called>>

LoopNext ==
  \/ BeginIteration \/ CallFails \/ AnswersText \/ AnswersEmpty
  \/ \E n \in 1..MaxTools : AnswersTools(n)
  \/ \E size \in Sizes : ExecuteTool(size)
  \/ AppendResults \/ AskForSynthesis \/ FinalAnswer
  \/ StreamCompletes \/ StreamBreaks
  \/ \E content \in {"empty", "some"} : SingleAnswer(content)
-----------------------------------------------------------------------------
(* Properties. *)

\* What a model is asked keeps every tool call and its results together, although
\* the oldest messages were removed, openai's results are messages of their own and
\* google does not get what another provider began: "tool_use/tool_result pairs are
\* never broken" (clients.py:206).  Where there is a limit it holds for the formats
\* that _group_into_units recognises.
AnsweredBy(s, i) ==
  LET Answers == {j \in (i + 1)..Len(s) : \A k \in (i + 1)..j : s[k].kind = "results"}
  IN  UNION {s[j].ids : j \in Answers}

Paired(s) ==
  /\ \A i \in DOMAIN s : s[i].kind = "call" => AnsweredBy(s, i) = s[i].ids
  /\ \A i \in DOMAIN s : s[i].kind = "results" =>
       \E j \in 1..(i - 1) : s[j].kind = "call" /\ s[i].ids \subseteq s[j].ids

PairsKept ==
  /\ pc \in {"call", "final", "stream"}
  /\ conf.limit = NoLimit \/ "google" \notin {conf.primary, conf.backup}
  => Paired(Prompted)

\* Which provider is asked depends on the failures of this call only: however the
\* last iteration went, the next begins with the primary, and the backup is asked
\* when all attempts but one have failed (clients.py:756, :1402).
PrimaryFirst ==
  pc \in {"call", "final", "single"} /\ ProviderOf(attempt) # conf.primary => tries = Attempts

\* A call of the loop fits the input limit, unless the system prompt alone exceeds it
\* or a single unit is left that is too large (clients.py:760).
FitsLimit ==
  pc = "call" /\ conf.limit # NoLimit =>
    \/ Tokens(conversation, DOMAIN conversation) <= conf.limit
    \/ conf.system >= conf.limit
    \/ Cardinality(Units(conversation)) = 1

\* The results of the tools that were executed last are in the next question, whatever
\* had to be removed to make room for them, and with them the calls they answer.
ResultsReachModel ==
  pc = "call" /\ iteration > 0 /\ nudged = 0 /\ "google" \notin {conf.primary, conf.backup}
    => \E i \in DOMAIN conversation :
         /\ conversation[i].kind = "call" /\ AnsweredBy(conversation, i) = conversation[i].ids
         /\ \A t \in conversation[i].ids : t[1] = iteration - 1

\* Truncation removes enough, and the right end.
ContextIsRecent == FitsLimit /\ ResultsReachModel
=============================================================================
