----------------------------- MODULE DreamRun ------------------------------
(***************************************************************************)
(* Who calls the models: the dialectic agent, one loop for a question      *)
(* (src/src/dialectic/core.py), the dream orchestrator, one for each of    *)
(* its two specialists (src/src/dreamer/orchestrator.py,                   *)
(* src/src/dreamer/specialists.py), and with a single call the deriver     *)
(* (src/src/deriver/deriver.py) and the summarizer                         *)
(* (src/src/utils/summarizer.py).                                          *)
(***************************************************************************)
EXTENDS AgentLoop

CONSTANT DreamConfigs   \* those of Configs that specialists use

ASSUME DreamAssumption ==
  DreamConfigs \subseteq {c \in Configs : c.kind = "agent" /\ c.limit = NoLimit /\ ~c.stream}

VARIABLES
  phase,     \* "question", "single" or the part of the dream that runs
  earlier,   \* the result of the deduction specialist
  report     \* what the event of the dream, the question or the single call says

runVars == <<phase, earlier, report>>
vars    == <<loopVars, runVars>>

Result(tokens, iterations) == [tokens |-> tokens, iterations |-> iterations]
NoResult == Result(0, 0)
NoReport == [sent |-> FALSE, result |-> NoResult]
Sent(result) == [sent |-> TRUE, result |-> result]

TypeOK ==
  /\ LoopTypeOK
  /\ phase \in {"question", "single", "begin", "deduction", "induction", "ended"}
  /\ earlier \in [tokens : Nat, iterations : Nat]
  /\ report \in [sent : BOOLEAN, result : [tokens : Nat, iterations : Nat]]

Init ==
  /\ LoopInit
  /\ phase = IF conf \in DreamConfigs THEN "begin"
             ELSE IF conf.kind = "agent" THEN "question" ELSE "single"
  /\ earlier = NoResult /\ report = NoReport

\* run_dream: dreams are switched off, or what comes before the specialists raises.
SkipDream ==
  /\ phase = "begin"
  /\ phase' = "ended"
  /\ UNCHANGED <<loopVars, earlier, report>>

BeginDream ==
  /\ phase = "begin"
  /\ phase' = "deduction"
  /\ UNCHANGED <<loopVars, earlier, report>>

Running == phase \in {"question", "single", "deduction", "induction"}

LoopStep == Running /\ LoopNext /\ UNCHANGED runVars

Prepared == pc = "loop" /\ conversation = Question(conf)

\* The peers, the card or the lock of a specialist cannot be had.
SpecialistRaises ==
  /\ phase \in {"deduction", "induction"} /\ Prepared
  /\ phase' = "ended"
  /\ UNCHANGED <<loopVars, earlier, report>>

\* The session's history cannot be read; a prefetch that raises is left out.
QueryRaises ==
  /\ phase = "question" /\ Prepared
  /\ phase' = "ended"
  /\ UNCHANGED <<loopVars, earlier, report>>

\* The loop or the single call gave up.  run_dream catches SpecialistExecutionError
\* only, which nothing raises: process_dream swallows what comes and the second
\* specialist never runs.
Raises ==
  /\ Running /\ pc = "failed"
  /\ phase' = "ended"
  /\ UNCHANGED <<loopVars, earlier, report>>

DeductionEnds ==
  /\ phase = "deduction" /\ pc = "done"
  /\ phase' = "induction" /\ earlier' = Result(total, called)
  /\ StartLoop
  /\ UNCHANGED report

\* mutant: the event reports the second specialist
SecondOnly == Result(total, called)
\* A specialist counts the iterations that executed tools, by its iteration_callback.
BothSpecialists == Result(earlier.tokens + total, earlier.iterations + called)

InductionEnds ==
  /\ phase = "induction" /\ pc = "done"
  /\ phase' = "ended"
  /\ report' = Sent(BothSpecialists)
  /\ UNCHANGED <<loopVars, earlier>>

\* DialecticCompletedEvent; iterations counts the call after the loop as well.
QuestionEnds ==
  /\ phase = "question" /\ pc = "done"
  /\ phase' = "ended"
  /\ report' = Sent(Result(total, iteration + 1))
  /\ UNCHANGED <<loopVars, earlier>>

\* RepresentationCompletedEvent: also for a representation without observations, which
\* is not saved.
DerivationEnds ==
  /\ phase = "single" /\ Structured /\ pc \in {"done", "empty"}
  /\ phase' = "ended"
  /\ report' = Sent(Result(total, 0))
  /\ UNCHANGED <<loopVars, earlier>>

\* An empty summary is replaced by the fallback text, which is neither saved nor
\* reported, as is one whose call raised.
SummaryEnds ==
  /\ phase = "single" /\ ~Structured /\ pc \in {"done", "empty"}
  /\ phase' = "ended"
  /\ report' = IF pc = "done" THEN Sent(Result(total, 0)) ELSE NoReport
  /\ UNCHANGED <<loopVars, earlier>>

Next ==
  \/ LoopStep \/ SkipDream \/ BeginDream \/ SpecialistRaises \/ QueryRaises \/ Raises
  \/ DeductionEnds \/ InductionEnds \/ QuestionEnds \/ DerivationEnds \/ SummaryEnds

\* A model, a tool or the database answers or raises in the end: clients have timeouts.
Spec == Init /\ [][Next]_vars /\ WF_vars(Next)
-----------------------------------------------------------------------------
(* Properties. *)

\* What an agent reports is what was billed: each response once, those of both
\* specialists, the empty ones and the one after the last iteration included.  A
\* streamed answer is not counted (clients.py:846).  A question counts its calls; a
\* dream leaves out at least the answer of each specialist, which calls no tool,
\* although the event says "Total LLM iterations" (telemetry/events/dream.py:62).
ReportAddsUp ==
  report.sent =>
    /\ report.result.tokens = billed
    /\ IF conf \in DreamConfigs THEN report.result.iterations <= billed - 2
       ELSE conf.kind = "agent" => conf.stream \/ report.result.iterations = billed

\* Whatever the model, the tools and the providers do, an agent comes to an end:
\* iterations, empty answers and attempts are limited together.
AgentEnds == <>(phase = "ended")
=============================================================================
