------------------------------ MODULE MCDreams ------------------------------
(* Dreams, in one run: how a dream, a question or a single call goes         *)
(* (DreamRun), or how dreams are scheduled (DreamScheduler): two savers of   *)
(* one deriver race for the timer of one collection, in which every new      *)
(* document makes a dream due, and a request to the API enqueues the same    *)
(* dream.  The two share no state: a behaviour has one of them.              *)
EXTENDS DreamRun

CONSTANTS none, p1, s1, s2, c1, dream,
          Process, Key, Saver, HomeOf, Caller, TargetOf, Timer,
          DocumentThreshold, MaxDocuments, MaxFaults

VARIABLES part, documents, metadata, rows, leased, pending_dreams, timer, saver, at, count,
          stopping, faults

Timers == INSTANCE DreamScheduler

ASSUME DreamsAssumed == Timers!DreamAssumption

schedulerVars == <<documents, metadata, rows, leased, pending_dreams, timer, saver, at, count,
                   stopping, faults>>
dreamsVars == <<vars, part, schedulerVars>>

MCHomeOf   == [s \in Saver |-> p1]
MCTargetOf == [c \in Caller |-> dream]

Agent(primary, backup, stream, limit, system, iterations) ==
  [kind |-> "agent", primary |-> primary, backup |-> backup, stream |-> stream,
   limit |-> limit, system |-> system, iterations |-> iterations]

Single(kind, primary, backup) ==
  [kind |-> kind, primary |-> primary, backup |-> backup, stream |-> FALSE,
   limit |-> none, system |-> 1, iterations |-> 1]

MCDreamConfigs == {Agent("anthropic", "google", FALSE, none, 1, 3)}
\* The limits leave room for two or three units, or for none beside the system prompt.
MCAgents == MCDreamConfigs \union
  {Agent("openai", "anthropic", FALSE, 7, 2, 4), Agent("anthropic", "openai", TRUE, 6, 1, 3),
   Agent("vllm", none, FALSE, 2, 2, 2), Agent("google", "groq", FALSE, 6, 1, 3),
   Agent("google", "openai", TRUE, none, 1, 2)}
\* Each provider with a structured and with a plain answer, two of them as a backup.
MCConfigs == MCAgents
  \union {Single("structured", p, none) : p \in {"anthropic", "google", "custom"}}
  \union {Single("text", p, none) : p \in {"anthropic", "custom", "vllm"}}
  \union {Single("structured", "groq", "vllm"), Single("text", "groq", "google")}

DreamsTypeOK == part \in {"running", "scheduling"} /\ TypeOK /\ Timers!TypeOK

DreamsInit ==
  /\ part \in {"running", "scheduling"}
  /\ Init /\ Timers!Init
  /\ part # "running" => conf = CHOOSE c \in Configs : TRUE

DreamsNext ==
  \/ part = "running" /\ Next /\ UNCHANGED <<part, schedulerVars>>
  \/ part = "scheduling" /\ Timers!Next /\ UNCHANGED <<part, vars>>

\* The fairness of each part: that of Spec of DreamRun, Fairness of DreamScheduler.
DreamsSpec ==
  /\ DreamsInit /\ [][DreamsNext]_dreamsVars
  /\ WF_dreamsVars(part = "running" /\ Next /\ UNCHANGED <<part, schedulerVars>>)
  /\ WF_dreamsVars(part = "scheduling" /\ Timers!Step /\ UNCHANGED <<part, vars>>)

\* Whatever the model, the tools and the providers do, an agent comes to an end
\* (_execute_tool_loop).
AgentsEnd == part = "running" => AgentEnds

\* A collection has one pending dream, and an entry of the dictionaries leads to a task
\* (enqueue_dream, add_done_callback).
DreamsAreSingle == Timers!DreamsAreSingle

\* Who cancels a timer goes on (cancel_dream).
CancellersResume == Timers!CancellersResume

\* A timer leads to a dream, however often it is set anew (_delayed_dream), as long as no
\* fault happens; the run has the timers of one process.
TimersLeadToDreams == Timers!TimersLeadToDreams
=============================================================================
