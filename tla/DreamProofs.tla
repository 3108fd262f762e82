---------------------------- MODULE DreamProofs -----------------------------
(***************************************************************************)
(* What is proved of dreams.  Of an agent, a dream and a single call that  *)
(* run (DreamRun), for every set of configurations and any number of       *)
(* attempts, tools and iterations: the backup provider is the last resort  *)
(* of the call it is asked in, the report adds up, and of a conversation   *)
(* of any length what reaches the model keeps calls and results together,  *)
(* fits the limit and has the latest results.  Of scheduling dreams        *)
(* (DreamScheduler), for any processes, collections, savers, callers,      *)
(* timers, thresholds and numbers of documents and faults: the timers have *)
(* their types, and a collection has one dream at a time.                  *)
(***************************************************************************)
EXTENDS MCDreams, WellFoundedInduction, FiniteSetTheorems, TLAPS

(* Agents, dreams and single calls (DreamRun). *)

\* The attempt that selects the provider is the one the retrying object counts.
AttemptIsCounted == pc \in {"call", "final", "single"} => attempt = tries

\* Every action of the loop that goes on to ask a model sets both, or neither.
LEMMA LoopCountsAttempts ==
  ASSUME AttemptIsCounted, LoopNext
  PROVE  AttemptIsCounted'
<1>1. CASE BeginIteration
  BY <1>1 DEF BeginIteration, FirstAttempt, AttemptIsCounted
<1>2. CASE CallFails
  BY <1>2 DEF CallFails, AttemptIsCounted
<1>3. CASE AnswersText
  BY <1>3 DEF AnswersText, Finished, AttemptIsCounted
<1>4. CASE AnswersEmpty
  BY <1>4 DEF AnswersEmpty, Finished, AttemptIsCounted
<1>5. CASE \E n \in 1..MaxTools : AnswersTools(n)
  BY <1>5 DEF AnswersTools, AttemptIsCounted
<1>6. CASE \E size \in Sizes : ExecuteTool(size)
  BY <1>6 DEF ExecuteTool, AttemptIsCounted
<1>7. CASE AppendResults
  BY <1>7 DEF AppendResults, AttemptIsCounted
<1>8. CASE AskForSynthesis
  BY <1>8 DEF AskForSynthesis, FirstAttempt, AttemptIsCounted
<1>9. CASE FinalAnswer
  BY <1>9 DEF FinalAnswer, AttemptIsCounted
<1>10. CASE StreamCompletes \/ StreamBreaks
  BY <1>10 DEF StreamCompletes, StreamBreaks, AttemptIsCounted
<1>11. CASE \E content \in {"empty", "some"} : SingleAnswer(content)
  BY <1>11 DEF SingleAnswer, AttemptIsCounted
<1> QED
  BY <1>1, <1>2, <1>3, <1>4, <1>5, <1>6, <1>7, <1>8, <1>9, <1>10, <1>11 DEF LoopNext

LEMMA AttemptsInitially == Init => AttemptIsCounted
BY DEF Init, LoopInit, AttemptIsCounted

LEMMA AttemptsPreserved == AttemptIsCounted /\ [Next]_vars => AttemptIsCounted'
<1> SUFFICES ASSUME AttemptIsCounted, [Next]_vars
             PROVE  AttemptIsCounted'
  OBVIOUS
<1>1. CASE LoopStep
  BY <1>1, LoopCountsAttempts DEF LoopStep
<1>2. CASE DeductionEnds
  BY <1>2 DEF DeductionEnds, StartLoop, AttemptIsCounted
<1>3. CASE SkipDream \/ BeginDream \/ SpecialistRaises \/ QueryRaises \/ Raises
  BY <1>3 DEF SkipDream, BeginDream, SpecialistRaises, QueryRaises, Raises, loopVars,
              AttemptIsCounted
<1>4. CASE InductionEnds \/ QuestionEnds \/ DerivationEnds \/ SummaryEnds
  BY <1>4 DEF InductionEnds, QuestionEnds, DerivationEnds, SummaryEnds, loopVars,
              AttemptIsCounted
<1>5. CASE UNCHANGED vars
  BY <1>5 DEF vars, loopVars, AttemptIsCounted
<1> QED
  BY <1>1, <1>2, <1>3, <1>4, <1>5 DEF Next

\* However the earlier iterations and the specialist before went, another provider
\* than the primary is asked only when the call has used all attempts but the last
\* (_get_provider_and_model and the resets of _current_attempt).
THEOREM PrimaryComesFirst == Spec => []PrimaryFirst
<1>1. AttemptIsCounted => PrimaryFirst
  BY DEF AttemptIsCounted, PrimaryFirst, ProviderOf
<1> QED
  BY <1>1, AttemptsInitially, AttemptsPreserved, PTL DEF Spec
-----------------------------------------------------------------------------
\* The counters of the loop: total is the number of responses received since it began,
\* and except before a streamed answer there is one for each iteration.
LoopCounters ==
  /\ iteration \in Nat /\ total \in Nat /\ called \in Nat /\ billed \in Nat
  /\ called <= iteration
  /\ pc \in {"loop", "call", "final", "single"} => total = iteration
  /\ pc = "tools" => total = iteration + 1
  /\ pc = "done" /\ ~conf.stream => total = iteration + 1
  /\ pc = "stream" => conf.stream

LEMMA LoopCountersPreserved ==
  ASSUME LoopCounters, LoopNext
  PROVE  LoopCounters' /\ billed' - total' = billed - total /\ conf' = conf
<1>1. CASE BeginIteration
  BY <1>1 DEF BeginIteration, LoopCounters
<1>2. CASE CallFails
  BY <1>2 DEF CallFails, LoopCounters
<1>3. CASE AnswersText
  BY <1>3 DEF AnswersText, Finished, LoopCounters
<1>4. CASE AnswersEmpty
  BY <1>4 DEF AnswersEmpty, Finished, LoopCounters
<1>5. CASE \E n \in 1..MaxTools : AnswersTools(n)
  BY <1>5 DEF AnswersTools, LoopCounters
<1>6. CASE \E size \in Sizes : ExecuteTool(size)
  BY <1>6 DEF ExecuteTool, LoopCounters
<1>7. CASE AppendResults
  BY <1>7 DEF AppendResults, LoopCounters
<1>8. CASE AskForSynthesis
  BY <1>8 DEF AskForSynthesis, LoopCounters
<1>9. CASE FinalAnswer
  BY <1>9 DEF FinalAnswer, WithFinal, LoopCounters
<1>10. CASE StreamCompletes \/ StreamBreaks
  BY <1>10 DEF StreamCompletes, StreamBreaks, LoopCounters
<1>11. CASE \E content \in {"empty", "some"} : SingleAnswer(content)
  BY <1>11 DEF SingleAnswer, LoopCounters
<1> QED
  BY <1>1, <1>2, <1>3, <1>4, <1>5, <1>6, <1>7, <1>8, <1>9, <1>10, <1>11 DEF LoopNext

\* Between the loops: who runs, what the first specialist left, and what is reported.
RunCounters ==
  /\ earlier.tokens \in Nat /\ earlier.iterations \in Nat
  /\ billed = earlier.tokens + total
  /\ phase \in {"question", "single"} => conf \notin DreamConfigs
  /\ phase = "single" => conf.kind # "agent"
  /\ phase \in {"begin", "deduction", "induction"} => conf \in DreamConfigs
  /\ phase \in {"question", "single", "begin", "deduction"} => earlier = NoResult
  /\ phase = "induction" => earlier.iterations < earlier.tokens
  /\ report.sent => phase = "ended"

ReportInv == LoopCounters /\ RunCounters /\ ReportAddsUp

LEMMA ReportInitially == Init => ReportInv
BY AgentAssumption
DEF Init, LoopInit, ReportInv, LoopCounters, RunCounters, ReportAddsUp, NoReport,
    NoResult, Result

LEMMA ReportPreserved == ReportInv /\ [Next]_vars => ReportInv'
<1> SUFFICES ASSUME ReportInv, [Next]_vars
             PROVE  ReportInv'
  OBVIOUS
<1> USE DEF ReportInv
<1>0. conf \in DreamConfigs => ~conf.stream
  BY DreamAssumption
<1>1. CASE LoopStep
  <2>1. LoopCounters' /\ billed' - total' = billed - total /\ conf' = conf
    BY <1>1, LoopCountersPreserved DEF LoopStep
  <2>2. UNCHANGED <<phase, earlier, report>> /\ phase # "ended"
    BY <1>1 DEF LoopStep, runVars, Running
  <2>3. RunCounters'
    BY <2>1, <2>2 DEF RunCounters, LoopCounters, NoResult, Result
  <2>4. ReportAddsUp'
    BY <2>2 DEF RunCounters, ReportAddsUp
  <2> QED BY <2>1, <2>3, <2>4
<1>2. CASE DeductionEnds
  <2>1. LoopCounters'
    BY <1>2 DEF DeductionEnds, StartLoop, LoopCounters
  <2>2. called < total
    BY <1>0, <1>2 DEF DeductionEnds, LoopCounters, RunCounters
  <2>3. RunCounters'
    BY <1>2, <2>2 DEF DeductionEnds, StartLoop, RunCounters, LoopCounters, NoResult, Result
  <2>4. ReportAddsUp'
    BY <1>2 DEF DeductionEnds, RunCounters, ReportAddsUp
  <2> QED BY <2>1, <2>3, <2>4
<1>3. CASE InductionEnds
  <2>1. LoopCounters'
    BY <1>3 DEF InductionEnds, loopVars, LoopCounters
  <2>2. called < total /\ earlier.iterations < earlier.tokens
    BY <1>0, <1>3 DEF InductionEnds, LoopCounters, RunCounters
  <2>3. RunCounters'
    BY <1>3 DEF InductionEnds, loopVars, RunCounters
  <2>4. report'.result = Result(earlier.tokens + total, earlier.iterations + called)
    BY <1>3 DEF InductionEnds, BothSpecialists, Sent
  <2>5. ReportAddsUp'
    BY <1>3, <2>2, <2>4
    DEF InductionEnds, loopVars, RunCounters, LoopCounters, ReportAddsUp, Result
  <2> QED BY <2>1, <2>3, <2>5
<1>4. CASE QuestionEnds
  <2>1. LoopCounters'
    BY <1>4 DEF QuestionEnds, loopVars, LoopCounters
  <2>2. RunCounters'
    BY <1>4 DEF QuestionEnds, loopVars, RunCounters
  <2>3. report'.result = Result(total, iteration + 1)
    BY <1>4 DEF QuestionEnds, Sent
  <2>4. billed = total
    BY <1>4 DEF QuestionEnds, RunCounters, LoopCounters, NoResult, Result
  <2>5. ReportAddsUp'
    BY <1>4, <2>3, <2>4
    DEF QuestionEnds, loopVars, RunCounters, LoopCounters, ReportAddsUp, Result
  <2> QED BY <2>1, <2>2, <2>5
<1>5. CASE SkipDream \/ BeginDream \/ SpecialistRaises \/ QueryRaises \/ Raises
  <2>1. UNCHANGED <<loopVars, earlier, report>> /\ ~report.sent
    BY <1>5 DEF SkipDream, BeginDream, SpecialistRaises, QueryRaises, Raises, Running,
                RunCounters
  <2>2. LoopCounters' /\ ReportAddsUp'
    BY <2>1 DEF loopVars, LoopCounters, ReportAddsUp
  <2>3. RunCounters'
    BY <1>5, <2>1 DEF SkipDream, BeginDream, SpecialistRaises, QueryRaises, Raises, loopVars,
                      RunCounters
  <2> QED BY <2>2, <2>3
<1>6. CASE DerivationEnds \/ SummaryEnds
  <2>1. LoopCounters'
    BY <1>6 DEF DerivationEnds, SummaryEnds, loopVars, LoopCounters
  <2>2. RunCounters'
    BY <1>6 DEF DerivationEnds, SummaryEnds, loopVars, RunCounters
  <2>3. report' = Sent(Result(total, 0)) \/ report' = NoReport
    BY <1>6 DEF DerivationEnds, SummaryEnds
  <2>4. /\ conf' = conf /\ conf \notin DreamConfigs /\ conf.kind # "agent"
        /\ billed' = total
    BY <1>6 DEF DerivationEnds, SummaryEnds, loopVars, RunCounters, LoopCounters, NoResult,
                Result
  <2>5. ReportAddsUp'
    BY <2>3, <2>4 DEF ReportAddsUp, Sent, Result, NoReport
  <2> QED BY <2>1, <2>2, <2>5
<1>7. CASE UNCHANGED vars
  BY <1>7 DEF vars, loopVars, runVars, LoopCounters, RunCounters, ReportAddsUp
<1> QED
  BY <1>1, <1>2, <1>3, <1>4, <1>5, <1>6, <1>7 DEF Next

\* What an agent or a dream reports is what it was billed: the tokens of every
\* response once, and of the calls a question counts them all, while a dream counts
\* at least two too few (run_dream, _log_response_metrics, _execute_tool_loop).
THEOREM ReportsAddUp == Spec => []ReportAddsUp
<1>1. ReportInv => ReportAddsUp
  BY DEF ReportInv
<1> QED
  BY <1>1, ReportInitially, ReportPreserved, PTL DEF Spec
-----------------------------------------------------------------------------
(* Numbers. *)

\* Some numbers have a least one.
LEMMA LeastNumber ==
  ASSUME NEW S \in SUBSET Nat, S # {}
  PROVE  \E x \in S : \A y \in S : x <= y
<1> DEFINE LessThan == {ss \in Nat \X Nat : ss[1] < ss[2]}
<1>1. IsWellFoundedOn(LessThan, Nat)
  BY NatLessThanWellFounded DEF OpToRel
<1>2. PICK x \in S : \A y \in S : ~(<<y, x>> \in LessThan)
  <2> HIDE DEF LessThan
  <2> QED
    BY <1>1, WFMin
<1>3. ASSUME NEW y \in S PROVE x <= y
  <2>1. <<y, x>> \in LessThan <=> y < x
    OBVIOUS
  <2>2. x \in Nat /\ y \in Nat /\ ~(y < x)
    BY <1>2, <2>1
  <2> QED
    BY <2>2
<1> QED
  BY <1>3

\* What holds for 0 and goes on holds for all numbers.
LEMMA Induction ==
  ASSUME NEW S, 0 \in S, \A n \in Nat : n \in S => n + 1 \in S
  PROVE  \A n \in Nat : n \in S
<1> DEFINE T == {n \in Nat : n \notin S}
<1>1. SUFFICES ASSUME T # {} PROVE FALSE
  OBVIOUS
<1>2. PICK n \in T : \A k \in T : n <= k
  <2>1. T \in SUBSET Nat
    OBVIOUS
  <2> HIDE DEF T
  <2> QED
    BY <1>1, <2>1, LeastNumber
<1>3. n \in Nat /\ n # 0 /\ n \notin S
  OBVIOUS
<1>4. n - 1 \in Nat /\ ~(n <= n - 1) /\ (n - 1) + 1 = n
  BY <1>3
<1>5. n - 1 \in S
  BY <1>2, <1>4
<1> QED
  BY <1>3, <1>4, <1>5

\* What Min and Max find.
LEMMA Smallest ==
  ASSUME NEW S \in SUBSET Nat, S # {}
  PROVE  Min(S) \in S /\ \A y \in S : Min(S) <= y
BY LeastNumber DEF Min

\* Some numbers up to a bound have a greatest one, which Max finds.
LEMMA Largest ==
  ASSUME NEW b \in Nat, NEW S \in SUBSET (0..b), S # {}
  PROVE  Max(S) \in S /\ \A y \in S : y <= Max(S)
<1> DEFINE T == {b - x : x \in S}
<1>0. \A x \in S : x \in 0..b
  OBVIOUS
<1>1. T \in SUBSET Nat /\ T # {}
  <2>1. \A x \in S : b - x \in Nat
    BY <1>0
  <2> QED
    BY <2>1
<1>2. PICK t \in T : \A u \in T : t <= u
  <2> HIDE DEF T
  <2> QED
    BY <1>1, LeastNumber
<1>3. PICK x \in S : t = b - x
  BY <1>2
<1>4. ASSUME NEW y \in S PROVE y <= x
  <2>1. b - y \in T
    OBVIOUS
  <2>2. t <= b - y
    BY <1>2, <2>1
  <2> QED
    BY <1>0, <1>3, <2>2
<1>5. x \in S /\ \A y \in S : x >= y
  <2>1. \A y \in S : x \in 0..b /\ y \in 0..b /\ y <= x
    BY <1>0, <1>4
  <2> QED
    BY <2>1
<1>6. Max(S) \in S /\ \A y \in S : Max(S) >= y
  BY <1>5 DEF Max
<1> QED
  BY <1>0, <1>6

\* The largest of some numbers is n if n is among them and none is larger.
LEMMA TopIsMax ==
  ASSUME NEW n \in Nat, NEW J \in SUBSET (1..n), n \in J
  PROVE  Max(J) = n
<1>1. J \in SUBSET (0..n) /\ J # {}
  <2>1. 1..n \subseteq 0..n
    OBVIOUS
  <2> QED
    BY <2>1
<1>2. Max(J) \in J /\ \A y \in J : y <= Max(J)
  BY <1>1, Largest
<1>3. n <= Max(J) /\ Max(J) \in 1..n
  BY <1>2
<1> QED
  BY <1>3
-----------------------------------------------------------------------------
(* Sums. *)

\* The recursive function of SumOf, over the sets of positions within I.
IsSum(sum, w, I) ==
  sum = [J \in SUBSET I |-> IF J = {} THEN 0 ELSE sum[J \ {Max(J)}] + w[Max(J)]]

\* Such a function exists for the positions up to any n.
LEMMA SumExists ==
  ASSUME NEW w
  PROVE  \A n \in Nat : \A I \in SUBSET (1..n) : \E sum : IsSum(sum, w, I)
<1> DEFINE S == {n \in Nat : \A I \in SUBSET (1..n) : \E sum : IsSum(sum, w, I)}
<1>1. 0 \in S
  <2>1. SUFFICES ASSUME NEW I \in SUBSET (1..0) PROVE \E sum : IsSum(sum, w, I)
    OBVIOUS
  <2>2. I = {}
    BY <2>1
  <2> DEFINE sum == [J \in SUBSET I |-> 0]
  <2>3. IsSum(sum, w, I)
    BY <2>2 DEF IsSum
  <2> QED
    BY <2>3
<1>2. ASSUME NEW n \in Nat, n \in S
      PROVE  n + 1 \in S
  <2>0. SUFFICES ASSUME NEW I \in SUBSET (1..(n + 1)) PROVE \E sum : IsSum(sum, w, I)
    OBVIOUS
  <2>1. CASE n + 1 \notin I
    <3>1. I \in SUBSET (1..n)
      <4>1. ASSUME NEW i \in I PROVE i \in 1..n
        <5>1. i \in 1..(n + 1) /\ i # n + 1
          BY <2>1
        <5> QED
          BY <5>1
      <4> QED
        BY <4>1
    <3> QED
      BY <1>2, <3>1
  <2>2. CASE n + 1 \in I
    <3> DEFINE top == n + 1
               K   == I \ {top}
    <3>1. K \in SUBSET (1..n)
      <4>1. ASSUME NEW i \in K PROVE i \in 1..n
        <5>1. i \in 1..(n + 1) /\ i # n + 1
          BY <2>2
        <5> QED
          BY <5>1
      <4> QED
        BY <4>1
    <3>2. PICK g : IsSum(g, w, K)
      <4> HIDE DEF K
      <4> QED
        BY <1>2, <3>1
    <3> DEFINE f == [J \in SUBSET I |-> IF top \in J THEN g[J \ {top}] + w[top] ELSE g[J]]
    <3>3. ASSUME NEW J \in SUBSET I
          PROVE  f[J] = IF J = {} THEN 0 ELSE f[J \ {Max(J)}] + w[Max(J)]
      <4>1. CASE top \in J
        <5>1. Max(J) = top
          <6>1. J \in SUBSET (1..top) /\ top \in Nat
            OBVIOUS
          <6> HIDE DEF top
          <6> QED
            BY <4>1, <6>1, TopIsMax
        <5>2. f[J] = g[J \ {top}] + w[top] /\ J # {}
          BY <4>1
        <5>3. f[J \ {top}] = g[J \ {top}]
          OBVIOUS
        <5> HIDE DEF f, top
        <5> QED
          BY <5>1, <5>2, <5>3
      <4>2. CASE top \notin J
        <5>1. J \in SUBSET K /\ J \ {Max(J)} \in SUBSET I /\ top \notin J \ {Max(J)}
          BY <4>2
        <5>2. g[J] = IF J = {} THEN 0 ELSE g[J \ {Max(J)}] + w[Max(J)]
          <6> HIDE DEF K
          <6> QED
            BY <3>2, <5>1 DEF IsSum
        <5>3. f[J] = g[J] /\ f[J \ {Max(J)}] = g[J \ {Max(J)}]
          BY <4>2, <5>1
        <5> HIDE DEF f, top, K
        <5> QED
          BY <5>2, <5>3
      <4> QED
        BY <4>1, <4>2
    <3>4. f = [J \in SUBSET I |-> f[J]]
      OBVIOUS
    <3>5. IsSum(f, w, I)
      <4> HIDE DEF f
      <4> QED
        BY <3>3, <3>4 DEF IsSum
    <3> QED
      BY <3>5
  <2> QED
    BY <2>1, <2>2
<1>3. \A n \in Nat : n \in S
  <2> HIDE DEF S
  <2> QED
    BY <1>1, <1>2, Induction
<1> QED
  BY <1>3

\* Two sums, of which one adds up more than the other, agree.
Sums(f, w, A, g, B, N) == A \in SUBSET (1..N) /\ B \subseteq A /\ IsSum(f, w, A) /\ IsSum(g, w, B)

\* It does not depend on the set it is defined over.
LEMMA SumUnique ==
  ASSUME NEW w, NEW N \in Nat, NEW A, NEW B, NEW f, NEW g, Sums(f, w, A, g, B, N)
  PROVE  f[B] = g[B]
<1> USE DEF Sums
<1> DEFINE S == {n \in Nat : \A J \in SUBSET (A \intersect B) : J \subseteq 1..n => f[J] = g[J]}
<1>0. ASSUME NEW J \in SUBSET (A \intersect B)
      PROVE  /\ f[J] = IF J = {} THEN 0 ELSE f[J \ {Max(J)}] + w[Max(J)]
             /\ g[J] = IF J = {} THEN 0 ELSE g[J \ {Max(J)}] + w[Max(J)]
  <2>1. J \in SUBSET A /\ J \in SUBSET B
    OBVIOUS
  <2> QED
    BY <2>1 DEF IsSum
<1>1. 0 \in S
  <2>1. SUFFICES ASSUME NEW J \in SUBSET (A \intersect B), J \subseteq 1..0 PROVE f[J] = g[J]
    OBVIOUS
  <2>2. J = {}
    BY <2>1
  <2> QED
    BY <1>0, <2>2
<1>2. ASSUME NEW n \in Nat, n \in S
      PROVE  n + 1 \in S
  <2>0. SUFFICES ASSUME NEW J \in SUBSET (A \intersect B), J \subseteq 1..(n + 1)
                 PROVE  f[J] = g[J]
    OBVIOUS
  <2>1. CASE n + 1 \notin J
    <3>1. J \subseteq 1..n
      <4>1. ASSUME NEW i \in J PROVE i \in 1..n
        <5>1. i \in 1..(n + 1) /\ i # n + 1
          BY <2>0, <2>1
        <5> QED
          BY <5>1
      <4> QED
        BY <4>1
    <3> QED
      BY <1>2, <3>1
  <2>2. CASE n + 1 \in J
    <3>1. Max(J) = n + 1 /\ J # {}
      BY <2>0, <2>2, TopIsMax
    <3>2. J \ {n + 1} \subseteq 1..n
      <4>1. ASSUME NEW i \in J \ {n + 1} PROVE i \in 1..n
        <5>1. i \in 1..(n + 1) /\ i # n + 1
          BY <2>0
        <5> QED
          BY <5>1
      <4> QED
        BY <4>1
    <3>3. f[J \ {n + 1}] = g[J \ {n + 1}]
      <4>1. J \ {n + 1} \in SUBSET (A \intersect B)
        OBVIOUS
      <4> QED
        BY <1>2, <3>2, <4>1
    <3> QED
      BY <1>0, <3>1, <3>3
  <2> QED
    BY <2>1, <2>2
<1>3. \A n \in Nat : n \in S
  <2> HIDE DEF S
  <2> QED
    BY <1>1, <1>2, Induction
<1>4. N \in S /\ B \subseteq 1..N /\ B \in SUBSET (A \intersect B)
  <2> HIDE DEF S
  <2> QED
    BY <1>3
<1> QED
  BY <1>4

\* What SumOf computes.
LEMMA SumSteps ==
  ASSUME NEW w, NEW N \in Nat, NEW J \in SUBSET (1..N)
  PROVE  SumOf(w, J) = IF J = {} THEN 0 ELSE SumOf(w, J \ {Max(J)}) + w[Max(J)]
<1> DEFINE F(I) == CHOOSE sum : IsSum(sum, w, I)
<1>1. ASSUME NEW I \in SUBSET (1..N) PROVE IsSum(F(I), w, I) /\ SumOf(w, I) = F(I)[I]
  <2>1. \E sum : IsSum(sum, w, I)
    BY SumExists
  <2>2. SumOf(w, I) = F(I)[I]
    BY DEF SumOf, IsSum
  <2> QED
    BY <2>1, <2>2
<1> DEFINE K == J \ {Max(J)}
<1>2. K \in SUBSET (1..N) /\ K \in SUBSET (J \intersect K)
  OBVIOUS
<1>3. IsSum(F(J), w, J) /\ IsSum(F(K), w, K) /\ SumOf(w, J) = F(J)[J] /\ SumOf(w, K) = F(K)[K]
  <2> HIDE DEF F, K
  <2> QED
    BY <1>1, <1>2
<1>4. F(J)[K] = F(K)[K]
  <2>1. Sums(F(J), w, J, F(K), K, N)
    <3> HIDE DEF F
    <3> QED
      BY <1>3 DEF Sums
  <2> HIDE DEF F, K
  <2> QED
    BY <2>1, SumUnique
<1>5. F(J)[J] = IF J = {} THEN 0 ELSE F(J)[J \ {Max(J)}] + w[Max(J)]
  <2> HIDE DEF F
  <2>1. J \in SUBSET J
    OBVIOUS
  <2> QED
    BY <1>3, <2>1 DEF IsSum
<1> HIDE DEF F
<1> QED
  BY <1>3, <1>4, <1>5

\* Nothing adds up to nothing.
LEMMA SumOfNone ==
  ASSUME NEW w
  PROVE  SumOf(w, {}) = 0
<1>1. {} \in SUBSET (1..0) /\ 0 \in Nat
  OBVIOUS
<1> QED
  BY <1>1, SumSteps

\* The last position is added last.
LEMMA SumOfTop ==
  ASSUME NEW w, NEW n \in Nat, NEW J \in SUBSET (1..n), n \in J
  PROVE  /\ SumOf(w, J) = SumOf(w, J \ {n}) + w[n]
         /\ J \ {n} \in SUBSET (1..(n - 1)) /\ n - 1 \in Nat
<1>1. Max(J) = n /\ J # {}
  BY TopIsMax
<1>2. SumOf(w, J) = SumOf(w, J \ {n}) + w[n]
  BY <1>1, SumSteps
<1>3. ASSUME NEW i \in J \ {n} PROVE i \in 1..(n - 1)
  <2>1. i \in 1..n /\ i # n
    OBVIOUS
  <2> QED
    BY <2>1
<1>4. n \in 1..n
  OBVIOUS
<1> QED
  BY <1>2, <1>3, <1>4

\* Without the last position the others are a shorter set.
LEMMA BelowTop ==
  ASSUME NEW n \in Nat, NEW J \in SUBSET (1..(n + 1)), n + 1 \notin J
  PROVE  J \in SUBSET (1..n)
<1>1. ASSUME NEW i \in J PROVE i \in 1..n
  <2>1. i \in 1..(n + 1) /\ i # n + 1
    OBVIOUS
  <2> QED
    BY <2>1
<1> QED
  BY <1>1

\* Sums of numbers are numbers.
LEMMA SumIsNumber ==
  ASSUME NEW w, NEW N \in Nat, \A i \in 1..N : w[i] \in Nat
  PROVE  \A J \in SUBSET (1..N) : SumOf(w, J) \in Nat
<1> DEFINE S == {n \in Nat : n <= N => \A J \in SUBSET (1..n) : SumOf(w, J) \in Nat}
<1>1. 0 \in S
  <2>1. ASSUME NEW J \in SUBSET (1..0) PROVE SumOf(w, J) \in Nat
    <3>1. J = {}
      OBVIOUS
    <3> QED
      BY <3>1, SumOfNone
  <2> QED
    BY <2>1
<1>2. ASSUME NEW n \in Nat, n \in S
      PROVE  n + 1 \in S
  <2>0. SUFFICES ASSUME n + 1 <= N, NEW J \in SUBSET (1..(n + 1)) PROVE SumOf(w, J) \in Nat
    OBVIOUS
  <2>1. n <= N /\ n + 1 \in 1..N /\ n + 1 \in Nat /\ (n + 1) - 1 = n
    BY <2>0
  <2>2. CASE n + 1 \notin J
    BY <1>2, <2>1, <2>2, BelowTop
  <2>3. CASE n + 1 \in J
    <3>1. SumOf(w, J) = SumOf(w, J \ {n + 1}) + w[n + 1] /\ J \ {n + 1} \in SUBSET (1..n)
      BY <2>1, <2>3, SumOfTop
    <3>2. SumOf(w, J \ {n + 1}) \in Nat /\ w[n + 1] \in Nat
      BY <1>2, <2>1, <3>1
    <3> QED
      BY <3>1, <3>2
  <2> QED
    BY <2>2, <2>3
<1>3. N \in S
  <2> HIDE DEF S
  <2> QED
    BY <1>1, <1>2, Induction
<1> QED
  BY <1>3

\* The sum of two disjoint sets.
LEMMA SumOfBoth ==
  ASSUME NEW w, NEW N \in Nat, \A i \in 1..N : w[i] \in Nat
  PROVE  \A A, B \in SUBSET (1..N) :
           A \intersect B = {} => SumOf(w, A \union B) = SumOf(w, A) + SumOf(w, B)
<1> DEFINE Adds(A, B) == SumOf(w, A \union B) = SumOf(w, A) + SumOf(w, B)
           S == {n \in Nat : n <= N =>
                             \A A, B \in SUBSET (1..n) : A \intersect B = {} => Adds(A, B)}
<1>1. 0 \in S
  <2>1. \A J \in SUBSET (1..0) : J = {}
    OBVIOUS
  <2>2. {} \union {} = {}
    OBVIOUS
  <2>3. Adds({}, {})
    BY <2>2, SumOfNone
  <2> QED
    BY <2>1, <2>3
<1>2. ASSUME NEW n \in Nat, n \in S
      PROVE  n + 1 \in S
  <2>0. SUFFICES ASSUME n + 1 <= N, NEW A \in SUBSET (1..(n + 1)), NEW B \in SUBSET (1..(n + 1)),
                        A \intersect B = {}
                 PROVE  Adds(A, B)
    OBVIOUS
  <2>1. n <= N /\ n + 1 \in 1..N /\ n + 1 \in Nat /\ (n + 1) - 1 = n
    BY <2>0
  <2>2. w[n + 1] \in Nat /\ \A J \in SUBSET (1..(n + 1)) : SumOf(w, J) \in Nat
    <3>1. 1..(n + 1) \subseteq 1..N
      BY <2>0
    <3> QED
      BY <2>1, <3>1, SumIsNumber
  <2>3. CASE n + 1 \notin A /\ n + 1 \notin B
    <3>1. A \in SUBSET (1..n) /\ B \in SUBSET (1..n)
      BY <2>3, BelowTop
    <3> QED
      BY <1>2, <2>0, <2>1, <3>1
  <2>4. ASSUME NEW C \in SUBSET (1..(n + 1)), NEW D \in SUBSET (1..(n + 1)), C \intersect D = {},
               n + 1 \in C
        PROVE  Adds(C, D)
    <3> DEFINE E == C \ {n + 1}
    <3>1. n + 1 \notin D /\ D \in SUBSET (1..n)
      BY <2>4, BelowTop
    <3>2. SumOf(w, C) = SumOf(w, E) + w[n + 1] /\ E \in SUBSET (1..n)
      BY <2>1, <2>4, SumOfTop
    <3>3. C \union D \in SUBSET (1..(n + 1)) /\ n + 1 \in C \union D
          /\ (C \union D) \ {n + 1} = E \union D /\ E \intersect D = {}
      BY <2>4, <3>1
    <3> HIDE DEF E
    <3>4. SumOf(w, C \union D) = SumOf(w, E \union D) + w[n + 1]
      BY <2>1, <3>3, SumOfTop
    <3>5. SumOf(w, E \union D) = SumOf(w, E) + SumOf(w, D)
      BY <1>2, <2>1, <3>1, <3>2, <3>3
    <3>6. SumOf(w, E) \in Nat /\ SumOf(w, D) \in Nat
      <4>1. E \in SUBSET (1..(n + 1))
        <5>1. 1..n \subseteq 1..(n + 1)
          OBVIOUS
        <5> QED
          BY <3>2, <5>1
      <4> QED
        BY <2>2, <4>1
    <3> QED
      BY <2>2, <3>2, <3>4, <3>5, <3>6
  <2>5. CASE n + 1 \in B
    <3>1. Adds(B, A) /\ A \union B = B \union A
      <4>1. B \intersect A = {}
        BY <2>0
      <4> QED
        BY <2>4, <2>5, <4>1
    <3>2. SumOf(w, A) \in Nat /\ SumOf(w, B) \in Nat
      BY <2>2
    <3> QED
      BY <3>1, <3>2
  <2>6. CASE n + 1 \in A
    BY <2>0, <2>4, <2>6
  <2> QED
    BY <2>3, <2>5, <2>6
<1>3. N \in S
  <2> HIDE DEF S
  <2> QED
    BY <1>1, <1>2, Induction
<1> QED
  BY <1>3

\* The sum is the same in another sequence that has what is summed in the same order.
Enumerates(e, n, I) ==
  /\ e \in [1..n -> I] /\ \A i \in I : \E k \in 1..n : e[k] = i
  /\ \A j, k \in 1..n : j < k => e[j] < e[k]

Renumbers(v, n, w, I, N, e) ==
  /\ N \in Nat /\ n \in Nat /\ I \in SUBSET (1..N)
  /\ Enumerates(e, n, I) /\ \A k \in 1..n : v[k] = w[e[k]]

\* A sum does not depend on how its terms are numbered.
LEMMA SumRenumbered ==
  ASSUME NEW v, NEW n, NEW w, NEW I, NEW N, NEW e, Renumbers(v, n, w, I, N, e)
  PROVE  SumOf(v, 1..n) = SumOf(w, I)
<1> USE DEF Renumbers
<1> DEFINE First(m) == {e[k] : k \in 1..m}
           S == {m \in Nat : m <= n => SumOf(v, 1..m) = SumOf(w, First(m))}
<1>0. \A k \in 1..n : e[k] \in I /\ e[k] \in 1..N /\ \A j \in 1..n : j < k => e[j] < e[k]
  BY DEF Enumerates
<1>1. 0 \in S
  <2>1. 1..0 = {} /\ First(0) = {}
    OBVIOUS
  <2> HIDE DEF First
  <2> QED
    BY <2>1, SumOfNone
<1>2. ASSUME NEW m \in Nat, m \in S
      PROVE  m + 1 \in S
  <2>0. SUFFICES ASSUME m + 1 <= n PROVE SumOf(v, 1..(m + 1)) = SumOf(w, First(m + 1))
    OBVIOUS
  <2> DEFINE top == e[m + 1]
  <2>1. m <= n /\ m + 1 \in 1..n /\ top \in 1..N /\ top \in Nat
    BY <1>0, <2>0
  <2>2. SumOf(v, 1..(m + 1)) = SumOf(v, 1..m) + v[m + 1]
    <3>1. (1..(m + 1)) \ {m + 1} = 1..m /\ m + 1 \in 1..(m + 1) /\ m + 1 \in Nat
      OBVIOUS
    <3>2. SumOf(v, 1..(m + 1)) = SumOf(v, (1..(m + 1)) \ {m + 1}) + v[m + 1]
      <4>1. 1..(m + 1) \in SUBSET (1..(m + 1))
        OBVIOUS
      <4> QED
        BY <3>1, <4>1, SumOfTop
    <3> QED
      BY <3>1, <3>2
  <2>3. /\ First(m + 1) \in SUBSET (1..top) /\ top \in First(m + 1)
        /\ First(m + 1) \ {top} = First(m)
    <3>1. ASSUME NEW k \in 1..m PROVE e[k] \in 1..top /\ e[k] # top
      <4>1. k \in 1..n /\ k < m + 1
        BY <2>0
      <4>2. e[k] < top /\ e[k] \in 1..N
        BY <1>0, <2>1, <4>1
      <4> QED
        BY <2>1, <4>2
    <3>2. 1..(m + 1) = (1..m) \union {m + 1} /\ top \in 1..top
      BY <2>1
    <3>3. First(m + 1) = First(m) \union {top}
      BY <3>2
    <3> QED
      BY <3>1, <3>2, <3>3
  <2>4. SumOf(w, First(m + 1)) = SumOf(w, First(m)) + w[top]
    <3> HIDE DEF First, top
    <3> QED
      BY <2>1, <2>3, SumOfTop
  <2>5. v[m + 1] = w[top] /\ SumOf(v, 1..m) = SumOf(w, First(m))
    BY <1>2, <2>1
  <2> HIDE DEF First, top
  <2> QED
    BY <2>2, <2>4, <2>5
<1>3. n \in S
  <2> HIDE DEF S
  <2> QED
    BY <1>1, <1>2, Induction
<1>4. First(n) = I
  BY DEF Enumerates
<1> HIDE DEF First
<1> QED
  BY <1>3, <1>4
-----------------------------------------------------------------------------
(* What is kept of a sequence. *)

\* What f yields for the first n messages.
KeptOf(s, I, f, n) ==
  IF n = 0 THEN <<>> ELSE IF n \in I THEN Append(f[n - 1], s[n]) ELSE f[n - 1]
IsKept(f, s, I) == f = [n \in 0..Len(s) |-> KeptOf(s, I, f, n)]

\* The recursive function of Keep exists.
LEMMA KeptExists ==
  ASSUME NEW s, NEW I, Len(s) \in Nat
  PROVE  \E f : IsKept(f, s, I)
<1> DEFINE S == {n \in Nat : \E f : f = [m \in 0..n |-> KeptOf(s, I, f, m)]}
<1>1. 0 \in S
  <2> DEFINE f == [m \in 0..0 |-> <<>>]
  <2>1. \A m \in 0..0 : m = 0
    OBVIOUS
  <2>2. \A m \in 0..0 : f[m] = KeptOf(s, I, f, m)
    BY <2>1 DEF KeptOf
  <2>3. f = [m \in 0..0 |-> KeptOf(s, I, f, m)]
    BY <2>2
  <2> QED
    BY <2>3
<1>2. ASSUME NEW n \in Nat, n \in S
      PROVE  n + 1 \in S
  <2>1. PICK g : g = [m \in 0..n |-> KeptOf(s, I, g, m)]
    BY <1>2
  <2> DEFINE f == [m \in 0..(n + 1) |-> IF m = n + 1 THEN KeptOf(s, I, g, m) ELSE g[m]]
  <2>2. ASSUME NEW m \in 0..(n + 1)
        PROVE  f[m] = KeptOf(s, I, f, m)
    <3>1. m # 0 => m - 1 \in 0..n /\ m - 1 # n + 1 /\ m - 1 \in 0..(n + 1)
      OBVIOUS
    <3>2. m # 0 => f[m - 1] = g[m - 1]
      BY <3>1
    <3>3. KeptOf(s, I, f, m) = KeptOf(s, I, g, m)
      <4> HIDE DEF f
      <4> QED
        BY <3>2 DEF KeptOf
    <3>4. m # n + 1 => m \in 0..n
      OBVIOUS
    <3>5. f[m] = KeptOf(s, I, g, m)
      <4>1. CASE m = n + 1
        BY <4>1
      <4>2. CASE m # n + 1
        <5>1. f[m] = g[m] /\ m \in 0..n
          BY <3>4, <4>2
        <5> HIDE DEF f
        <5> QED
          BY <2>1, <5>1
      <4> QED
        BY <4>1, <4>2
    <3> QED
      BY <3>3, <3>5
  <2>3. f = [m \in 0..(n + 1) |-> f[m]]
    OBVIOUS
  <2>4. f = [m \in 0..(n + 1) |-> KeptOf(s, I, f, m)]
    <3> HIDE DEF f
    <3> QED
      BY <2>2, <2>3
  <2>5. \E h : h = [m \in 0..(n + 1) |-> KeptOf(s, I, h, m)]
    <3> HIDE DEF f
    <3> QED
      BY <2>4
  <2> QED
    BY <2>5
<1>3. Len(s) \in S
  <2> HIDE DEF S
  <2> QED
    BY <1>1, <1>2, Induction
<1> QED
  BY <1>3 DEF IsKept

\* K has the messages of s at the positions in I, in their order: e says where they were.
Thins(e, K, s, I) == Enumerates(e, Len(K), I) /\ \A k \in 1..Len(K) : K[k] = s[e[k]]

\* Keep is the messages of I in their order: it numbers I upwards.
LEMMA KeepThins ==
  ASSUME NEW M, NEW s \in Seq(M), NEW I \in SUBSET (1..Len(s))
  PROVE  Keep(s, I) \in Seq(M) /\ \E e : Thins(e, Keep(s, I), s, I)
<1> DEFINE f == CHOOSE g : IsKept(g, s, I)
<1>0. Len(s) \in Nat /\ \A i \in 1..Len(s) : s[i] \in M
  OBVIOUS
<1>1. IsKept(f, s, I) /\ Keep(s, I) = f[Len(s)]
  <2>1. IsKept(f, s, I)
    BY <1>0, KeptExists
  <2>2. Keep(s, I) = f[Len(s)]
    BY DEF Keep, IsKept, KeptOf
  <2> QED
    BY <2>1, <2>2
<1> HIDE DEF f
<1> DEFINE Part(n) == I \intersect (1..n)
           P(n) == f[n] \in Seq(M) /\ \E e : Thins(e, f[n], s, Part(n))
           S == {n \in Nat : n <= Len(s) => P(n)}
<1>2. 0 \in S
  <2>1. f[0] = <<>> /\ Part(0) = {}
    BY <1>0, <1>1 DEF IsKept, KeptOf
  <2> DEFINE e == [k \in 1..0 |-> 0]
  <2>2. Len(<<>>) = 0 /\ <<>> \in Seq(M) /\ 1..0 = {}
    OBVIOUS
  <2>3. Thins(e, <<>>, s, {})
    BY <2>2 DEF Thins, Enumerates
  <2>4. P(0)
    BY <2>1, <2>2, <2>3
  <2> HIDE DEF P
  <2> QED
    BY <2>4
<1>3. ASSUME NEW n \in Nat, n \in S
      PROVE  n + 1 \in S
  <2>0. SUFFICES ASSUME n + 1 <= Len(s) PROVE P(n + 1)
    <3> HIDE DEF P
    <3> QED
      OBVIOUS
  <2>1. n <= Len(s) /\ n + 1 \in 1..Len(s) /\ n + 1 \in 0..Len(s) /\ n + 1 # 0 /\ (n + 1) - 1 = n
    BY <1>0, <2>0
  <2>2. P(n)
    BY <1>3, <2>1
  <2>3. PICK e : Thins(e, f[n], s, Part(n))
    BY <2>2
  <2>4. f[n + 1] = IF n + 1 \in I THEN Append(f[n], s[n + 1]) ELSE f[n]
    BY <1>1, <2>1 DEF IsKept, KeptOf
  <2>5. CASE n + 1 \notin I
    <3>1. Part(n + 1) = Part(n)
      <4>1. ASSUME NEW i \in I PROVE (i \in 1..(n + 1)) <=> (i \in 1..n)
        <5>1. i # n + 1 /\ i \in 1..Len(s)
          BY <2>5
        <5> QED
          BY <5>1
      <4> QED
        BY <4>1
    <3>2. f[n + 1] = f[n]
      BY <2>4, <2>5
    <3> HIDE DEF Part
    <3> QED
      BY <2>2, <3>1, <3>2
  <2>6. CASE n + 1 \in I
    <3> DEFINE K == f[n]
               L == Len(K)
               d == [k \in 1..(L + 1) |-> IF k = L + 1 THEN n + 1 ELSE e[k]]
    <3>1. K \in Seq(M) /\ L \in Nat /\ s[n + 1] \in M
      <4>1. K \in Seq(M)
        BY <2>2
      <4> QED
        BY <1>0, <2>1, <4>1
    <3> HIDE DEF K
    <3>2. /\ Append(K, s[n + 1]) \in Seq(M) /\ Len(Append(K, s[n + 1])) = L + 1
          /\ Append(K, s[n + 1])[L + 1] = s[n + 1]
          /\ \A k \in 1..L : Append(K, s[n + 1])[k] = K[k]
      BY <3>1
    <3>3. Part(n + 1) = Part(n) \union {n + 1} /\ \A i \in Part(n) : i \in Nat /\ i < n + 1
      <4>1. 1..(n + 1) = (1..n) \union {n + 1}
        OBVIOUS
      <4>2. \A i \in 1..n : i \in Nat /\ i < n + 1
        OBVIOUS
      <4> QED
        BY <2>6, <4>1, <4>2
    <3>4. /\ e \in [1..L -> Part(n)] /\ \A i \in Part(n) : \E k \in 1..L : e[k] = i
          /\ \A j, k \in 1..L : j < k => e[j] < e[k]
          /\ \A k \in 1..L : K[k] = s[e[k]]
      BY <2>3 DEF Thins, Enumerates, K
    <3>5. 1..(L + 1) = (1..L) \union {L + 1} /\ L + 1 \notin 1..L /\ L + 1 \in 1..(L + 1)
      BY <3>1
    <3>6. d[L + 1] = n + 1 /\ \A k \in 1..L : d[k] = e[k]
      BY <3>5
    <3>7. DOMAIN d = 1..(L + 1) /\ d = [k \in 1..(L + 1) |-> d[k]]
      OBVIOUS
    <3> HIDE DEF d, L, Part
    <3>8. \A k \in 1..L : d[k] \in Part(n) /\ d[k] < n + 1
      BY <3>3, <3>4, <3>6
    <3>9. d \in [1..(L + 1) -> Part(n + 1)]
      BY <3>3, <3>5, <3>6, <3>7, <3>8
    <3>10. \A i \in Part(n + 1) : \E k \in 1..(L + 1) : d[k] = i
      BY <3>3, <3>4, <3>5, <3>6
    <3>11. ASSUME NEW j \in 1..(L + 1), NEW k \in 1..(L + 1), j < k
           PROVE  d[j] < d[k]
      <4>1. j \in 1..L
        BY <3>1, <3>11
      <4>2. CASE k = L + 1
        BY <3>6, <3>8, <4>1, <4>2
      <4>3. CASE k # L + 1
        <5>1. k \in 1..L
          BY <3>5, <4>3
        <5> QED
          BY <3>4, <3>6, <3>11, <4>1, <5>1
      <4> QED
        BY <4>2, <4>3
    <3>12. ASSUME NEW k \in 1..(L + 1)
           PROVE  Append(K, s[n + 1])[k] = s[d[k]]
      BY <3>2, <3>4, <3>5, <3>6
    <3>13. Thins(d, Append(K, s[n + 1]), s, Part(n + 1))
      BY <3>2, <3>9, <3>10, <3>11, <3>12 DEF Thins, Enumerates
    <3>14. f[n + 1] = Append(K, s[n + 1])
      BY <2>4, <2>6 DEF K
    <3> QED
      BY <3>2, <3>13, <3>14
  <2> QED
    BY <2>5, <2>6
<1>4. Len(s) \in S
  <2> HIDE DEF S
  <2> QED
    BY <1>0, <1>2, <1>3, Induction
<1>5. P(Len(s))
  <2> HIDE DEF P
  <2> QED
    BY <1>0, <1>4
<1>6. Part(Len(s)) = I
  OBVIOUS
<1> HIDE DEF Part
<1> QED
  BY <1>1, <1>5, <1>6
-----------------------------------------------------------------------------
(* Calls and what follows them. *)

Messages == [kind : Kind, form : Format, ids : SUBSET (Nat \X Nat), size : Nat]

Run(s, i) == {j \in (i + 1)..Len(s) : \A k \in (i + 1)..j : s[k].kind = "results"}
Answered(s, i) == AnsweredBy(s, i) = s[i].ids /\ \A j \in Run(s, i) : s[j].form = s[i].form
Follows(s, j) == \E i \in 1..(j - 1) : s[i].kind = "call" /\ j \in Run(s, i)

\* The calls at positions in D are followed by their results, and results follow a call.
WellUpTo(s, n) ==
  /\ \A i \in 1..n : s[i].kind = "call" => Answered(s, i)
  /\ \A j \in 1..Len(s) : s[j].kind = "results" => Follows(s, j)
Well(s) == WellUpTo(s, Len(s))

\* What a run consists of.
LEMMA RunsAreLater ==
  ASSUME NEW s, Len(s) \in Nat, NEW i \in Nat, NEW j \in Run(s, i)
  PROVE  /\ j \in Nat /\ i < j /\ j <= Len(s) /\ j \in 1..Len(s) /\ s[j].kind = "results"
         /\ \A k \in Nat : i < k /\ k <= j => s[k].kind = "results"
<1>1. j \in (i + 1)..Len(s) /\ \A k \in (i + 1)..j : s[k].kind = "results"
  BY DEF Run
<1>2. \A k \in Nat : i < k /\ k <= j => k \in (i + 1)..j
  BY <1>1
<1> QED
  BY <1>1, <1>2

\* What is well formed has the property that is shown of prompts.
LEMMA WellIsPaired ==
  ASSUME NEW s \in Seq(Messages), Well(s)
  PROVE  Paired(s)
<1>1. Len(s) \in Nat /\ DOMAIN s = 1..Len(s)
  OBVIOUS
<1>2. ASSUME NEW i \in 1..Len(s), s[i].kind = "call"
      PROVE  AnsweredBy(s, i) = s[i].ids
  BY <1>2 DEF Well, WellUpTo, Answered
<1>3. ASSUME NEW j \in 1..Len(s), s[j].kind = "results"
      PROVE  \E i \in 1..(j - 1) : s[i].kind = "call" /\ s[j].ids \subseteq s[i].ids
  <2>1. PICK i \in 1..(j - 1) : s[i].kind = "call" /\ j \in Run(s, i)
    BY <1>3 DEF Well, WellUpTo, Follows
  <2>2. s[j].ids \subseteq AnsweredBy(s, i)
    BY <2>1 DEF AnsweredBy, Run
  <2>3. i \in 1..Len(s)
    BY <1>1
  <2> QED
    BY <1>2, <2>1, <2>2, <2>3
<1> QED
  BY <1>1, <1>2, <1>3 DEF Paired

\* A set of positions that has a call if and only if it has what follows it.
Closed(s, I) ==
  /\ \A i \in I : s[i].kind = "call" => Run(s, i) \subseteq I
  /\ \A j \in I : s[j].kind = "results" =>
       \E i \in I : s[i].kind = "call" /\ j \in Run(s, i)

\* What thinning assumes and leaves alone.
Thinning(e, K, s, I) ==
  Len(s) \in Nat /\ Len(K) \in Nat /\ I \subseteq 1..Len(s) /\ Thins(e, K, s, I)

\* The numbering keeps the order, both ways, and reaches every message that stays.
LEMMA ThinningFacts ==
  ASSUME NEW e, NEW K, NEW s, NEW I, Thinning(e, K, s, I)
  PROVE  /\ \A k \in 1..Len(K) : /\ e[k] \in I /\ e[k] \in 1..Len(s) /\ K[k] = s[e[k]]
                                 /\ k \in Nat /\ e[k] \in Nat
         /\ \A i \in I : \E k \in 1..Len(K) : e[k] = i
         /\ \A j, k \in 1..Len(K) : (e[j] < e[k]) <=> (j < k)
         /\ \A j, k \in 1..Len(K) : (e[j] <= e[k]) <=> (j <= k)
<1>1. Enumerates(e, Len(K), I) /\ \A k \in 1..Len(K) : K[k] = s[e[k]]
  BY DEF Thinning, Thins
<1>2. \A k \in 1..Len(K) : e[k] \in I /\ e[k] \in 1..Len(s)
  BY <1>1 DEF Thinning, Enumerates
<1>3. \A k \in 1..Len(K) : k \in Nat /\ e[k] \in Nat
  BY <1>2 DEF Thinning
<1>4. \A j, k \in 1..Len(K) : j < k => e[j] < e[k]
  BY <1>1 DEF Enumerates
<1>5. ASSUME NEW j \in 1..Len(K), NEW k \in 1..Len(K)
      PROVE  ((e[j] < e[k]) <=> (j < k)) /\ ((e[j] <= e[k]) <=> (j <= k))
  <2>1. CASE j < k
    BY <1>3, <1>4, <2>1
  <2>2. CASE j = k
    BY <1>3, <2>2
  <2>3. CASE k < j
    BY <1>3, <1>4, <2>3
  <2> QED
    BY <1>3, <2>1, <2>2, <2>3
<1> QED
  BY <1>1, <1>2, <1>3, <1>5 DEF Enumerates

\* If what belongs together stays together, the run of a call that stays is renumbered.
LEMMA RunsAreThinned ==
  ASSUME NEW e, NEW K, NEW s, NEW I, Thinning(e, K, s, I), Closed(s, I),
         NEW k \in 1..Len(K), K[k].kind = "call"
  PROVE  /\ \A m \in 1..Len(K) : (m \in Run(K, k)) <=> (e[m] \in Run(s, e[k]))
         /\ \A j \in Run(s, e[k]) : \E m \in Run(K, k) : e[m] = j
<1>1. Len(s) \in Nat /\ Len(K) \in Nat /\ I \subseteq 1..Len(s) /\ Closed(s, I)
  BY DEF Thinning
<1>2. e[k] \in I /\ s[e[k]].kind = "call" /\ k \in Nat /\ e[k] \in Nat
  BY ThinningFacts
<1>3. ASSUME NEW m \in 1..Len(K), e[m] \in Run(s, e[k])
      PROVE  m \in Run(K, k)
  <2>1. /\ e[k] < e[m]
        /\ \A i \in Nat : e[k] < i /\ i <= e[m] => s[i].kind = "results"
    BY <1>1, <1>2, <1>3, RunsAreLater
  <2>2. k < m
    BY <2>1, ThinningFacts
  <2>3. ASSUME NEW l \in (k + 1)..m
        PROVE  K[l].kind = "results"
    <3>1. l \in 1..Len(K) /\ k < l /\ l <= m
      BY <1>1, <1>2
    <3>2. e[k] < e[l] /\ e[l] <= e[m] /\ e[l] \in Nat /\ K[l] = s[e[l]]
      BY <3>1, ThinningFacts
    <3> QED
      BY <2>1, <3>2
  <2>4. m \in (k + 1)..Len(K)
    BY <1>1, <1>2, <2>2
  <2> QED
    BY <2>3, <2>4 DEF Run
<1>4. ASSUME NEW m \in 1..Len(K), m \in Run(K, k)
      PROVE  e[m] \in Run(s, e[k])
  <2>1. /\ k < m /\ K[m].kind = "results"
        /\ \A l \in Nat : k < l /\ l <= m => K[l].kind = "results"
    BY <1>1, <1>2, <1>4, RunsAreLater
  <2>2. e[m] \in I /\ s[e[m]].kind = "results" /\ e[k] < e[m]
    BY <2>1, ThinningFacts
  <2>3. PICK i \in I : s[i].kind = "call" /\ e[m] \in Run(s, i)
    BY <1>1, <2>2 DEF Closed
  <2>4. PICK l \in 1..Len(K) : e[l] = i
    BY ThinningFacts
  <2>5. i \in Nat /\ l \in Nat /\ K[l].kind = "call"
    BY <2>3, <2>4, ThinningFacts
  <2>6. /\ i < e[m]
        /\ \A j \in Nat : i < j /\ j <= e[m] => s[j].kind = "results"
    BY <1>1, <2>3, <2>5, RunsAreLater
  <2>7. l < m
    BY <2>4, <2>6, ThinningFacts
  <2>8. ~(k < l)
    BY <2>1, <2>5, <2>7
  <2>9. ~(l < k)
    <3>1. ASSUME l < k PROVE FALSE
      <4>1. i < e[k]
        BY <2>4, <3>1, ThinningFacts
      <4>2. e[k] <= e[m]
        <5>1. e[m] \in Nat
          BY ThinningFacts
        <5> QED
          BY <1>2, <2>2, <5>1
      <4> QED
        BY <1>2, <2>6, <4>1, <4>2
    <3> QED
      BY <3>1
  <2>10. l = k
    BY <1>2, <2>5, <2>8, <2>9
  <2> QED
    BY <2>3, <2>4, <2>10
<1>5. ASSUME NEW j \in Run(s, e[k])
      PROVE  \E m \in Run(K, k) : e[m] = j
  <2>1. j \in I
    BY <1>1, <1>2 DEF Closed
  <2>2. PICK m \in 1..Len(K) : e[m] = j
    BY <2>1, ThinningFacts
  <2> QED
    BY <1>3, <2>2
<1> QED
  BY <1>3, <1>4, <1>5

\* What is kept of a conversation keeps its pairs together.
LEMMA ThinnedIsWell ==
  ASSUME NEW e, NEW K, NEW s, NEW I, Thinning(e, K, s, I), Closed(s, I), Well(s)
  PROVE  Well(K)
<1>1. Len(s) \in Nat /\ Len(K) \in Nat /\ I \subseteq 1..Len(s) /\ Closed(s, I)
  BY DEF Thinning
<1>2. ASSUME NEW k \in 1..Len(K), K[k].kind = "call"
      PROVE  Answered(K, k)
  <2>1. K[k] = s[e[k]] /\ e[k] \in 1..Len(s) /\ k \in Nat /\ e[k] \in Nat
    BY ThinningFacts
  <2>2. AnsweredBy(s, e[k]) = s[e[k]].ids /\ \A j \in Run(s, e[k]) : s[j].form = s[e[k]].form
    BY <1>2, <2>1 DEF Well, WellUpTo, Answered
  <2>3. \A m \in Run(K, k) : m \in 1..Len(K) /\ e[m] \in Run(s, e[k]) /\ K[m] = s[e[m]]
    <3>1. ASSUME NEW m \in Run(K, k) PROVE m \in 1..Len(K)
      BY <1>1, <2>1, RunsAreLater
    <3> QED
      BY <1>2, <3>1, RunsAreThinned, ThinningFacts
  <2>4. \A j \in Run(s, e[k]) : \E m \in Run(K, k) : e[m] = j
    BY <1>2, RunsAreThinned
  <2>5. AnsweredBy(K, k) = UNION {K[m].ids : m \in Run(K, k)}
        /\ AnsweredBy(s, e[k]) = UNION {s[j].ids : j \in Run(s, e[k])}
    BY DEF AnsweredBy, Run
  <2>6. AnsweredBy(K, k) = AnsweredBy(s, e[k])
    BY <2>3, <2>4, <2>5
  <2> QED
    BY <2>1, <2>2, <2>3, <2>6 DEF Answered
<1>3. ASSUME NEW m \in 1..Len(K), K[m].kind = "results"
      PROVE  Follows(K, m)
  <2>1. e[m] \in I /\ s[e[m]].kind = "results"
    BY <1>3, ThinningFacts
  <2>2. PICK i \in I : s[i].kind = "call" /\ e[m] \in Run(s, i)
    BY <1>1, <2>1 DEF Closed
  <2>3. PICK k \in 1..Len(K) : e[k] = i
    BY ThinningFacts
  <2>4. K[k].kind = "call"
    BY <2>2, <2>3, ThinningFacts
  <2>5. m \in Run(K, k)
    BY <2>2, <2>3, <2>4, RunsAreThinned
  <2>6. k \in Nat /\ k \in 1..(m - 1)
    <3>1. k \in Nat
      BY <1>1
    <3>2. k < m
      BY <1>1, <2>5, <3>1, RunsAreLater
    <3> QED
      BY <3>1, <3>2
  <2> QED
    BY <2>4, <2>5, <2>6 DEF Follows
<1> QED
  BY <1>2, <1>3 DEF Well, WellUpTo
-----------------------------------------------------------------------------
(* Units. *)

\* The results right after a call, as truncation sees them.
CallRun(s, i) == {j \in (i + 1)..Len(s) : \A k \in (i + 1)..j : IsToolResult(s[k])}

IsCallUnit(s, v, i) == IsToolUse(s[i]) /\ v = {i} \union CallRun(s, i) /\ CallRun(s, i) # {}
IsTextUnit(s, v, i) ==
  v = {i} /\ s[i].kind # "system" /\ ~IsToolUse(s[i]) /\ ~IsToolResult(s[i])

\* What a call's unit consists of besides the call.
LEMMA CallRunsAreLater ==
  ASSUME NEW s, Len(s) \in Nat, NEW i \in Nat, NEW j \in CallRun(s, i)
  PROVE  j \in Nat /\ i < j /\ j \in 1..Len(s) /\ IsToolResult(s[j])
<1>1. j \in (i + 1)..Len(s) /\ \A k \in (i + 1)..j : IsToolResult(s[k])
  BY DEF CallRun
<1>2. j \in (i + 1)..j
  BY <1>1
<1> QED
  BY <1>1, <1>2

\* CallUnit in terms of runs: it is a unit if a result follows.
LEMMA UnitOfCall ==
  ASSUME NEW s, Len(s) \in Nat, NEW i \in 1..Len(s)
  PROVE  /\ CallUnit(s, i) = {i} \union CallRun(s, i) /\ CallUnit(s, i) \subseteq 1..Len(s)
         /\ (Cardinality(CallUnit(s, i)) > 1) <=> (CallRun(s, i) # {})
<1>1. i \in Nat
  OBVIOUS
<1>3. CallUnit(s, i) = {i} \union CallRun(s, i)
  BY DEF CallUnit, CallRun
<1>4. \A j \in CallRun(s, i) : j \in 1..Len(s) /\ j # i
  <2>1. ASSUME NEW j \in CallRun(s, i) PROVE j \in 1..Len(s) /\ j # i
    <3>1. j \in Nat /\ i < j /\ j \in 1..Len(s)
      BY <1>1, CallRunsAreLater
    <3> QED
      BY <1>1, <3>1
  <2> QED
    BY <2>1
<1> DEFINE C == CallUnit(s, i)
<1>5. C \subseteq 1..Len(s) /\ IsFiniteSet(C) /\ Cardinality(C) \in Nat /\ C # {}
  <2>1. C \in SUBSET (1..Len(s)) /\ C # {}
    BY <1>3, <1>4
  <2>2. IsFiniteSet(1..Len(s))
    BY <1>1, FS_Interval
  <2>3. IsFiniteSet(C)
    BY <2>1, <2>2, FS_Subset
  <2> QED
    BY <2>1, <2>3, FS_CardinalityType
<1>6. Cardinality(C) # 0 /\ ((Cardinality(C) = 1) <=> (\E x : C = {x}))
  <2> HIDE DEF C
  <2> QED
    BY <1>5, FS_EmptySet, FS_Singleton
<1>7. (\E x : C = {x}) <=> (CallRun(s, i) = {})
  BY <1>3, <1>4
<1>8. (Cardinality(C) > 1) <=> (CallRun(s, i) # {})
  <2> DEFINE n == Cardinality(C)
  <2>1. n \in Nat /\ n # 0
    BY <1>5, <1>6
  <2>2. CASE CallRun(s, i) = {}
    <3>1. n = 1
      BY <1>6, <1>7, <2>2
    <3> HIDE DEF n
    <3>2. ~(n > 1)
      BY <3>1
    <3> QED
      BY <2>2, <3>2 DEF n
  <2>3. CASE CallRun(s, i) # {}
    <3>1. n # 1
      BY <1>6, <1>7, <2>3
    <3> HIDE DEF n
    <3>2. n > 1
      BY <2>1, <3>1
    <3> QED
      BY <2>3, <3>2 DEF n
  <2> QED
    BY <2>2, <2>3
<1> QED
  BY <1>3, <1>4, <1>5, <1>8

\* Each unit is a call with its run or a single text, and these are the units.
LEMMA UnitsAre ==
  ASSUME NEW s, Len(s) \in Nat, DOMAIN s = 1..Len(s)
  PROVE  /\ \A v \in Units(s) : \E i \in 1..Len(s) : IsCallUnit(s, v, i) \/ IsTextUnit(s, v, i)
         /\ \A i \in 1..Len(s) : IsToolUse(s[i]) /\ CallRun(s, i) # {}
              => {i} \union CallRun(s, i) \in Units(s)
         /\ \A i \in 1..Len(s) : IsTextUnit(s, {i}, i) => {i} \in Units(s)
<1>2. ASSUME NEW v \in Units(s)
      PROVE  \E i \in 1..Len(s) : IsCallUnit(s, v, i) \/ IsTextUnit(s, v, i)
  <2>1. PICK i \in 1..Len(s) :
          \/ v = CallUnit(s, i) /\ IsToolUse(s[i]) /\ Cardinality(CallUnit(s, i)) > 1
          \/ v = {i} /\ s[i].kind # "system" /\ ~IsToolUse(s[i]) /\ ~IsToolResult(s[i])
    BY DEF Units
  <2> QED
    BY <2>1, UnitOfCall DEF IsCallUnit, IsTextUnit
<1>3. ASSUME NEW i \in 1..Len(s), IsToolUse(s[i]), CallRun(s, i) # {}
      PROVE  {i} \union CallRun(s, i) \in Units(s)
  <2>1. CallUnit(s, i) = {i} \union CallRun(s, i) /\ Cardinality(CallUnit(s, i)) > 1
    BY <1>3, UnitOfCall
  <2>2. CallUnit(s, i) \in Units(s)
    BY <1>3, <2>1 DEF Units
  <2> QED
    BY <2>1, <2>2
<1>4. ASSUME NEW i \in 1..Len(s), IsTextUnit(s, {i}, i)
      PROVE  {i} \in Units(s)
  BY <1>4 DEF Units, IsTextUnit
<1> QED
  BY <1>2, <1>3, <1>4

\* Where a unit begins.
LEMMA UnitsBegin ==
  ASSUME NEW s, Len(s) \in Nat, DOMAIN s = 1..Len(s), NEW v \in Units(s)
  PROVE  /\ v # {} /\ v \subseteq 1..Len(s) /\ Min(v) \in v /\ Min(v) \in 1..Len(s)
         /\ IsCallUnit(s, v, Min(v)) \/ IsTextUnit(s, v, Min(v))
<1>2. PICK i \in 1..Len(s) : IsCallUnit(s, v, i) \/ IsTextUnit(s, v, i)
  BY UnitsAre
<1>3. v # {} /\ v \subseteq 1..Len(s) /\ i \in v /\ \A j \in v : i <= j
  <2>1. CASE IsCallUnit(s, v, i)
    <3>1. v = {i} \union CallRun(s, i)
      BY <2>1 DEF IsCallUnit
    <3>2. \A j \in CallRun(s, i) : j \in 1..Len(s) /\ i <= j
      <4>1. ASSUME NEW j \in CallRun(s, i) PROVE j \in 1..Len(s) /\ i <= j
        <5>1. i \in Nat /\ j \in Nat /\ i < j /\ j \in 1..Len(s)
          BY CallRunsAreLater
        <5> QED
          BY <5>1
      <4> QED
        BY <4>1
    <3> QED
      BY <3>1, <3>2
  <2>2. CASE IsTextUnit(s, v, i)
    BY <2>2 DEF IsTextUnit
  <2> QED
    BY <1>2, <2>1, <2>2
<1>4. v \in SUBSET Nat
  BY <1>3
<1>5. Min(v) \in v /\ \A j \in v : Min(v) <= j
  BY <1>3, <1>4, Smallest
<1>6. Min(v) = i
  <2>1. i \in Nat /\ Min(v) \in Nat /\ i <= Min(v) /\ Min(v) <= i
    BY <1>3, <1>4, <1>5
  <2> QED
    BY <2>1
<1> QED
  BY <1>2, <1>3, <1>5, <1>6

\* Units do not have system messages.
LEMMA UnitsAreApart ==
  ASSUME NEW s, Len(s) \in Nat, DOMAIN s = 1..Len(s), NEW R \in SUBSET Units(s)
  PROVE  /\ SystemPart(s) \union UNION R \in SUBSET (1..Len(s))
         /\ SystemPart(s) \in SUBSET (1..Len(s)) /\ UNION R \in SUBSET (1..Len(s))
         /\ SystemPart(s) \intersect UNION R = {}
<1>1. SystemPart(s) = {i \in 1..Len(s) : s[i].kind = "system"}
  BY DEF SystemPart
<1>2. ASSUME NEW v \in R, NEW j \in v
      PROVE  j \in 1..Len(s) /\ s[j].kind # "system"
  <2>1. PICK i \in 1..Len(s) : IsCallUnit(s, v, i) \/ IsTextUnit(s, v, i)
    BY UnitsAre
  <2>2. CASE IsTextUnit(s, v, i)
    BY <2>2 DEF IsTextUnit
  <2>3. CASE IsCallUnit(s, v, i)
    <3>1. IsToolUse(s[i]) /\ (j = i \/ j \in CallRun(s, i))
      BY <2>3 DEF IsCallUnit
    <3>2. CASE j = i
      BY <3>1, <3>2 DEF IsToolUse
    <3>3. CASE j \in CallRun(s, i)
      <4>1. j \in 1..Len(s) /\ IsToolResult(s[j])
        BY <3>3, CallRunsAreLater
      <4> QED
        BY <4>1 DEF IsToolResult
    <3> QED
      BY <3>1, <3>2, <3>3
  <2> QED
    BY <2>1, <2>2, <2>3
<1> QED
  BY <1>1, <1>2

\* What truncation keeps beside the system prompt: all units from some unit on, if that
\* fits, else the last unit.
Recent(s, R, N, available) ==
  /\ N \in R /\ \A v \in Units(s) : Min(v) <= Min(N)
  /\ R = {N} \/ Tokens(s, UNION R) <= available

\* RecentUnits is a set of units with the newest among them, which fits or is the newest alone.
LEMMA RecentUnitsAre ==
  ASSUME NEW s, Len(s) \in Nat, DOMAIN s = 1..Len(s), Units(s) # {}, NEW available
  PROVE  \E R \in SUBSET Units(s) : \E N \in R :
           RecentUnits(s, available) = UNION R /\ Recent(s, R, N, available)
<1> DEFINE Sets(u) == {v \in Units(s) : Min(v) >= Min(u)}
           Fitting == {u \in Units(s) : Tokens(s, UNION Sets(u)) <= available}
           Newest  == CHOOSE u \in Units(s) : \A v \in Units(s) : Min(v) <= Min(u)
           Oldest  == CHOOSE u \in Fitting : \A v \in Fitting : Min(u) <= Min(v)
<1>1. RecentUnits(s, available) = IF Fitting = {} THEN Newest ELSE UNION Sets(Oldest)
  BY DEF RecentUnits
<1>2. \A v \in Units(s) : Min(v) \in 1..Len(s)
  BY UnitsBegin
<1>3. Newest \in Units(s) /\ \A v \in Units(s) : Min(v) <= Min(Newest)
  <2> DEFINE T == {Min(v) : v \in Units(s)}
  <2>1. T \in SUBSET (0..Len(s)) /\ T # {}
    BY <1>2
  <2>2. Max(T) \in T /\ \A m \in T : m <= Max(T)
    <3> HIDE DEF T
    <3> QED
      BY <2>1, Largest
  <2>3. PICK u \in Units(s) : Max(T) = Min(u)
    BY <2>2
  <2>4. \A v \in Units(s) : Min(v) <= Min(u)
    BY <2>2, <2>3
  <2> QED
    BY <2>4
<1>4. CASE Fitting = {}
  <2>1. RecentUnits(s, available) = Newest
    BY <1>1, <1>4
  <2>2. Recent(s, {Newest}, Newest, available) /\ {Newest} \in SUBSET Units(s)
        /\ UNION {Newest} = Newest
    <3> HIDE DEF Newest
    <3> QED
      BY <1>3 DEF Recent
  <2> HIDE DEF Newest
  <2> QED
    BY <2>1, <2>2
<1>5. CASE Fitting # {}
  <2> DEFINE T == {Min(v) : v \in Fitting}
  <2>0. \A v \in Fitting : Min(v) \in Nat
    <3>1. \A v \in Units(s) : Min(v) \in Nat
      BY <1>2
    <3> QED
      BY <3>1
  <2>1. T \in SUBSET Nat /\ T # {}
    <3> HIDE DEF Fitting
    <3> QED
      BY <1>5, <2>0
  <2>2. PICK m \in T : \A n \in T : m <= n
    <3> HIDE DEF T
    <3> QED
      BY <2>1, LeastNumber
  <2>3. PICK u \in Fitting : m = Min(u)
    BY <2>2
  <2>4. \A v \in Fitting : Min(u) <= Min(v)
    <3> HIDE DEF Fitting
    <3> QED
      BY <2>2, <2>3
  <2>5. Oldest \in Fitting
    <3> HIDE DEF Fitting
    <3> QED
      BY <2>4
  <2> DEFINE R == Sets(Oldest)
  <2>6. R \in SUBSET Units(s) /\ Tokens(s, UNION R) <= available /\ Oldest \in Units(s)
    <3> HIDE DEF Oldest
    <3> QED
      BY <2>5
  <2>7. Newest \in R
    <3>1. Min(Oldest) <= Min(Newest) /\ Min(Oldest) \in 1..Len(s) /\ Min(Newest) \in 1..Len(s)
      <4> HIDE DEF Oldest, Newest
      <4> QED
        BY <1>2, <1>3, <2>6
    <3>2. Min(Newest) >= Min(Oldest)
      <4> HIDE DEF Oldest, Newest
      <4> QED
        BY <3>1
    <3> HIDE DEF Oldest, Newest
    <3> QED
      BY <1>3, <3>2
  <2>8. RecentUnits(s, available) = UNION R
    BY <1>1, <1>5
  <2> HIDE DEF R, Newest
  <2>9. Recent(s, R, Newest, available)
    BY <1>3, <2>6, <2>7 DEF Recent
  <2> QED
    BY <2>6, <2>7, <2>8, <2>9
<1> QED
  BY <1>4, <1>5

\* What truncate_messages_to_fit returns: everything, or the system prompt and recent units.
LEMMA TruncatedIs ==
  ASSUME NEW s, Len(s) \in Nat, DOMAIN s = 1..Len(s), NEW max, max # NoLimit
  PROVE  \/ /\ Truncated(s, max) = s
            /\ Tokens(s, DOMAIN s) <= max \/ Available(s, max) <= 0
         \/ /\ ~(Available(s, max) <= 0)
            /\ \E R \in SUBSET Units(s) :
                 /\ Truncated(s, max) = Keep(s, SystemPart(s) \union UNION R)
                 /\ \/ R = {} /\ Units(s) = {}
                    \/ \E N \in R : Recent(s, R, N, Available(s, max))
<1>1. CASE Tokens(s, DOMAIN s) <= max \/ Available(s, max) <= 0
  BY <1>1 DEF Truncated
<1>2. CASE ~(Tokens(s, DOMAIN s) <= max \/ Available(s, max) <= 0) /\ Units(s) = {}
  <2>1. Truncated(s, max) = Keep(s, SystemPart(s))
    BY <1>2 DEF Truncated
  <2>2. SystemPart(s) = SystemPart(s) \union UNION {} /\ {} \in SUBSET Units(s)
    OBVIOUS
  <2> QED
    BY <1>2, <2>1, <2>2
<1>3. CASE ~(Tokens(s, DOMAIN s) <= max \/ Available(s, max) <= 0) /\ Units(s) # {}
  <2>1. Truncated(s, max) = Keep(s, SystemPart(s) \union RecentUnits(s, Available(s, max)))
    BY <1>3 DEF Truncated
  <2>2. PICK R \in SUBSET Units(s) : \E N \in R :
           RecentUnits(s, Available(s, max)) = UNION R /\ Recent(s, R, N, Available(s, max))
    BY <1>3, RecentUnitsAre
  <2> QED
    BY <1>3, <2>1, <2>2
<1> QED
  BY <1>1, <1>2, <1>3
-----------------------------------------------------------------------------
(* Truncation fits the limit. *)

\* Messages have their parts, and what they count for.
LEMMA MessageFacts ==
  ASSUME NEW s \in Seq(Messages)
  PROVE  /\ Len(s) \in Nat /\ DOMAIN s = 1..Len(s)
         /\ \A i \in 1..Len(s) : /\ s[i] \in Messages /\ s[i].kind \in Kind /\ s[i].size \in Nat
                                 /\ Counted(s[i]) \in Nat
<1>1. Len(s) \in Nat /\ DOMAIN s = 1..Len(s) /\ \A i \in 1..Len(s) : s[i] \in Messages
  OBVIOUS
<1>2. \A m \in Messages : m.kind \in Kind /\ m.size \in Nat
  BY DEF Messages
<1>3. \A m \in Messages : Counted(m) \in Nat
  BY <1>2 DEF Counted
<1> QED
  BY <1>1, <1>2, <1>3

\* A sum of tokens, over the sizes as a function.
SizesOf(s) == [i \in DOMAIN s |-> Counted(s[i])]

\* The tokens of some messages are a sum.
LEMMA TokensAre ==
  ASSUME NEW s \in Seq(Messages)
  PROVE  /\ \A I : Tokens(s, I) = SumOf(SizesOf(s), I)
         /\ \A i \in 1..Len(s) : SizesOf(s)[i] = Counted(s[i]) /\ SizesOf(s)[i] \in Nat
         /\ \A I \in SUBSET (1..Len(s)) : Tokens(s, I) \in Nat
<1>1. \A I : Tokens(s, I) = SumOf(SizesOf(s), I)
  BY DEF Tokens, SizesOf
<1>2. \A i \in 1..Len(s) : SizesOf(s)[i] = Counted(s[i]) /\ SizesOf(s)[i] \in Nat
  BY MessageFacts DEF SizesOf
<1>3. \A I \in SUBSET (1..Len(s)) : SumOf(SizesOf(s), I) \in Nat
  <2>1. Len(s) \in Nat
    OBVIOUS
  <2> QED
    BY <1>2, <2>1, SumIsNumber
<1> QED
  BY <1>1, <1>2, <1>3

\* What is kept counts the same as in the longer conversation.
LEMMA TokensAreThinned ==
  ASSUME NEW s \in Seq(Messages), NEW K \in Seq(Messages), NEW e, NEW I, Thinning(e, K, s, I)
  PROVE  Tokens(K, DOMAIN K) = Tokens(s, I)
<1>1. /\ Len(s) \in Nat /\ Len(K) \in Nat /\ I \in SUBSET (1..Len(s)) /\ Enumerates(e, Len(K), I)
      /\ DOMAIN K = 1..Len(K)
  BY DEF Thinning, Thins
<1>2. \A k \in 1..Len(K) : SizesOf(K)[k] = SizesOf(s)[e[k]]
  <2>1. ASSUME NEW k \in 1..Len(K) PROVE SizesOf(K)[k] = SizesOf(s)[e[k]]
    <3>1. K[k] = s[e[k]] /\ e[k] \in 1..Len(s)
      BY ThinningFacts
    <3>2. SizesOf(K)[k] = Counted(K[k]) /\ SizesOf(s)[e[k]] = Counted(s[e[k]])
      BY <3>1, TokensAre
    <3> QED
      BY <3>1, <3>2
  <2> QED
    BY <2>1
<1>3. SumOf(SizesOf(K), 1..Len(K)) = SumOf(SizesOf(s), I)
  <2>1. Renumbers(SizesOf(K), Len(K), SizesOf(s), I, Len(s), e)
    BY <1>1, <1>2 DEF Renumbers
  <2> QED
    BY <2>1, SumRenumbered
<1> QED
  BY <1>1, <1>3, TokensAre

\* The conversation of an agent begins with its system prompt, the only one.
PromptFirst(s, c) ==
  /\ 1 \in 1..Len(s) /\ s[1] = SystemPrompt(c)
  /\ \A i \in 1..Len(s) : i # 1 => s[i].kind # "system"

\* The system part is the system prompt.
LEMMA PromptIsSystem ==
  ASSUME NEW s \in Seq(Messages), NEW c, PromptFirst(s, c)
  PROVE  SystemPart(s) = {1} /\ Tokens(s, SystemPart(s)) = c.system
<1>1. s[1].kind = "system" /\ s[1].size = c.system
  BY DEF PromptFirst, SystemPrompt, Text, Message
<1>2. SystemPart(s) = {1}
  BY <1>1, MessageFacts DEF SystemPart, PromptFirst
<1>3. SizesOf(s)[1] = c.system
  BY <1>1, TokensAre DEF PromptFirst, Counted
<1>4. SumOf(SizesOf(s), {1}) = SumOf(SizesOf(s), {1} \ {1}) + SizesOf(s)[1]
  <2>1. {1} \in SUBSET (1..1) /\ 1 \in Nat /\ 1 \in {1}
    OBVIOUS
  <2> QED
    BY <2>1, SumOfTop
<1>5. {1} \ {1} = {} /\ SizesOf(s)[1] \in Nat
  BY TokensAre DEF PromptFirst
<1>6. SumOf(SizesOf(s), {}) = 0
  BY SumOfNone
<1>7. SumOf(SizesOf(s), {1}) = 0 + SizesOf(s)[1]
  BY <1>4, <1>5, <1>6
<1>8. SumOf(SizesOf(s), {1}) = c.system
  BY <1>3, <1>5, <1>7
<1> QED
  BY <1>2, <1>8, TokensAre

\* The system prompt stays, in its place.
LEMMA PromptStays ==
  ASSUME NEW e, NEW K, NEW s \in Seq(Messages), NEW I, Thinning(e, K, s, I), NEW c,
         PromptFirst(s, c), SystemPart(s) \subseteq I
  PROVE  PromptFirst(K, c) /\ e[1] = 1 /\ 1 \in 1..Len(K) /\ \A k \in 1..Len(K) : k # 1 => e[k] # 1
<1>1. 1 \in I
  BY PromptIsSystem
<1>2. Len(s) \in Nat /\ Len(K) \in Nat
  BY DEF Thinning
<1>3. PICK k \in 1..Len(K) : e[k] = 1
  BY <1>1, ThinningFacts
<1>4. 1 \in 1..Len(K)
  BY <1>2, <1>3
<1>5. ~(1 < k)
  <2>1. ASSUME 1 < k PROVE FALSE
    <3>1. e[1] < e[k] /\ e[1] \in 1..Len(s)
      BY <1>4, <2>1, ThinningFacts
    <3> QED
      BY <1>2, <1>3, <3>1
  <2> QED
    BY <2>1
<1>6. k = 1
  BY <1>2, <1>3, <1>5
<1>7. ASSUME NEW l \in 1..Len(K), l # 1
      PROVE  e[l] # 1 /\ e[l] \in 1..Len(s) /\ K[l] = s[e[l]]
  <2>1. 1 < l
    BY <1>2, <1>7
  <2>2. e[1] < e[l]
    BY <1>4, <2>1, ThinningFacts
  <2> QED
    BY <1>3, <1>6, <2>2, ThinningFacts
<1>8. K[1] = s[1]
  BY <1>3, <1>6, ThinningFacts
<1> QED
  BY <1>3, <1>4, <1>6, <1>7, <1>8 DEF PromptFirst

\* If only the last unit is kept beside the system prompt, it is a unit there as well.
LEMMA OneUnitIsOne ==
  ASSUME NEW e, NEW K \in Seq(Messages), NEW s \in Seq(Messages), NEW N \in Units(s), NEW I,
         I = SystemPart(s) \union N, Thinning(e, K, s, I), NEW c, PromptFirst(s, c)
  PROVE  Cardinality(Units(K)) = 1
<1>1. Len(s) \in Nat /\ DOMAIN s = 1..Len(s) /\ Len(K) \in Nat /\ DOMAIN K = 1..Len(K)
  OBVIOUS
<1>2. SystemPart(s) = {1} /\ s[1].kind = "system" /\ 1 \in 1..Len(s)
  BY PromptIsSystem DEF PromptFirst, SystemPrompt, Text, Message
<1>3. PICK i \in 1..Len(s) : IsCallUnit(s, N, i) \/ IsTextUnit(s, N, i)
  BY <1>1, UnitsAre
<1>4. i \in N
  BY <1>3 DEF IsCallUnit, IsTextUnit
<1>0. \A j \in I : \E m \in 1..Len(K) : e[m] = j
  BY DEF Thinning, Thins, Enumerates
<1>5. PICK p \in 1..Len(K) : e[p] = i
  BY <1>0, <1>4
<1>6. i # 1 /\ K[p] = s[i] /\ p \in Nat /\ i \in Nat
  <2>1. IsToolUse(s[i]) \/ s[i].kind # "system"
    BY <1>3 DEF IsCallUnit, IsTextUnit
  <2>2. i # 1
    BY <1>2, <2>1 DEF IsToolUse
  <2> QED
    BY <1>1, <1>5, <2>2, ThinningFacts
<1>7. ASSUME NEW k \in 1..Len(K)
      PROVE  /\ K[k] = s[e[k]] /\ (e[k] = 1 \/ e[k] \in N) /\ (e[k] = i => k = p)
  <2>1. K[k] = s[e[k]] /\ e[k] \in SystemPart(s) \union N
    BY ThinningFacts
  <2>2. e[k] = i => k = p
    <3>1. k \in Nat /\ e[k] \in Nat /\ ((e[k] <= e[p]) <=> (k <= p)) /\ ((e[p] <= e[k]) <=> (p <= k))
      BY <1>1, <1>5, ThinningFacts
    <3> QED
      BY <1>5, <1>6, <3>1
  <2> QED
    BY <1>2, <2>1, <2>2
<1>8. CASE IsCallUnit(s, N, i)
  <2>1. IsToolUse(s[i]) /\ N = {i} \union CallRun(s, i) /\ CallRun(s, i) # {}
    BY <1>8 DEF IsCallUnit
  <2>2. \A j \in CallRun(s, i) : j \in Nat /\ i < j /\ j \in 1..Len(s) /\ IsToolResult(s[j])
    BY <1>1, <1>6, CallRunsAreLater
  <2>3. p + 1 \in CallRun(K, p)
    <3>1. PICK j \in CallRun(s, i) : TRUE
      BY <2>1
    <3>0. j \in SystemPart(s) \union N
      BY <2>1, <3>1
    <3>2. PICK m \in 1..Len(K) : e[m] = j
      BY <1>0, <3>0
    <3>3. p < m /\ m \in Nat
      BY <1>1, <1>5, <2>2, <3>1, <3>2, ThinningFacts
    <3>4. p + 1 \in 1..Len(K) /\ p < p + 1
      BY <1>1, <1>6, <3>2, <3>3
    <3>5. e[p] < e[p + 1] /\ e[p + 1] \in Nat
      BY <1>5, <3>4, ThinningFacts
    <3>6. e[p + 1] # 1 /\ e[p + 1] # i
      BY <1>5, <1>6, <3>5
    <3>7. e[p + 1] \in CallRun(s, i)
      BY <1>7, <2>1, <3>4, <3>6
    <3>8. IsToolResult(K[p + 1])
      BY <1>7, <2>2, <3>4, <3>7
    <3>9. p + 1 \in (p + 1)..Len(K) /\ \A k \in (p + 1)..(p + 1) : k = p + 1
      BY <1>1, <1>6, <3>4
    <3> QED
      BY <3>8, <3>9 DEF CallRun
  <2> DEFINE V == {p} \union CallRun(K, p)
  <2>4. V \in Units(K)
    <3>1. IsToolUse(K[p]) /\ CallRun(K, p) # {}
      BY <1>6, <2>1, <2>3
    <3> QED
      BY <1>1, <3>1, UnitsAre
  <2>5. ASSUME NEW v \in Units(K)
        PROVE  v = V
    <3>1. PICK k \in 1..Len(K) : IsCallUnit(K, v, k) \/ IsTextUnit(K, v, k)
      BY <1>1, UnitsAre
    <3>2. K[k].kind # "system"
      BY <3>1 DEF IsCallUnit, IsTextUnit, IsToolUse
    <3>3. K[k] = s[e[k]] /\ e[k] \in N /\ (e[k] = i => k = p)
      BY <1>2, <1>7, <3>2
    <3>4. CASE IsCallUnit(K, v, k)
      <4>1. IsToolUse(s[e[k]]) /\ v = {k} \union CallRun(K, k)
        BY <3>3, <3>4 DEF IsCallUnit
      <4>2. ~IsToolResult(s[e[k]])
        BY <4>1 DEF IsToolUse, IsToolResult
      <4>3. k = p
        BY <2>1, <2>2, <3>3, <4>2
      <4> QED
        BY <4>1, <4>3
    <3>5. CASE IsTextUnit(K, v, k)
      BY <2>1, <2>2, <3>3, <3>5 DEF IsTextUnit
    <3> QED
      BY <3>1, <3>4, <3>5
  <2> HIDE DEF V
  <2>6. Units(K) = {V}
    BY <2>4, <2>5
  <2> QED
    BY <2>6, FS_Singleton
<1>9. CASE IsTextUnit(s, N, i)
  <2>1. N = {i} /\ s[i].kind # "system" /\ ~IsToolUse(s[i]) /\ ~IsToolResult(s[i])
    BY <1>9 DEF IsTextUnit
  <2>2. {p} \in Units(K)
    <3>1. IsTextUnit(K, {p}, p)
      BY <1>6, <2>1 DEF IsTextUnit
    <3> QED
      BY <1>1, <3>1, UnitsAre
  <2>3. ASSUME NEW v \in Units(K)
        PROVE  v = {p}
    <3>1. PICK k \in 1..Len(K) : IsCallUnit(K, v, k) \/ IsTextUnit(K, v, k)
      BY <1>1, UnitsAre
    <3>2. K[k].kind # "system"
      BY <3>1 DEF IsCallUnit, IsTextUnit, IsToolUse
    <3>3. k = p
      BY <1>2, <1>7, <2>1, <3>2
    <3>4. ~IsToolUse(K[k])
      BY <1>6, <2>1, <3>3
    <3> QED
      BY <3>1, <3>3, <3>4 DEF IsCallUnit, IsTextUnit
  <2>4. Units(K) = {{p}}
    BY <2>2, <2>3
  <2> QED
    BY <2>4, FS_Singleton
<1> QED
  BY <1>3, <1>8, <1>9

\* What truncation returns: the conversation itself, or what it keeps of it.
LEMMA TruncationThins ==
  ASSUME NEW s \in Seq(Messages), NEW max, max # NoLimit
  PROVE  \/ /\ Truncated(s, max) = s
            /\ Tokens(s, DOMAIN s) <= max \/ Available(s, max) <= 0
         \/ /\ ~(Available(s, max) <= 0) /\ Truncated(s, max) \in Seq(Messages)
            /\ \E R \in SUBSET Units(s) : \E e :
                 /\ Thinning(e, Truncated(s, max), s, SystemPart(s) \union UNION R)
                 /\ \/ R = {} /\ Units(s) = {}
                    \/ \E N \in R : Recent(s, R, N, Available(s, max))
<1>1. Len(s) \in Nat /\ DOMAIN s = 1..Len(s)
  OBVIOUS
<1>2. CASE Truncated(s, max) = s /\ (Tokens(s, DOMAIN s) <= max \/ Available(s, max) <= 0)
  BY <1>2
<1>3. ASSUME ~(Available(s, max) <= 0), NEW R \in SUBSET Units(s),
             Truncated(s, max) = Keep(s, SystemPart(s) \union UNION R)
      PROVE  /\ Truncated(s, max) \in Seq(Messages)
             /\ \E e : Thinning(e, Truncated(s, max), s, SystemPart(s) \union UNION R)
  <2> DEFINE I == SystemPart(s) \union UNION R
             K == Truncated(s, max)
  <2>1. I \in SUBSET (1..Len(s))
    BY <1>1, UnitsAreApart
  <2> HIDE DEF I, K
  <2>2. Keep(s, I) \in Seq(Messages) /\ \E e : Thins(e, Keep(s, I), s, I)
    BY <2>1, KeepThins
  <2>3. K = Keep(s, I)
    BY <1>3 DEF K, I
  <2>4. K \in Seq(Messages) /\ Len(K) \in Nat
    BY <2>2, <2>3
  <2>5. PICK e : Thins(e, K, s, I)
    BY <2>2, <2>3
  <2>6. Thinning(e, K, s, I)
    BY <1>1, <2>1, <2>4, <2>5 DEF Thinning
  <2> QED
    BY <2>4, <2>6 DEF K, I
<1>4. CASE /\ ~(Available(s, max) <= 0)
           /\ \E R \in SUBSET Units(s) :
                /\ Truncated(s, max) = Keep(s, SystemPart(s) \union UNION R)
                /\ \/ R = {} /\ Units(s) = {}
                   \/ \E N \in R : Recent(s, R, N, Available(s, max))
  <2>1. PICK R \in SUBSET Units(s) :
           /\ Truncated(s, max) = Keep(s, SystemPart(s) \union UNION R)
           /\ \/ R = {} /\ Units(s) = {}
              \/ \E N \in R : Recent(s, R, N, Available(s, max))
    BY <1>4
  <2>2. /\ Truncated(s, max) \in Seq(Messages)
        /\ \E e : Thinning(e, Truncated(s, max), s, SystemPart(s) \union UNION R)
    BY <1>3, <1>4, <2>1
  <2> QED
    BY <1>4, <2>1, <2>2
<1> QED
  BY <1>1, <1>2, <1>4, TruncatedIs

Fits(s, max, c) ==
  Tokens(s, DOMAIN s) <= max \/ c.system >= max \/ Cardinality(Units(s)) = 1

\* A truncated conversation fits, exceeds the limit by its system prompt, or is one unit.
LEMMA TruncationFits ==
  ASSUME NEW s \in Seq(Messages), NEW max \in Nat, max # NoLimit, NEW c, c.system \in Nat,
         PromptFirst(s, c)
  PROVE  Fits(Truncated(s, max), max, c) /\ PromptFirst(Truncated(s, max), c)
<1> DEFINE K == Truncated(s, max)
<1>1. Len(s) \in Nat /\ DOMAIN s = 1..Len(s)
  OBVIOUS
<1>2. Tokens(s, SystemPart(s)) = c.system /\ Available(s, max) = max - c.system
  BY PromptIsSystem DEF Available
<1>3. CASE K = s /\ (Tokens(s, DOMAIN s) <= max \/ Available(s, max) <= 0)
  <2>1. Available(s, max) <= 0 => c.system >= max
    BY <1>2
  <2> QED
    BY <1>3, <2>1 DEF Fits
<1>4. CASE /\ ~(Available(s, max) <= 0) /\ K \in Seq(Messages)
           /\ \E R \in SUBSET Units(s) : \E e :
                /\ Thinning(e, K, s, SystemPart(s) \union UNION R)
                /\ \/ R = {} /\ Units(s) = {}
                   \/ \E N \in R : Recent(s, R, N, Available(s, max))
  <2> HIDE DEF K
  <2>0. PICK R \in SUBSET Units(s) :
           \E e : /\ Thinning(e, K, s, SystemPart(s) \union UNION R)
                  /\ \/ R = {} /\ Units(s) = {}
                     \/ \E N \in R : Recent(s, R, N, Available(s, max))
    BY <1>4
  <2>1. PICK e :
           /\ Thinning(e, K, s, SystemPart(s) \union UNION R)
           /\ \/ R = {} /\ Units(s) = {}
              \/ \E N \in R : Recent(s, R, N, Available(s, max))
    BY <2>0
  <2> DEFINE I == SystemPart(s) \union UNION R
             total1 == Tokens(s, UNION R)
  <2>2. Thinning(e, K, s, I) /\ SystemPart(s) \subseteq I
    BY <2>1
  <2>3. Tokens(K, DOMAIN K) = Tokens(s, I)
    BY <1>4, <2>2, TokensAreThinned
  <2>4. PromptFirst(K, c)
    BY <2>2, PromptStays
  <2>5. Tokens(s, I) = c.system + total1 /\ total1 \in Nat
    <3>1. /\ SystemPart(s) \in SUBSET (1..Len(s)) /\ UNION R \in SUBSET (1..Len(s))
          /\ SystemPart(s) \intersect UNION R = {}
      BY <1>1, UnitsAreApart
    <3>2. SumOf(SizesOf(s), I) = SumOf(SizesOf(s), SystemPart(s)) + SumOf(SizesOf(s), UNION R)
      <4>1. \A i \in 1..Len(s) : SizesOf(s)[i] \in Nat
        BY TokensAre
      <4>2. \A A, B \in SUBSET (1..Len(s)) : A \intersect B = {} =>
              SumOf(SizesOf(s), A \union B) = SumOf(SizesOf(s), A) + SumOf(SizesOf(s), B)
        BY <1>1, <4>1, SumOfBoth
      <4> QED
        BY <3>1, <4>2
    <3> QED
      BY <1>2, <3>1, <3>2, TokensAre
  <2> HIDE DEF I, total1
  <2>6. CASE R = {} /\ Units(s) = {}
    <3>1. total1 = 0
      <4>1. UNION R = {}
        BY <2>6
      <4> QED
        BY <4>1, SumOfNone, TokensAre DEF total1
    <3>2. Tokens(K, DOMAIN K) <= max
      <4>1. ~(max - c.system <= 0)
        BY <1>2, <1>4
      <4> QED
        BY <2>3, <2>5, <3>1, <4>1
    <3> QED
      BY <2>4, <3>2 DEF Fits, K
  <2>7. ASSUME total1 <= Available(s, max) PROVE Fits(K, max, c)
    <3>1. Tokens(K, DOMAIN K) <= max
      BY <1>2, <2>3, <2>5, <2>7
    <3> QED
      BY <3>1 DEF Fits
  <2>8. ASSUME NEW N \in R, R = {N} PROVE Fits(K, max, c)
    <3>1. I = SystemPart(s) \union N /\ N \in Units(s)
      BY <2>8 DEF I
    <3>2. Cardinality(Units(K)) = 1
      BY <1>4, <2>2, <3>1, OneUnitIsOne
    <3> QED
      BY <3>2 DEF Fits
  <2>9. CASE \E N \in R : Recent(s, R, N, Available(s, max))
    <3>1. PICK N \in R : Recent(s, R, N, Available(s, max))
      BY <2>9
    <3>2. R = {N} \/ total1 <= Available(s, max)
      BY <3>1 DEF Recent, total1
    <3>3. Fits(K, max, c)
      BY <2>7, <2>8, <3>2
    <3> QED
      BY <2>4, <3>3 DEF K
  <2> QED
    BY <2>1, <2>6, <2>9
<1> QED
  BY <1>3, <1>4, TruncationThins
-----------------------------------------------------------------------------
(* Truncation keeps pairs, and the newest of them. *)

NoGoogle(s) == \A i \in 1..Len(s) : s[i].form # "google"

\* Outside of google's format units recognise what they should.
LEMMA RunsOfOthers ==
  ASSUME NEW s \in Seq(Messages), NoGoogle(s)
  PROVE  \A i \in 1..Len(s) : /\ CallRun(s, i) = Run(s, i)
                              /\ IsToolUse(s[i]) <=> (s[i].kind = "call")
                              /\ IsToolResult(s[i]) <=> (s[i].kind = "results")
<1>1. Len(s) \in Nat
  OBVIOUS
<1>2. \A i \in 1..Len(s) : /\ IsToolUse(s[i]) <=> (s[i].kind = "call")
                           /\ IsToolResult(s[i]) <=> (s[i].kind = "results")
  BY DEF NoGoogle, IsToolUse, IsToolResult
<1>3. ASSUME NEW i \in 1..Len(s) PROVE CallRun(s, i) = Run(s, i)
  <2>1. ASSUME NEW j \in (i + 1)..Len(s), NEW k \in (i + 1)..j
        PROVE  IsToolResult(s[k]) <=> (s[k].kind = "results")
    <3>1. k \in 1..Len(s)
      BY <1>1
    <3> QED
      BY <1>2, <3>1
  <2> QED
    BY <2>1 DEF CallRun, Run
<1> QED
  BY <1>2, <1>3

\* The system prompt and some units keep calls and results together.
LEMMA UnitsAreClosed ==
  ASSUME NEW s \in Seq(Messages), NoGoogle(s), NEW R \in SUBSET Units(s)
  PROVE  Closed(s, SystemPart(s) \union UNION R)
<1> DEFINE I == SystemPart(s) \union UNION R
<1>1. /\ Len(s) \in Nat /\ DOMAIN s = 1..Len(s)
      /\ SystemPart(s) = {i \in 1..Len(s) : s[i].kind = "system"}
  BY DEF SystemPart
<1>2. ASSUME NEW v \in R, NEW j \in v
      PROVE  /\ s[j].kind = "call" => Run(s, j) \subseteq v
             /\ s[j].kind = "results" => \E i \in v : s[i].kind = "call" /\ j \in Run(s, i)
  <2>1. PICK i \in 1..Len(s) : IsCallUnit(s, v, i) \/ IsTextUnit(s, v, i)
    BY <1>1, UnitsAre
  <2>2. CASE IsTextUnit(s, v, i)
    <3>1. j = i /\ ~IsToolUse(s[i]) /\ ~IsToolResult(s[i])
      BY <2>2 DEF IsTextUnit
    <3> QED
      BY <3>1, RunsOfOthers
  <2>3. CASE IsCallUnit(s, v, i)
    <3>1. IsToolUse(s[i]) /\ v = {i} \union CallRun(s, i)
      BY <2>3 DEF IsCallUnit
    <3>2. s[i].kind = "call" /\ v = {i} \union Run(s, i)
      BY <3>1, RunsOfOthers
    <3>3. CASE j = i
      BY <3>2, <3>3
    <3>4. CASE j \in Run(s, i)
      <4>1. s[j].kind = "results" /\ i \in Nat
        BY <1>1, <3>4, RunsAreLater
      <4> QED
        BY <3>2, <3>4, <4>1
    <3> QED
      BY <3>2, <3>3, <3>4
  <2> QED
    BY <2>1, <2>2, <2>3
<1>4. ASSUME NEW i \in I, s[i].kind = "call"
      PROVE  Run(s, i) \subseteq I
  <2>1. PICK v \in R : i \in v
    BY <1>1, <1>4
  <2> QED
    BY <1>2, <1>4, <2>1
<1>5. ASSUME NEW j \in I, s[j].kind = "results"
      PROVE  \E i \in I : s[i].kind = "call" /\ j \in Run(s, i)
  <2>1. PICK v \in R : j \in v
    BY <1>1, <1>5
  <2>2. PICK i \in v : s[i].kind = "call" /\ j \in Run(s, i)
    BY <1>2, <1>5, <2>1
  <2> QED
    BY <2>1, <2>2
<1> QED
  BY <1>4, <1>5 DEF Closed
\* Truncation keeps what is well formed.
LEMMA TruncationKeepsPairs ==
  ASSUME NEW s \in Seq(Messages), NEW max, max # NoLimit, NoGoogle(s), Well(s)
  PROVE  /\ Truncated(s, max) \in Seq(Messages)
         /\ NoGoogle(Truncated(s, max)) /\ Well(Truncated(s, max))
<1> DEFINE K == Truncated(s, max)
<1> HIDE DEF K
<1>1. CASE K = s
  BY <1>1 DEF K
<1>2. ASSUME K \in Seq(Messages), NEW R \in SUBSET Units(s), NEW e,
             Thinning(e, K, s, SystemPart(s) \union UNION R)
      PROVE  NoGoogle(K) /\ Well(K)
  <2>1. Well(K)
    BY <1>2, UnitsAreClosed, ThinnedIsWell
  <2>2. NoGoogle(K)
    BY <1>2, ThinningFacts DEF NoGoogle
  <2> QED
    BY <2>1, <2>2
<1> QED
  BY <1>1, <1>2, TruncationThins DEF K

\* A conversation that ends with the results of the last call, of iteration it.
EndsAnswered(s, it) ==
  \E i \in 1..Len(s) : /\ s[i].kind = "call" /\ \A t \in s[i].ids : t[1] = it
                       /\ i < Len(s) /\ \A j \in (i + 1)..Len(s) : s[j].kind = "results"

\* What ResultsReachModel says of a conversation.
Reaches(s, it) ==
  \E i \in DOMAIN s : /\ s[i].kind = "call" /\ AnsweredBy(s, i) = s[i].ids
                      /\ \A t \in s[i].ids : t[1] = it

\* Without truncation the last results reach the model.
LEMMA EndReaches ==
  ASSUME NEW s \in Seq(Messages), NEW it, Well(s), EndsAnswered(s, it)
  PROVE  Reaches(s, it)
BY DEF Reaches, EndsAnswered, Well, WellUpTo, Answered

\* The unit of the last call is the newest, which stays.
LEMMA NewestStays ==
  ASSUME NEW s \in Seq(Messages), NEW max, max # NoLimit, NoGoogle(s), Well(s), NEW it,
         EndsAnswered(s, it)
  PROVE  Reaches(Truncated(s, max), it)
<1> DEFINE K == Truncated(s, max)
<1> HIDE DEF K
<1>1. CASE K = s
  BY <1>1, EndReaches DEF K
<1>2. ASSUME K \in Seq(Messages), NEW R \in SUBSET Units(s), NEW e,
             Thinning(e, K, s, SystemPart(s) \union UNION R),
             (R = {} /\ Units(s) = {}) \/ \E N \in R : Recent(s, R, N, Available(s, max))
      PROVE  Reaches(K, it)
  <2>1. Len(s) \in Nat /\ DOMAIN s = 1..Len(s) /\ DOMAIN K = 1..Len(K)
    BY <1>2
  <2>2. PICK i \in 1..Len(s) : /\ s[i].kind = "call" /\ \A t \in s[i].ids : t[1] = it
                               /\ i < Len(s) /\ \A j \in (i + 1)..Len(s) : s[j].kind = "results"
    BY DEF EndsAnswered
  <2>3. IsToolUse(s[i]) /\ CallRun(s, i) = Run(s, i) /\ i \in Nat
    BY <2>1, <2>2, RunsOfOthers
  <2>4. i + 1 \in Run(s, i)
    BY <2>1, <2>2 DEF Run
  <2> DEFINE L == {i} \union CallRun(s, i)
  <2>5. L \in Units(s)
    BY <2>1, <2>3, <2>4, UnitsAre
  <2>6. Min(L) = i
    <3>1. \A j \in L : j \in Nat /\ i <= j
      BY <2>1, <2>3, CallRunsAreLater
    <3>2. L \in SUBSET Nat /\ L # {} /\ i \in L
      BY <3>1
    <3> HIDE DEF L
    <3>3. Min(L) \in L /\ Min(L) <= i
      BY <3>2, Smallest
    <3>4. i <= Min(L) /\ Min(L) \in Nat
      BY <3>1, <3>3
    <3> QED
      BY <2>3, <3>3, <3>4
  <2>7. PICK N \in R : Recent(s, R, N, Available(s, max))
    BY <1>2, <2>5
  <2>8. N \in Units(s) /\ i <= Min(N)
    BY <2>5, <2>6, <2>7 DEF Recent
  <2>9. /\ Min(N) \in N /\ Min(N) \in 1..Len(s)
        /\ IsCallUnit(s, N, Min(N)) \/ IsTextUnit(s, N, Min(N))
    BY <2>1, <2>8, UnitsBegin
  <2>10. Min(N) = i
    <3>1. ASSUME Min(N) # i PROVE FALSE
      <4>1. Min(N) \in (i + 1)..Len(s)
        BY <2>1, <2>3, <2>8, <2>9, <3>1
      <4>2. s[Min(N)].kind = "results"
        BY <2>2, <4>1
      <4>3. IsToolResult(s[Min(N)]) /\ ~IsToolUse(s[Min(N)])
        BY <2>9, <4>2, RunsOfOthers
      <4> QED
        BY <2>9, <4>3 DEF IsCallUnit, IsTextUnit
    <3> QED
      BY <3>1
  <2>11. i \in SystemPart(s) \union UNION R
    BY <2>9, <2>10
  <2>12. PICK k \in 1..Len(K) : e[k] = i
    BY <1>2, <2>11 DEF Thinning, Thins, Enumerates
  <2>13. K[k] = s[i]
    BY <1>2, <2>12, ThinningFacts
  <2>14. Well(K)
    BY <1>2, UnitsAreClosed, ThinnedIsWell
  <2>15. AnsweredBy(K, k) = K[k].ids
    BY <2>2, <2>13, <2>14 DEF Well, WellUpTo, Answered
  <2> QED
    BY <2>1, <2>2, <2>13, <2>15 DEF Reaches
<1> QED
  BY <1>1, <1>2, TruncationThins DEF K
-----------------------------------------------------------------------------
(* Longer conversations. *)

\* t continues s, and what is at b ends the runs that began before.
Prolongs(t, s, b) ==
  /\ Len(s) \in Nat /\ Len(t) \in Nat /\ Len(s) <= Len(t) /\ \A i \in 1..Len(s) : t[i] = s[i]
  /\ b \in 1..Len(t) /\ b <= Len(s) + 1 /\ t[b].kind # "results"

\* Runs only get longer, and those that ended before b stay as they were.
LEMMA ProlongedRuns ==
  ASSUME NEW t, NEW s, NEW b, Prolongs(t, s, b)
  PROVE  /\ \A i \in 1..Len(s) : Run(s, i) \subseteq Run(t, i)
         /\ \A i \in 1..(b - 1) : Run(t, i) = Run(s, i)
<1>1. /\ Len(s) \in Nat /\ Len(t) \in Nat /\ Len(s) <= Len(t) /\ \A i \in 1..Len(s) : t[i] = s[i]
      /\ b \in 1..Len(t) /\ b <= Len(s) + 1 /\ t[b].kind # "results" /\ b \in Nat
  BY DEF Prolongs
<1>2. ASSUME NEW i \in 1..Len(s), NEW j \in Run(s, i) PROVE j \in Run(t, i)
  <2>1. j \in (i + 1)..Len(s) /\ \A k \in (i + 1)..j : s[k].kind = "results"
    BY <1>2 DEF Run
  <2>2. \A k \in (i + 1)..j : k \in 1..Len(s)
    BY <1>1, <2>1
  <2>3. \A k \in (i + 1)..j : t[k].kind = "results"
    BY <1>1, <2>1, <2>2
  <2>4. j \in (i + 1)..Len(t)
    BY <1>1, <2>1
  <2> QED
    BY <2>3, <2>4 DEF Run
<1>3. ASSUME NEW i \in 1..(b - 1), NEW j \in Run(t, i) PROVE j \in Run(s, i)
  <2>1. j \in (i + 1)..Len(t) /\ \A k \in (i + 1)..j : t[k].kind = "results"
    BY <1>3 DEF Run
  <2>2. j < b
    <3>1. ASSUME b <= j PROVE FALSE
      <4>1. b \in (i + 1)..j
        BY <1>1, <2>1, <3>1
      <4> QED
        BY <1>1, <2>1, <4>1
    <3> QED
      BY <1>1, <2>1, <3>1
  <2>3. \A k \in (i + 1)..j : k \in 1..Len(s)
    BY <1>1, <2>1, <2>2
  <2>4. \A k \in (i + 1)..j : s[k].kind = "results"
    BY <1>1, <2>1, <2>3
  <2>5. j \in (i + 1)..Len(s)
    BY <1>1, <2>1, <2>2
  <2> QED
    BY <2>4, <2>5 DEF Run
<1>4. \A i \in 1..(b - 1) : i \in 1..Len(s)
  BY <1>1
<1> QED
  BY <1>2, <1>3, <1>4

\* AnsweredBy collects the answers of a run.
LEMMA AnsweredByRun ==
  ASSUME NEW s, NEW i
  PROVE  AnsweredBy(s, i) = UNION {s[j].ids : j \in Run(s, i)}
BY DEF AnsweredBy, Run

\* What was answered stays answered, and who followed a call still does.
LEMMA Prolonged ==
  ASSUME NEW t, NEW s, NEW b, Prolongs(t, s, b), WellUpTo(s, b - 1)
  PROVE  /\ \A i \in 1..(b - 1) : t[i].kind = "call" => Answered(t, i)
         /\ \A j \in 1..Len(s) : t[j].kind = "results" => Follows(t, j)
<1>1. /\ Len(s) \in Nat /\ Len(t) \in Nat /\ Len(s) <= Len(t) /\ \A i \in 1..Len(s) : t[i] = s[i]
      /\ b \in 1..Len(t) /\ b <= Len(s) + 1 /\ b \in Nat
  BY DEF Prolongs
<1>2. ASSUME NEW i \in 1..(b - 1), t[i].kind = "call" PROVE Answered(t, i)
  <2>1. i \in 1..Len(s) /\ t[i] = s[i] /\ i \in Nat
    BY <1>1
  <2>2. Answered(s, i)
    BY <1>2, <2>1 DEF WellUpTo
  <2>3. Run(t, i) = Run(s, i)
    BY ProlongedRuns
  <2>4. \A j \in Run(s, i) : t[j] = s[j]
    BY <1>1, <2>1, RunsAreLater
  <2>5. {t[j].ids : j \in Run(t, i)} = {s[j].ids : j \in Run(s, i)}
    BY <2>3, <2>4
  <2>6. AnsweredBy(t, i) = AnsweredBy(s, i)
    BY <2>5, AnsweredByRun
  <2> QED
    BY <2>1, <2>2, <2>3, <2>4, <2>6 DEF Answered
<1>3. ASSUME NEW j \in 1..Len(s), t[j].kind = "results" PROVE Follows(t, j)
  <2>1. Follows(s, j)
    BY <1>1, <1>3 DEF WellUpTo
  <2>2. PICK i \in 1..(j - 1) : s[i].kind = "call" /\ j \in Run(s, i)
    BY <2>1 DEF Follows
  <2>3. i \in 1..Len(s)
    BY <1>1
  <2>4. t[i].kind = "call" /\ j \in Run(t, i)
    BY <1>1, <2>2, <2>3, ProlongedRuns
  <2> QED
    BY <2>4 DEF Follows
<1> QED
  BY <1>2, <1>3

\* A message that is not a result leaves what is before it alone.
LEMMA MessageAppended ==
  ASSUME NEW s \in Seq(Messages), NEW m \in Messages, m.kind # "results"
  PROVE  /\ Append(s, m) \in Seq(Messages) /\ Len(Append(s, m)) = Len(s) + 1
         /\ Append(s, m)[Len(s) + 1] = m /\ \A i \in 1..Len(s) : Append(s, m)[i] = s[i]
         /\ Well(s) => WellUpTo(Append(s, m), Len(s))
         /\ Well(s) /\ m.kind # "call" => Well(Append(s, m))
<1> DEFINE t == Append(s, m)
<1>1. /\ t \in Seq(Messages) /\ Len(t) = Len(s) + 1 /\ Len(s) \in Nat
      /\ t[Len(s) + 1] = m /\ \A i \in 1..Len(s) : t[i] = s[i]
  OBVIOUS
<1> HIDE DEF t
<1>2. Prolongs(t, s, Len(s) + 1)
  BY <1>1 DEF Prolongs
<1>3. ASSUME Well(s) PROVE WellUpTo(t, Len(s)) /\ (m.kind # "call" => Well(t))
  <2>1. Len(s) + 1 - 1 = Len(s)
    BY <1>1
  <2>2. WellUpTo(s, Len(s))
    BY <1>3 DEF Well
  <2>3. /\ \A i \in 1..Len(s) : t[i].kind = "call" => Answered(t, i)
        /\ \A j \in 1..Len(s) : t[j].kind = "results" => Follows(t, j)
    BY <1>2, <2>1, <2>2, Prolonged
  <2>4. \A i \in 1..Len(t) : i \in 1..Len(s) \/ t[i] = m
    BY <1>1
  <2> QED
    BY <2>3, <2>4 DEF Well, WellUpTo
<1> QED
  BY <1>1, <1>3 DEF t

\* All results of the call at the end of s.
AnswersLast(R, s) ==
  /\ R \in Seq(Messages) /\ s[Len(s)].ids = UNION {R[k].ids : k \in 1..Len(R)}
  /\ \A k \in 1..Len(R) : R[k].kind = "results" /\ R[k].form = s[Len(s)].form

\* With all results of the last call the conversation is well formed again.
LEMMA ResultsAppended ==
  ASSUME NEW s \in Seq(Messages), NEW R, AnswersLast(R, s), Len(s) \in 1..Len(s),
         WellUpTo(s, Len(s) - 1), s[Len(s)].kind = "call", s[Len(s)].ids # {}
  PROVE  /\ s \o R \in Seq(Messages) /\ Well(s \o R)
         /\ Len(s \o R) = Len(s) + Len(R) /\ Len(s) < Len(s \o R)
         /\ \A i \in 1..Len(s) : (s \o R)[i] = s[i]
         /\ \A i \in 1..Len(s \o R) :
              i \in 1..Len(s) \/ ((s \o R)[i].kind = "results" /\ (s \o R)[i].form = s[Len(s)].form)
<1> DEFINE t == s \o R
           n == Len(s)
<1>1. /\ R \in Seq(Messages) /\ n \in Nat /\ Len(R) \in Nat /\ 1 <= n /\ s[n].kind = "call"
      /\ s[n].ids = UNION {R[k].ids : k \in 1..Len(R)} /\ s[n].ids # {}
      /\ \A k \in 1..Len(R) : R[k].kind = "results" /\ R[k].form = s[n].form
  BY DEF AnswersLast
<1>2. 1 <= Len(R)
  <2>1. ASSUME Len(R) = 0 PROVE FALSE
    <3>1. 1..Len(R) = {}
      BY <2>1
    <3> QED
      BY <1>1, <3>1
  <2> QED
    BY <1>1, <2>1
<1>3. /\ t \in Seq(Messages) /\ Len(t) = n + Len(R) /\ Len(t) \in Nat
      /\ \A i \in 1..n : t[i] = s[i]
      /\ \A k \in 1..Len(R) : t[n + k] = R[k]
  BY <1>1
<1> HIDE DEF t
<1>4. ASSUME NEW i \in (n + 1)..Len(t) PROVE \E k \in 1..Len(R) : i = n + k /\ t[i] = R[k]
  <2>1. i - n \in 1..Len(R) /\ i = n + (i - n)
    BY <1>1, <1>3
  <2> QED
    BY <1>3, <2>1
<1>5. n \in 1..n /\ t[n] = s[n] /\ n \in 1..Len(t)
  <2>1. n \in 1..n
    OBVIOUS
  <2>2. n \in 1..Len(t)
    BY <1>1, <1>3
  <2>3. t[n] = s[n]
    BY <1>3, <2>1
  <2> QED
    BY <2>1, <2>2, <2>3
<1>6. Prolongs(t, s, n)
  <2>1. n <= Len(t) /\ n <= n + 1
    BY <1>1, <1>3
  <2>2. t[n].kind # "results"
    BY <1>1, <1>5
  <2> QED
    BY <1>1, <1>3, <1>5, <2>1, <2>2 DEF Prolongs
<1>7. /\ \A i \in 1..(n - 1) : t[i].kind = "call" => Answered(t, i)
      /\ \A j \in 1..n : t[j].kind = "results" => Follows(t, j)
  BY <1>6, Prolonged
<1>8. Run(t, n) = (n + 1)..Len(t)
  <2>1. \A j \in (n + 1)..Len(t) : \A k \in (n + 1)..j : k \in (n + 1)..Len(t)
    BY <1>1, <1>3
  <2>2. \A k \in (n + 1)..Len(t) : t[k].kind = "results"
    BY <1>1, <1>4
  <2> QED
    BY <2>1, <2>2 DEF Run
<1>9. Answered(t, n)
  <2>1. \A k \in 1..Len(R) : n + k \in (n + 1)..Len(t)
    BY <1>1, <1>3
  <2> DEFINE Here == {t[j].ids : j \in (n + 1)..Len(t)}
  <2>2. Here = {R[k].ids : k \in 1..Len(R)}
    <3>1. ASSUME NEW k \in 1..Len(R) PROVE R[k].ids \in Here
      <4>1. t[n + k].ids = R[k].ids
        BY <1>3
      <4> QED
        BY <2>1, <4>1
    <3>2. ASSUME NEW j \in (n + 1)..Len(t) PROVE t[j].ids \in {R[k].ids : k \in 1..Len(R)}
      BY <1>4
    <3> QED
      BY <3>1, <3>2
  <2>3. AnsweredBy(t, n) = UNION {R[k].ids : k \in 1..Len(R)}
    BY <1>8, <2>2, AnsweredByRun
  <2>4. \A j \in (n + 1)..Len(t) : t[j].form = s[n].form
    BY <1>1, <1>4
  <2> QED
    BY <1>1, <1>5, <1>8, <2>3, <2>4 DEF Answered
<1>10. \A i \in 1..Len(t) : i \in 1..n \/ i \in (n + 1)..Len(t)
  BY <1>1, <1>3
<1>11. \A i \in 1..n : i \in 1..(n - 1) \/ i = n
  BY <1>1
<1>12. ASSUME NEW j \in (n + 1)..Len(t)
       PROVE  Follows(t, j) /\ t[j].kind = "results" /\ t[j].form = s[n].form
  <2>1. n \in 1..(j - 1)
    BY <1>1, <1>3
  <2>2. t[n].kind = "call" /\ j \in Run(t, n)
    BY <1>1, <1>5, <1>8
  <2> QED
    BY <1>1, <1>4, <2>1, <2>2 DEF Follows
<1>13. Well(t)
  BY <1>1, <1>7, <1>9, <1>10, <1>11, <1>12 DEF Well, WellUpTo
<1>14. n < Len(t)
  BY <1>1, <1>2, <1>3
<1> QED
  BY <1>3, <1>10, <1>12, <1>13, <1>14 DEF t
-----------------------------------------------------------------------------
(* What google gets. *)

\* What is not in anthropic's format keeps calls and results together.
LEMMA OtherFormatsAreClosed ==
  ASSUME NEW s \in Seq(Messages), Well(s)
  PROVE  Closed(s, {i \in DOMAIN s : s[i].form # "anthropic"})
<1> DEFINE I == {i \in DOMAIN s : s[i].form # "anthropic"}
<1>1. Len(s) \in Nat /\ DOMAIN s = 1..Len(s)
  OBVIOUS
<1>2. ASSUME NEW i \in 1..Len(s), s[i].kind = "call", NEW j \in Run(s, i)
      PROVE  s[j].form = s[i].form /\ j \in 1..Len(s)
  <2>1. Answered(s, i) /\ i \in Nat
    BY <1>1, <1>2 DEF Well, WellUpTo
  <2> QED
    BY <1>1, <1>2, <2>1, RunsAreLater DEF Answered
<1>3. ASSUME NEW i \in I, s[i].kind = "call" PROVE Run(s, i) \subseteq I
  BY <1>1, <1>2, <1>3
<1>4. ASSUME NEW j \in I, s[j].kind = "results"
      PROVE  \E i \in I : s[i].kind = "call" /\ j \in Run(s, i)
  <2>1. PICK i \in 1..(j - 1) : s[i].kind = "call" /\ j \in Run(s, i)
    BY <1>1, <1>4 DEF Well, WellUpTo, Follows
  <2>2. i \in 1..Len(s)
    BY <1>1
  <2>3. s[j].form = s[i].form
    BY <1>2, <2>1, <2>2
  <2> QED
    BY <1>1, <2>1, <2>2, <2>3
<1> QED
  BY <1>3, <1>4 DEF Closed

\* openai's calls and results lose what makes them such, together.
ReadAsText(m) == IF m.form = "openai" THEN [m EXCEPT !.form = "text", !.ids = {}] ELSE m

\* Such a message keeps its kind.
LEMMA TextIsMessage ==
  ASSUME NEW m \in Messages
  PROVE  /\ ReadAsText(m) \in Messages /\ ReadAsText(m).kind = m.kind
         /\ m.form = "openai" => ReadAsText(m).form = "text" /\ ReadAsText(m).ids = {}
         /\ m.form # "openai" => ReadAsText(m) = m
BY DEF ReadAsText, Messages, Format

\* Reading openai's messages as text keeps a conversation well formed.
LEMMA ReadIsWell ==
  ASSUME NEW K \in Seq(Messages), Well(K), NEW G, G = [i \in DOMAIN K |-> ReadAsText(K[i])]
  PROVE  G \in Seq(Messages) /\ Well(G)
<1>1. Len(K) \in Nat /\ DOMAIN K = 1..Len(K) /\ \A i \in 1..Len(K) : K[i] \in Messages
  OBVIOUS
<1>2. /\ G = [i \in 1..Len(K) |-> ReadAsText(K[i])]
      /\ \A i \in 1..Len(K) : ReadAsText(K[i]) \in Messages
  BY <1>1, TextIsMessage
<1>3. G \in Seq(Messages) /\ Len(G) = Len(K) /\ \A i \in 1..Len(K) : G[i] = ReadAsText(K[i])
  BY <1>1, <1>2
<1>4. \A i \in 1..Len(K) : G[i].kind = K[i].kind
  BY <1>1, <1>3, TextIsMessage
<1>5. ASSUME NEW i \in 1..Len(K) PROVE Run(G, i) = Run(K, i)
  <2>1. ASSUME NEW j \in (i + 1)..Len(K), NEW k \in (i + 1)..j
        PROVE  (G[k].kind = "results") <=> (K[k].kind = "results")
    <3>1. k \in 1..Len(K)
      BY <1>1
    <3> QED
      BY <1>4, <3>1
  <2> QED
    BY <1>3, <2>1 DEF Run
<1>6. ASSUME NEW i \in 1..Len(K), G[i].kind = "call" PROVE Answered(G, i)
  <2>1. Answered(K, i) /\ i \in Nat
    BY <1>1, <1>4, <1>6 DEF Well, WellUpTo
  <2>2. \A j \in Run(K, i) : j \in 1..Len(K) /\ K[j].form = K[i].form
    BY <1>1, <2>1, RunsAreLater DEF Answered
  <2>3. AnsweredBy(G, i) = UNION {G[j].ids : j \in Run(K, i)}
    BY <1>5, AnsweredByRun
  <2>4. CASE K[i].form = "openai"
    <3>1. \A j \in Run(K, i) : G[j].ids = {} /\ G[j].form = "text"
      BY <1>1, <1>3, <2>2, <2>4, TextIsMessage
    <3>2. G[i].ids = {} /\ G[i].form = "text"
      BY <1>1, <1>3, <2>4, TextIsMessage
    <3>3. AnsweredBy(G, i) = {}
      BY <2>3, <3>1
    <3> QED
      BY <1>5, <3>1, <3>2, <3>3 DEF Answered
  <2>5. CASE K[i].form # "openai"
    <3>1. \A j \in Run(K, i) : G[j] = K[j]
      BY <1>1, <1>3, <2>2, <2>5, TextIsMessage
    <3>2. G[i] = K[i]
      BY <1>1, <1>3, <2>5, TextIsMessage
    <3>3. {G[j].ids : j \in Run(K, i)} = {K[j].ids : j \in Run(K, i)}
      BY <3>1
    <3>4. AnsweredBy(G, i) = AnsweredBy(K, i)
      BY <2>3, <3>3, AnsweredByRun
    <3> QED
      BY <1>5, <2>1, <3>1, <3>2, <3>4 DEF Answered
  <2> QED
    BY <2>4, <2>5
<1>7. ASSUME NEW j \in 1..Len(K), G[j].kind = "results" PROVE Follows(G, j)
  <2>1. PICK i \in 1..(j - 1) : K[i].kind = "call" /\ j \in Run(K, i)
    BY <1>4, <1>7 DEF Well, WellUpTo, Follows
  <2>2. i \in 1..Len(K)
    BY <1>1
  <2>3. G[i].kind = "call" /\ j \in Run(G, i)
    BY <1>4, <1>5, <2>1, <2>2
  <2> QED
    BY <2>3 DEF Follows
<1> QED
  BY <1>3, <1>6, <1>7 DEF Well, WellUpTo

\* What google gets is paired (the conversion for google in honcho_llm_call_inner).
LEMMA ContentsArePaired ==
  ASSUME conversation \in Seq(Messages), Well(conversation)
  PROVE  Paired(GoogleContents)
<1> DEFINE I == {i \in DOMAIN conversation : conversation[i].form # "anthropic"}
           K == Keep(conversation, I)
<1>1. Len(conversation) \in Nat /\ I \in SUBSET (1..Len(conversation))
  OBVIOUS
<1>2. Closed(conversation, I)
  BY OtherFormatsAreClosed
<1> HIDE DEF I
<1>3. K \in Seq(Messages) /\ \E e : Thins(e, K, conversation, I)
  BY <1>1, KeepThins
<1> HIDE DEF K
<1>4. PICK e : Thins(e, K, conversation, I)
  BY <1>3
<1>5. Len(K) \in Nat
  BY <1>3
<1>6. Thinning(e, K, conversation, I)
  BY <1>1, <1>4, <1>5 DEF Thinning
<1>7. Well(K)
  BY <1>2, <1>6, ThinnedIsWell
<1>8. GoogleContents = [i \in DOMAIN K |-> ReadAsText(K[i])]
  BY DEF GoogleContents, ReadAsText, K, I
<1>9. GoogleContents \in Seq(Messages) /\ Well(GoogleContents)
  BY <1>3, <1>7, <1>8, ReadIsWell
<1> QED
  BY <1>9, WellIsPaired
-----------------------------------------------------------------------------
(* The results of a response. *)

Results == [id : Nat \X Nat, size : Nat]
ResultIds == {results[k].id : k \in 1..Len(results)}

\* In either form the messages answer all tools that were executed (_append_tool_results).
LEMMA ResultMessagesAre ==
  ASSUME results \in Seq(Results), NEW form \in Format
  PROVE  /\ ResultMessages(form) \in Seq(Messages)
         /\ UNION {ResultMessages(form)[k].ids : k \in 1..Len(ResultMessages(form))} = ResultIds
         /\ \A k \in 1..Len(ResultMessages(form)) :
              /\ ResultMessages(form)[k].kind = "results"
              /\ ResultMessages(form)[k].form = form
<1> DEFINE R == ResultMessages(form)
<1>1. /\ Len(results) \in Nat /\ DOMAIN results = 1..Len(results)
      /\ \A k \in 1..Len(results) : results[k].id \in Nat \X Nat /\ results[k].size \in Nat
  <2>1. \A r \in Results : r.id \in Nat \X Nat /\ r.size \in Nat
    BY DEF Results
  <2>2. \A k \in 1..Len(results) : results[k] \in Results
    OBVIOUS
  <2> QED
    BY <2>1, <2>2
<1>2. CASE form = "openai"
  <2> DEFINE M(k) == Message("results", form, {results[k].id}, results[k].size)
  <2>1. R = [k \in 1..Len(results) |-> M(k)]
    BY <1>1, <1>2 DEF ResultMessages
  <2>2. ASSUME NEW k \in 1..Len(results)
        PROVE  /\ M(k) \in Messages
               /\ M(k).kind = "results" /\ M(k).form = form /\ M(k).ids = {results[k].id}
    <3>1. M(k) \in Messages
      BY <1>1 DEF Message, Messages, Kind
    <3> QED
      BY <3>1 DEF Message
  <2> HIDE DEF R, M
  <2>3. R \in Seq(Messages) /\ Len(R) = Len(results) /\ \A k \in 1..Len(results) : R[k] = M(k)
    <3>1. R \in [1..Len(results) -> Messages]
      BY <2>1, <2>2
    <3> QED
      BY <1>1, <2>1, <3>1
  <2>4. \A k \in 1..Len(results) :
          R[k].kind = "results" /\ R[k].form = form /\ R[k].ids = {results[k].id}
    BY <2>2, <2>3
  <2>5. {R[k].ids : k \in 1..Len(R)} = {{results[k].id} : k \in 1..Len(results)}
    <3>1. ASSUME NEW x \in {R[k].ids : k \in 1..Len(R)}
          PROVE  x \in {{results[k].id} : k \in 1..Len(results)}
      <4>1. PICK k \in 1..Len(results) : x = R[k].ids
        BY <2>3
      <4> QED
        BY <2>4, <4>1
    <3>2. ASSUME NEW k \in 1..Len(results) PROVE {results[k].id} \in {R[l].ids : l \in 1..Len(R)}
      <4>1. k \in 1..Len(R) /\ R[k].ids = {results[k].id}
        BY <2>3, <2>4
      <4> QED
        BY <4>1
    <3> QED
      BY <3>1, <3>2
  <2>6. UNION {{results[k].id} : k \in 1..Len(results)} = ResultIds
    BY DEF ResultIds
  <2> QED
    BY <2>3, <2>4, <2>5, <2>6 DEF R
<1>3. CASE form # "openai"
  <2> DEFINE w == [i \in DOMAIN results |-> results[i].size]
             m == Message("results", form, {r.id : r \in ToSet(results)},
                          SumOf(w, DOMAIN results))
  <2>1. R = <<m>>
    BY <1>3 DEF ResultMessages
  <2>2. {r.id : r \in ToSet(results)} = ResultIds
    BY <1>1 DEF ToSet, ResultIds
  <2>3. SumOf(w, 1..Len(results)) \in Nat
    <3>1. \A i \in 1..Len(results) : w[i] \in Nat
      BY <1>1
    <3> HIDE DEF w
    <3>2. 1..Len(results) \in SUBSET (1..Len(results))
      OBVIOUS
    <3> QED
      BY <1>1, <3>1, <3>2, SumIsNumber
  <2>4. ResultIds \subseteq Nat \X Nat
    BY <1>1 DEF ResultIds
  <2> HIDE DEF w
  <2>5. m \in Messages
    BY <1>1, <2>2, <2>3, <2>4 DEF Message, Messages, Kind
  <2>6. m.kind = "results" /\ m.form = form /\ m.ids = ResultIds
    BY <2>2 DEF Message
  <2> HIDE DEF R, m
  <2>7. R \in Seq(Messages) /\ Len(R) = 1 /\ R[1] = m
    BY <2>1, <2>5
  <2>8. \A k \in 1..Len(R) : k = 1
    BY <2>7
  <2>9. {R[k].ids : k \in 1..Len(R)} = {ResultIds}
    BY <2>6, <2>7, <2>8
  <2> QED
    BY <2>6, <2>7, <2>8, <2>9 DEF R
<1> QED
  BY <1>2, <1>3
-----------------------------------------------------------------------------
(* The conversation of an agent. *)

Ungoogled  == "google" \notin {conf.primary, conf.backup}
Recognised == conf.limit = NoLimit \/ Ungoogled

LoopTypes ==
  /\ conf \in Configs /\ conversation \in Seq(Messages)
  /\ asked \in SUBSET (Nat \X Nat) /\ results \in Seq(Results)
  /\ iteration \in Nat /\ nudged \in Nat

\* Only agents loop; their conversation begins with the system prompt, and has no other.
AgentsLoop ==
  /\ pc \in {"loop", "call", "tools", "final", "stream"} => conf.kind = "agent"
  /\ phase \in {"begin", "deduction", "induction"} => conf \in DreamConfigs
  /\ conf.kind = "agent" => PromptFirst(conversation, conf)

\* While tools are executed the conversation ends with the call that asked for them.
AwaitsResults(s) ==
  /\ Len(s) \in 1..Len(s) /\ WellUpTo(s, Len(s) - 1) /\ s[Len(s)].kind = "call"
  /\ s[Len(s)].form = FormatOf(ProviderOf(attempt))
  /\ s[Len(s)].ids = asked \union ResultIds /\ s[Len(s)].ids # {}
  /\ \A t \in s[Len(s)].ids : t[1] = iteration

PairsInv ==
  Recognised => IF pc = "tools" THEN AwaitsResults(conversation) ELSE Well(conversation)

RecentInv ==
  /\ Ungoogled => NoGoogle(conversation)
  /\ Ungoogled /\ pc = "loop" /\ iteration > 0 /\ nudged = 0
       => EndsAnswered(conversation, iteration - 1)
  /\ pc = "call" /\ conf.limit # NoLimit => Fits(conversation, conf.limit, conf)
  /\ Ungoogled /\ pc = "call" /\ iteration > 0 /\ nudged = 0
       => Reaches(conversation, iteration - 1)

AgentInv == LoopTypes /\ AgentsLoop /\ PairsInv /\ RecentInv

\* What a configuration fixes.
LEMMA ConfigFacts ==
  ASSUME conf \in Configs
  PROVE  /\ conf.system \in Nat /\ conf.limit \in Nat \union {NoLimit}
         /\ conf \in DreamConfigs => conf.kind = "agent"
         /\ FormatOf(ProviderOf(attempt)) \in Format
         /\ Ungoogled => FormatOf(ProviderOf(attempt)) # "google"
<1>1. conf \in Config
  BY AgentAssumption
<1>2. conf.system \in Nat /\ conf.limit \in Nat \union {NoLimit}
  BY <1>1 DEF Config
<1>3. conf \in DreamConfigs => conf.kind = "agent"
  BY DreamAssumption
<1>4. FormatOf(ProviderOf(attempt)) \in Format
  BY DEF FormatOf, Format
<1>5. Ungoogled => FormatOf(ProviderOf(attempt)) # "google"
  BY DEF Ungoogled, FormatOf, ProviderOf
<1> QED
  BY <1>2, <1>3, <1>4, <1>5

\* The prompts are text.
LEMMA TextsAre ==
  /\ UserPrompt \in Messages /\ UserPrompt.kind = "user" /\ UserPrompt.form = "text"
  /\ \A c : c.system \in Nat => /\ SystemPrompt(c) \in Messages
                                /\ SystemPrompt(c).kind = "system" /\ SystemPrompt(c).form = "text"
BY DEF UserPrompt, SystemPrompt, Text, Message, Messages, Kind, Format

\* A conversation begins well formed.
LEMMA QuestionIs ==
  ASSUME NEW c, c.system \in Nat
  PROVE  /\ Question(c) \in Seq(Messages) /\ Well(Question(c)) /\ NoGoogle(Question(c))
         /\ c.kind = "agent" => PromptFirst(Question(c), c)
<1> DEFINE q == Question(c)
<1>1. CASE c.kind = "agent"
  <2>1. q = <<SystemPrompt(c), UserPrompt>>
    BY <1>1 DEF Question
  <2> HIDE DEF q
  <2>2. /\ q \in Seq(Messages) /\ Len(q) = 2 /\ q[1] = SystemPrompt(c) /\ q[2] = UserPrompt
        /\ \A i \in 1..2 : i = 1 \/ i = 2
    BY <2>1, TextsAre
  <2> QED
    BY <2>2, TextsAre DEF q, Well, WellUpTo, NoGoogle, PromptFirst
<1>2. CASE c.kind # "agent"
  <2>1. q = <<UserPrompt>>
    BY <1>2 DEF Question
  <2> HIDE DEF q
  <2>2. q \in Seq(Messages) /\ Len(q) = 1 /\ q[1] = UserPrompt /\ \A i \in 1..1 : i = 1
    BY <2>1, TextsAre
  <2> QED
    BY <1>2, <2>2, TextsAre DEF q, Well, WellUpTo, NoGoogle, PromptFirst
<1> QED
  BY <1>1, <1>2

\* Asking for something more.
LEMMA UserAsks ==
  ASSUME conversation \in Seq(Messages), NEW c
  PROVE  LET t == Append(conversation, UserPrompt) IN
           /\ t \in Seq(Messages)
           /\ Well(conversation) => Well(t)
           /\ NoGoogle(conversation) => NoGoogle(t)
           /\ PromptFirst(conversation, c) => PromptFirst(t, c)
<1> DEFINE t == Append(conversation, UserPrompt)
           n == Len(conversation)
<1>1. /\ t \in Seq(Messages) /\ Len(t) = n + 1 /\ n \in Nat /\ t[n + 1] = UserPrompt
      /\ \A i \in 1..n : t[i] = conversation[i]
  BY TextsAre, MessageAppended
<1>2. Well(conversation) => Well(t)
  BY TextsAre, MessageAppended
<1>3. \A i \in 1..(n + 1) : i \in 1..n \/ i = n + 1
  BY <1>1
<1> HIDE DEF t
<1>4. NoGoogle(conversation) => NoGoogle(t)
  BY <1>1, <1>3, TextsAre DEF NoGoogle
<1>5. ASSUME PromptFirst(conversation, c) PROVE PromptFirst(t, c)
  <2>1. 1 \in 1..n /\ conversation[1] = SystemPrompt(c)
    BY <1>5 DEF PromptFirst
  <2>2. 1 \in 1..Len(t) /\ t[1] = SystemPrompt(c)
    BY <1>1, <2>1
  <2>3. \A i \in 1..(n + 1) : i # 1 => t[i].kind # "system"
    BY <1>1, <1>3, <1>5, TextsAre DEF PromptFirst
  <2> QED
    BY <1>1, <2>2, <2>3 DEF PromptFirst
<1> QED
  BY <1>1, <1>2, <1>4, <1>5 DEF t
-----------------------------------------------------------------------------
(* The actions of the loop. *)

\* The conversation stays, and nothing is asked that was not asked before.
LEMMA Settles ==
  ASSUME AgentInv, UNCHANGED <<conf, conversation, iteration, asked, results, nudged, phase>>,
         pc \in {"call", "final", "single", "stream"}, pc' \notin {"loop", "tools"},
         pc' = "call" => pc = "call",
         pc' \in {"final", "stream"} => pc \in {"call", "final", "stream"}
  PROVE  AgentInv'
<1> USE DEF AgentInv
<1>1. LoopTypes'
  BY DEF LoopTypes
<1>2. AgentsLoop'
  BY DEF AgentsLoop
<1>3. PairsInv'
  BY DEF PairsInv, Recognised, Ungoogled
<1>4. RecentInv'
  BY DEF RecentInv, Ungoogled
<1> QED
  BY <1>1, <1>2, <1>3, <1>4

\* The only action that truncates (_execute_tool_loop, the top of its loop).
LEMMA BeginsIteration ==
  ASSUME AgentInv, BeginIteration, UNCHANGED phase
  PROVE  AgentInv'
<1> USE DEF AgentInv
<1> DEFINE K == Truncated(conversation, conf.limit)
<1>1. /\ pc = "loop" /\ pc' = "call" /\ conversation' = K
      /\ UNCHANGED <<conf, iteration, asked, results, nudged>>
  BY DEF BeginIteration
<1>2. /\ conversation \in Seq(Messages) /\ conf \in Configs
      /\ conf.kind = "agent" /\ PromptFirst(conversation, conf)
      /\ conf.system \in Nat /\ conf.limit \in Nat \union {NoLimit}
  BY <1>1, ConfigFacts DEF LoopTypes, AgentsLoop
<1>3. Recognised => Well(conversation)
  BY <1>1 DEF PairsInv
<1>4. Ungoogled => NoGoogle(conversation) /\ Recognised
  BY DEF RecentInv, Recognised
<1>5. Ungoogled /\ iteration > 0 /\ nudged = 0 => EndsAnswered(conversation, iteration - 1)
  BY <1>1 DEF RecentInv
<1>6. K \in Seq(Messages) /\ PromptFirst(K, conf)
  <2>1. CASE conf.limit = NoLimit
    BY <1>2, <2>1 DEF Truncated
  <2>2. CASE conf.limit # NoLimit
    BY <1>2, <2>2, TruncationThins, TruncationFits
  <2> QED
    BY <2>1, <2>2
<1>7. conf.limit # NoLimit => Fits(K, conf.limit, conf)
  BY <1>2, TruncationFits
<1>8. Recognised => Well(K)
  <2>1. CASE conf.limit = NoLimit
    BY <1>3, <2>1 DEF Truncated
  <2>2. ASSUME conf.limit # NoLimit, Recognised PROVE Well(K)
    <3>1. NoGoogle(conversation) /\ Well(conversation)
      BY <1>3, <1>4, <2>2 DEF Recognised
    <3> QED
      BY <1>2, <2>2, <3>1, TruncationKeepsPairs
  <2> QED
    BY <2>1, <2>2
<1>9. ASSUME Ungoogled PROVE NoGoogle(K)
  <2>1. CASE conf.limit = NoLimit
    BY <1>4, <1>9, <2>1 DEF Truncated
  <2>2. CASE conf.limit # NoLimit
    BY <1>2, <1>3, <1>4, <1>9, <2>2, TruncationKeepsPairs
  <2> QED
    BY <2>1, <2>2
<1>10. ASSUME Ungoogled, iteration > 0, nudged = 0 PROVE Reaches(K, iteration - 1)
  <2>1. NoGoogle(conversation) /\ Well(conversation) /\ EndsAnswered(conversation, iteration - 1)
    BY <1>3, <1>4, <1>5, <1>10
  <2>2. CASE conf.limit = NoLimit
    BY <1>2, <2>1, <2>2, EndReaches DEF Truncated
  <2>3. CASE conf.limit # NoLimit
    BY <1>2, <2>1, <2>3, NewestStays
  <2> QED
    BY <2>2, <2>3
<1> HIDE DEF K
<1>11. LoopTypes'
  BY <1>1, <1>6 DEF LoopTypes
<1>12. AgentsLoop'
  BY <1>1, <1>6 DEF AgentsLoop
<1>13. PairsInv'
  BY <1>1, <1>8 DEF PairsInv, Recognised, Ungoogled
<1>14. RecentInv'
  BY <1>1, <1>7, <1>9, <1>10 DEF RecentInv, Ungoogled
<1> QED
  BY <1>11, <1>12, <1>13, <1>14

\* An empty answer ends the loop or is asked for again.
LEMMA AnsweredEmpty ==
  ASSUME AgentInv, AnswersEmpty, UNCHANGED phase
  PROVE  AgentInv'
<1> DEFINE t == Append(conversation, UserPrompt)
<1>1. CASE pc' = Finished /\ UNCHANGED <<nudged, iteration, conversation>>
  <2>1. pc = "call" /\ pc' \in {"stream", "done"} /\ UNCHANGED <<conf, asked, results>>
    BY <1>1 DEF AnswersEmpty, Finished
  <2> QED
    BY <1>1, <2>1, Settles
<1>2. CASE /\ nudged' = nudged + 1 /\ iteration' = iteration + 1 /\ pc' = "loop"
           /\ conversation' = t
  <2> USE DEF AgentInv
  <2>1. pc = "call" /\ UNCHANGED <<conf, asked, results>>
    BY DEF AnswersEmpty
  <2>2. /\ conversation \in Seq(Messages) /\ nudged' \in Nat /\ nudged' # 0
        /\ iteration' \in Nat
    BY <1>2 DEF LoopTypes
  <2>3. /\ t \in Seq(Messages)
        /\ Well(conversation) => Well(t)
        /\ NoGoogle(conversation) => NoGoogle(t)
        /\ PromptFirst(conversation, conf) => PromptFirst(t, conf)
    BY <2>2, UserAsks
  <2> HIDE DEF t
  <2>4. LoopTypes'
    BY <1>2, <2>1, <2>2, <2>3 DEF LoopTypes
  <2>5. AgentsLoop'
    BY <1>2, <2>1, <2>3 DEF AgentsLoop
  <2>6. PairsInv'
    BY <1>2, <2>1, <2>3 DEF PairsInv, Recognised, Ungoogled
  <2>7. RecentInv'
    BY <1>2, <2>1, <2>2, <2>3 DEF RecentInv, Ungoogled
  <2> QED
    BY <2>4, <2>5, <2>6, <2>7
<1> QED
  BY <1>1, <1>2 DEF AnswersEmpty, UserPrompt

\* After the last iteration the model is asked for an answer.
LEMMA Synthesizes ==
  ASSUME AgentInv, AskForSynthesis, UNCHANGED phase
  PROVE  AgentInv'
<1> USE DEF AgentInv
<1> DEFINE t == Append(conversation, UserPrompt)
<1>1. /\ pc = "loop" /\ pc' \in {"final", "stream"} /\ conversation' = t
      /\ UNCHANGED <<conf, iteration, asked, results, nudged>>
  BY DEF AskForSynthesis, UserPrompt
<1>2. conversation \in Seq(Messages)
  BY DEF LoopTypes
<1>3. /\ t \in Seq(Messages)
      /\ Well(conversation) => Well(t)
      /\ NoGoogle(conversation) => NoGoogle(t)
      /\ PromptFirst(conversation, conf) => PromptFirst(t, conf)
  BY <1>2, UserAsks
<1> HIDE DEF t
<1>4. LoopTypes'
  BY <1>1, <1>3 DEF LoopTypes
<1>5. AgentsLoop'
  BY <1>1, <1>3 DEF AgentsLoop
<1>6. PairsInv'
  BY <1>1, <1>3 DEF PairsInv, Recognised, Ungoogled
<1>7. RecentInv'
  BY <1>1, <1>3 DEF RecentInv, Ungoogled
<1> QED
  BY <1>4, <1>5, <1>6, <1>7
-----------------------------------------------------------------------------
(* The tools of one response. *)

\* A call of tools is a message.
LEMMA CallIsMessage ==
  ASSUME conf \in Configs, NEW ids \in SUBSET (Nat \X Nat), NEW form \in Format
  PROVE  LET m == Message("call", form, ids, 1) IN
           m \in Messages /\ m.kind = "call" /\ m.form = form /\ m.ids = ids
<1>1. Message("call", form, ids, 1) \in Messages
  BY DEF Message, Messages, Kind
<1> QED
  BY <1>1 DEF Message

\* The call is appended; from now on it awaits its results.
LEMMA AnsweredTools ==
  ASSUME AgentInv, NEW n \in 1..MaxTools, AnswersTools(n), UNCHANGED phase
  PROVE  AgentInv'
<1> USE DEF AgentInv
<1> DEFINE form == FormatOf(ProviderOf(attempt))
           ids == {<<iteration, t>> : t \in 1..n}
           m == Message("call", form, ids, 1)
           t == Append(conversation, m)
           N == Len(conversation)
<1>1. /\ pc = "call" /\ pc' = "tools" /\ conversation' = t /\ asked' = ids /\ results' = <<>>
      /\ UNCHANGED <<conf, iteration, attempt, nudged>>
  BY DEF AnswersTools
<1>2. /\ conf \in Configs /\ conversation \in Seq(Messages) /\ iteration \in Nat
      /\ form \in Format
      /\ Ungoogled => form # "google"
  BY ConfigFacts DEF LoopTypes
<1>3. ids \subseteq Nat \X Nat /\ <<iteration, 1>> \in ids /\ \A i \in ids : i[1] = iteration
  <2>1. MaxTools \in Nat
    BY AgentAssumption
  <2> QED
    BY <1>2, <2>1
<1> HIDE DEF ids, form
<1>4. m \in Messages /\ m.kind = "call" /\ m.form = form /\ m.ids = ids
  BY <1>2, <1>3, CallIsMessage
<1> HIDE DEF m
<1>5. /\ t \in Seq(Messages) /\ Len(t) = N + 1 /\ N \in Nat /\ t[N + 1] = m
      /\ \A i \in 1..N : t[i] = conversation[i]
  BY <1>2, <1>4, MessageAppended
<1>6. Well(conversation) => WellUpTo(t, N)
  BY <1>2, <1>4, MessageAppended
<1> HIDE DEF t
<1>7. \A i \in 1..(N + 1) : i \in 1..N \/ i = N + 1
  BY <1>5
<1>8. LoopTypes'
  BY <1>1, <1>3, <1>5 DEF LoopTypes
<1>9. AgentsLoop'
  <2>1. PromptFirst(conversation, conf) => PromptFirst(t, conf)
    <3>1. 1 \in 1..N => 1 \in 1..(N + 1)
      BY <1>5
    <3>2. PromptFirst(conversation, conf) => 1 \in 1..N
      BY DEF PromptFirst
    <3> QED
      BY <1>4, <1>5, <1>7, <3>1, <3>2 DEF PromptFirst
  <2> QED
    BY <1>1, <2>1 DEF AgentsLoop
<1>10. PairsInv'
  <2>1. ASSUME Recognised PROVE AwaitsResults(conversation)'
    <3>1. WellUpTo(t, N)
      BY <1>1, <1>6, <2>1 DEF PairsInv
    <3>2. N + 1 \in 1..(N + 1) /\ N + 1 - 1 = N
      BY <1>5
    <3>3. ResultIds' = {}
      BY <1>1 DEF ResultIds
    <3>4. FormatOf(ProviderOf(attempt))' = form
      BY <1>1 DEF form, FormatOf, ProviderOf
    <3>5. Len(t) = N + 1 /\ t[Len(t)] = m
      BY <1>5
    <3> QED
      BY <1>1, <1>3, <1>4, <3>1, <3>2, <3>3, <3>4, <3>5 DEF AwaitsResults
  <2> QED
    BY <1>1, <2>1 DEF PairsInv, Recognised, Ungoogled
<1>11. RecentInv'
  <2>1. Ungoogled => NoGoogle(t)
    BY <1>2, <1>4, <1>5, <1>7 DEF NoGoogle, RecentInv
  <2> QED
    BY <1>1, <2>1 DEF RecentInv, Ungoogled
<1> QED
  BY <1>8, <1>9, <1>10, <1>11

\* The next tool is one that was asked for.
LEMMA NextIsAsked ==
  ASSUME asked \in SUBSET (Nat \X Nat), asked # {}
  PROVE  NextTool \in asked
<1> DEFINE S == {t[2] : t \in asked}
<1>1. S \in SUBSET Nat /\ S # {}
  OBVIOUS
<1> HIDE DEF S
<1>2. PICK x \in S : \A y \in S : x <= y
  BY <1>1, LeastNumber
<1>3. PICK t \in asked : x = t[2]
  BY DEF S
<1>4. \A u \in asked : t[2] <= u[2]
  BY <1>2, <1>3 DEF S
<1> QED
  BY <1>4 DEF NextTool

\* A tool moves from those asked for to the results.
LEMMA ExecutesTool ==
  ASSUME AgentInv, NEW size \in Sizes, ExecuteTool(size), UNCHANGED phase
  PROVE  AgentInv'
<1> USE DEF AgentInv
<1> DEFINE r == [id |-> NextTool, size |-> size]
           n == Len(results)
<1>1. /\ pc = "tools" /\ pc' = "tools" /\ asked # {}
      /\ results' = Append(results, r) /\ asked' = asked \ {NextTool}
      /\ UNCHANGED <<conf, conversation, iteration, attempt, nudged>>
  BY DEF ExecuteTool
<1>2. asked \in SUBSET (Nat \X Nat) /\ results \in Seq(Results) /\ size \in Nat
  BY AgentAssumption DEF LoopTypes
<1>3. NextTool \in asked /\ NextTool \in Nat \X Nat
  BY <1>1, <1>2, NextIsAsked
<1>4. r \in Results /\ r.id = NextTool
  BY <1>2, <1>3 DEF Results
<1> HIDE DEF r
<1>5. /\ results' \in Seq(Results) /\ Len(results') = n + 1 /\ n \in Nat
      /\ results'[n + 1] = r
      /\ \A k \in 1..n : results'[k] = results[k]
  BY <1>1, <1>2, <1>4
<1>6. asked' \union ResultIds' = asked \union ResultIds
  <2>1. ASSUME NEW k \in 1..(n + 1) PROVE results'[k].id \in ResultIds \union {NextTool}
    <3>1. k \in 1..n \/ k = n + 1
      BY <1>5
    <3> QED
      BY <1>4, <1>5, <3>1 DEF ResultIds
  <2>2. \A k \in 1..n : k \in 1..(n + 1)
    BY <1>5
  <2>3. n + 1 \in 1..(n + 1)
    BY <1>5
  <2>4. ResultIds' = {results'[k].id : k \in 1..(n + 1)}
    BY <1>5 DEF ResultIds
  <2>5. \A k \in 1..n : results[k].id \in ResultIds'
    BY <1>5, <2>2, <2>4
  <2>6. NextTool \in ResultIds'
    BY <1>4, <1>5, <2>3, <2>4
  <2>7. ResultIds' = ResultIds \union {NextTool}
    BY <2>1, <2>4, <2>5, <2>6 DEF ResultIds
  <2> QED
    BY <1>1, <1>3, <2>7
<1>7. LoopTypes'
  BY <1>1, <1>2, <1>5 DEF LoopTypes
<1>8. AgentsLoop'
  BY <1>1 DEF AgentsLoop
<1>9. PairsInv'
  <2>1. ASSUME Recognised PROVE AwaitsResults(conversation)'
    <3>1. AwaitsResults(conversation)
      BY <1>1, <2>1 DEF PairsInv
    <3>2. FormatOf(ProviderOf(attempt))' = FormatOf(ProviderOf(attempt))
      BY <1>1 DEF FormatOf, ProviderOf
    <3> QED
      BY <1>1, <1>6, <3>1, <3>2 DEF AwaitsResults
  <2> QED
    BY <1>1, <2>1 DEF PairsInv, Recognised, Ungoogled
<1>10. RecentInv'
  BY <1>1 DEF RecentInv, Ungoogled
<1> QED
  BY <1>7, <1>8, <1>9, <1>10

\* All results follow their call.
LEMMA AppendsResults ==
  ASSUME AgentInv, AppendResults, UNCHANGED phase
  PROVE  AgentInv'
<1> USE DEF AgentInv
<1> DEFINE form == FormatOf(ProviderOf(attempt))
           R == ResultMessages(form)
           s == conversation
           n == Len(s)
           t == s \o R
<1>1. /\ pc = "tools" /\ pc' = "loop" /\ asked = {} /\ conversation' = t /\ results' = <<>>
      /\ iteration' = iteration + 1 /\ UNCHANGED <<conf, asked, nudged>>
  BY DEF AppendResults
<1>2. /\ conf \in Configs /\ s \in Seq(Messages) /\ iteration \in Nat
      /\ results \in Seq(Results) /\ form \in Format /\ n \in Nat /\ conf.kind = "agent"
      /\ PromptFirst(s, conf)
  BY <1>1, ConfigFacts DEF LoopTypes, AgentsLoop
<1>3. Ungoogled => form # "google"
  BY <1>2, ConfigFacts
<1> HIDE DEF form
<1>4. /\ R \in Seq(Messages) /\ UNION {R[k].ids : k \in 1..Len(R)} = ResultIds
      /\ \A k \in 1..Len(R) : R[k].kind = "results" /\ R[k].form = form
  BY <1>2, ResultMessagesAre
<1> HIDE DEF R
<1>5. /\ t \in Seq(Messages) /\ Len(t) = n + Len(R) /\ Len(R) \in Nat
      /\ \A i \in 1..n : t[i] = s[i]
      /\ \A k \in 1..Len(R) : t[n + k] = R[k]
  BY <1>2, <1>4
<1>6. \A i \in 1..Len(t) : i \in 1..n \/ \E k \in 1..Len(R) : t[i] = R[k]
  <2>1. ASSUME NEW i \in 1..Len(t), i \notin 1..n PROVE \E k \in 1..Len(R) : t[i] = R[k]
    <3>1. i - n \in 1..Len(R) /\ i = n + (i - n)
      BY <1>2, <1>5, <2>1
    <3> QED
      BY <1>5, <3>1
  <2> QED
    BY <2>1
<1>7. ASSUME Recognised
      PROVE  Well(t) /\ EndsAnswered(t, iteration)
  <2>1. AwaitsResults(s)
    BY <1>1, <1>7 DEF PairsInv
  <2>2. /\ n \in 1..n /\ WellUpTo(s, n - 1) /\ s[n].kind = "call" /\ s[n].form = form
        /\ s[n].ids = ResultIds /\ s[n].ids # {} /\ \A i \in s[n].ids : i[1] = iteration
    BY <1>1, <2>1 DEF AwaitsResults, form
  <2>3. AnswersLast(R, s)
    BY <1>4, <2>2 DEF AnswersLast
  <2>4. /\ Well(t) /\ n < Len(t)
        /\ \A i \in 1..Len(t) : i \in 1..n \/ (t[i].kind = "results" /\ t[i].form = s[n].form)
    BY <1>2, <2>2, <2>3, ResultsAppended
  <2>5. n \in 1..Len(t) /\ t[n] = s[n]
    BY <1>2, <1>5, <2>2, <2>4
  <2>6. \A j \in (n + 1)..Len(t) : j \in 1..Len(t) /\ j \notin 1..n
    BY <1>2, <1>5
  <2>7. \A j \in (n + 1)..Len(t) : t[j].kind = "results"
    BY <2>4, <2>6
  <2> HIDE DEF t, n
  <2>8. EndsAnswered(t, iteration)
    BY <2>2, <2>4, <2>5, <2>7 DEF EndsAnswered
  <2> QED
    BY <2>4, <2>8
<1> HIDE DEF t
<1>8. Ungoogled => NoGoogle(t)
  BY <1>3, <1>4, <1>5, <1>6 DEF NoGoogle, RecentInv
<1>9. PromptFirst(t, conf)
  <2>1. /\ 1 \in 1..n /\ s[1] = SystemPrompt(conf)
        /\ \A i \in 1..n : i # 1 => s[i].kind # "system"
    BY <1>2 DEF PromptFirst
  <2>2. 1 \in 1..Len(t) /\ t[1] = SystemPrompt(conf)
    BY <1>2, <1>5, <2>1
  <2>3. \A i \in 1..Len(t) : i # 1 => t[i].kind # "system"
    BY <1>4, <1>5, <1>6, <2>1
  <2> QED
    BY <2>2, <2>3 DEF PromptFirst
<1>10. LoopTypes'
  BY <1>1, <1>2, <1>5 DEF LoopTypes
<1>11. AgentsLoop'
  BY <1>1, <1>9 DEF AgentsLoop
<1>12. PairsInv'
  BY <1>1, <1>7 DEF PairsInv, Recognised, Ungoogled
<1>13. RecentInv'
  <2>1. iteration' - 1 = iteration
    BY <1>1, <1>2
  <2> QED
    BY <1>1, <1>7, <1>8, <2>1 DEF RecentInv, Ungoogled, Recognised
<1> QED
  BY <1>10, <1>11, <1>12, <1>13
-----------------------------------------------------------------------------
(* The invariant, and what follows from it. *)

\* All actions of the loop.
LEMMA LoopPreservesAgents ==
  ASSUME AgentInv, LoopNext, UNCHANGED phase
  PROVE  AgentInv'
<1>1. CASE BeginIteration
  BY <1>1, BeginsIteration
<1>2. CASE CallFails
  BY <1>2, Settles DEF CallFails
<1>3. CASE AnswersText
  BY <1>3, Settles DEF AnswersText, Finished
<1>4. CASE AnswersEmpty
  BY <1>4, AnsweredEmpty
<1>5. CASE \E n \in 1..MaxTools : AnswersTools(n)
  BY <1>5, AnsweredTools
<1>6. CASE \E size \in Sizes : ExecuteTool(size)
  BY <1>6, ExecutesTool
<1>7. CASE AppendResults
  BY <1>7, AppendsResults
<1>8. CASE AskForSynthesis
  BY <1>8, Synthesizes
<1>9. CASE FinalAnswer
  BY <1>9, Settles DEF FinalAnswer
<1>10. CASE StreamCompletes \/ StreamBreaks
  BY <1>10, Settles DEF StreamCompletes, StreamBreaks
<1>11. CASE \E content \in {"empty", "some"} : SingleAnswer(content)
  BY <1>11, Settles DEF SingleAnswer
<1> QED
  BY <1>1, <1>2, <1>3, <1>4, <1>5, <1>6, <1>7, <1>8, <1>9, <1>10, <1>11 DEF LoopNext

\* The invariant holds when an agent starts, and every step keeps it.
LEMMA AgentsInitially == Init => AgentInv
<1> SUFFICES ASSUME Init PROVE AgentInv
  OBVIOUS
<1>1. /\ conf \in Configs /\ pc = (IF conf.kind = "agent" THEN "loop" ELSE "single")
      /\ conversation = Question(conf) /\ asked = {} /\ results = <<>>
      /\ iteration = 0 /\ nudged = 0
      /\ phase \in {"begin", "deduction", "induction"} => conf \in DreamConfigs
  BY DEF Init, LoopInit
<1>2. /\ conversation \in Seq(Messages) /\ Well(conversation) /\ NoGoogle(conversation)
      /\ conf.kind = "agent" => PromptFirst(conversation, conf)
  BY <1>1, ConfigFacts, QuestionIs
<1>3. LoopTypes /\ AgentsLoop
  BY <1>1, <1>2 DEF LoopTypes, AgentsLoop
<1>4. PairsInv /\ RecentInv
  BY <1>1, <1>2 DEF PairsInv, RecentInv
<1> QED
  BY <1>3, <1>4 DEF AgentInv

LEMMA AgentsPreserved == AgentInv /\ [Next]_vars => AgentInv'
<1> SUFFICES ASSUME AgentInv, [Next]_vars
             PROVE  AgentInv'
  OBVIOUS
<1>1. CASE LoopStep
  BY <1>1, LoopPreservesAgents DEF LoopStep, runVars
<1>2. CASE DeductionEnds
  <2>1. /\ pc' = "loop" /\ conversation' = Question(conf) /\ asked' = {} /\ results' = <<>>
        /\ iteration' = 0 /\ nudged' = 0 /\ conf' = conf /\ conf \in DreamConfigs
    BY <1>2 DEF DeductionEnds, StartLoop, AgentInv, AgentsLoop
  <2>2. conf \in Configs /\ conf.kind = "agent" /\ conf.system \in Nat
    BY <2>1, ConfigFacts DEF AgentInv, LoopTypes
  <2>3. /\ conversation' \in Seq(Messages) /\ Well(conversation') /\ NoGoogle(conversation')
        /\ PromptFirst(conversation', conf)
    BY <2>1, <2>2, QuestionIs
  <2>4. LoopTypes' /\ AgentsLoop'
    BY <2>1, <2>2, <2>3 DEF LoopTypes, AgentsLoop
  <2>5. PairsInv' /\ RecentInv'
    BY <2>1, <2>3 DEF PairsInv, RecentInv
  <2> QED
    BY <2>4, <2>5 DEF AgentInv
<1>3. ASSUME UNCHANGED loopVars,
             phase' = "ended" \/ (phase = "begin" /\ phase' = "deduction") \/ phase' = phase
      PROVE  AgentInv'
  <2>1. UNCHANGED <<conf, pc, conversation, iteration, attempt, asked, results, nudged>>
    BY <1>3 DEF loopVars
  <2>2. LoopTypes' /\ RecentInv'
    BY <2>1 DEF AgentInv, LoopTypes, RecentInv, Ungoogled
  <2>3. AgentsLoop'
    BY <1>3, <2>1 DEF AgentInv, AgentsLoop
  <2>4. PairsInv'
    BY <2>1 DEF AgentInv, PairsInv, Recognised, Ungoogled, AwaitsResults, ResultIds, FormatOf,
                ProviderOf
  <2> QED
    BY <2>2, <2>3, <2>4 DEF AgentInv
<1>4. CASE SkipDream \/ BeginDream \/ SpecialistRaises \/ QueryRaises \/ Raises
  BY <1>3, <1>4 DEF SkipDream, BeginDream, SpecialistRaises, QueryRaises, Raises
<1>5. CASE InductionEnds \/ QuestionEnds \/ DerivationEnds \/ SummaryEnds
  BY <1>3, <1>5 DEF InductionEnds, QuestionEnds, DerivationEnds, SummaryEnds
<1>6. CASE UNCHANGED vars
  BY <1>3, <1>6 DEF vars, runVars
<1> QED
  BY <1>1, <1>2, <1>4, <1>5, <1>6 DEF Next

\* However many tools were called, failed and were retried with another provider, and
\* whatever truncation removed, the model gets every call with all its results and no
\* result without its call (truncate_messages_to_fit, _append_tool_results and the
\* conversion of messages for google).
THEOREM PairsAreKept == Spec => []PairsKept
<1>1. AgentInv => PairsKept
  <2> SUFFICES ASSUME AgentInv, pc \in {"call", "final", "stream"}, Recognised
               PROVE  Paired(Prompted)
    BY DEF PairsKept, Recognised, Ungoogled
  <2>1. /\ conversation \in Seq(Messages) /\ Well(conversation)
        /\ PromptFirst(conversation, conf)
    BY DEF AgentInv, LoopTypes, PairsInv, AgentsLoop
  <2>2. Paired(conversation)
    BY <2>1, WellIsPaired
  <2>3. Paired(GoogleContents)
    BY <2>1, ContentsArePaired
  <2>4. Paired(<<Head(conversation)>>)
    <3> DEFINE h == <<Head(conversation)>>
    <3>1. Head(conversation) = SystemPrompt(conf) /\ conf.system \in Nat
      BY <2>1, ConfigFacts DEF PromptFirst, AgentInv, LoopTypes
    <3>2. DOMAIN h = 1..1 /\ h[1] = SystemPrompt(conf) /\ \A i \in 1..1 : i = 1
      BY <3>1
    <3>3. \A i \in DOMAIN h : h[i].kind = "system"
      BY <3>1, <3>2, TextsAre
    <3> HIDE DEF h
    <3>4. Paired(h)
      BY <3>3 DEF Paired
    <3> QED
      BY <3>4 DEF h
  <2> QED
    BY <2>2, <2>3, <2>4 DEF Prompted, StreamPrompt
<1> QED
  BY <1>1, AgentsInitially, AgentsPreserved, PTL DEF Spec

\* Every call of the loop fits the input limit unless the system prompt exceeds it or a
\* single unit is left, and the results of the tools executed last, with their call, are
\* in it (truncate_messages_to_fit).
THEOREM ContextsAreRecent == Spec => []ContextIsRecent
<1>1. AgentInv => ContextIsRecent
  BY DEF AgentInv, RecentInv, Ungoogled, ContextIsRecent, FitsLimit, ResultsReachModel, Fits,
         Reaches
<1> QED
  BY <1>1, AgentsInitially, AgentsPreserved, PTL DEF Spec
-----------------------------------------------------------------------------
(* Scheduling (DreamScheduler). *)

LEMMA SchedulerConstants ==
  /\ HomeOf \in [Saver -> Process] /\ TargetOf \in [Caller -> Key]
  /\ Timer \subseteq Nat /\ Timer \intersect Caller = {}
  /\ DocumentThreshold \in Nat \ {0} /\ MaxDocuments \in Nat /\ MaxFaults \in Nat
BY DreamsAssumed DEF Timers!DreamAssumption

\* A coroutine that runs is the coroutine of some collection's timer.
Alive == \A t \in Timer : at[t] # "none" => timer[t] \in Timers!Task

TimerInv == Timers!TypeOK /\ Alive /\ Timers!DreamsAreSingle

\* Min finds the smallest of some numbers.
LEMMA MinOfNumbers ==
  ASSUME NEW S \in SUBSET Nat, S # {}
  PROVE  Timers!Min(S) \in S
BY LeastNumber DEF Timers!Min

LEMMA UnusedIsFree ==
  ASSUME NEW s \in Saver, Timers!Unused(s) # {}
  PROVE  Timers!Min(Timers!Unused(s)) \in Timers!Unused(s) /\ Timers!Min(Timers!Unused(s)) \in Timer
<1>1. Timers!Unused(s) \subseteq Timer /\ Timer \subseteq Nat
  BY SchedulerConstants DEF Timers!Unused
<1>2. QED
  BY <1>1, MinOfNumbers

\* The states a saver can go to.
LEMMA SaverStates ==
  /\ Timers!Idle \in {Timers!Idle} \union Timers!Checking \union Timers!Cancelling
  /\ \A k \in Key, m \in Timers!Metadata : [step |-> "checking", key |-> k, seen |-> m] \in Timers!Checking
  /\ \A k \in Key, t \in Timer : [step |-> "cancelling", key |-> k, old |-> t] \in Timers!Cancelling
  /\ Timers!Idle.step = "idle" /\ (\A x \in Timers!Checking : x.step = "checking" /\ x.key \in Key)
  /\ \A x \in Timers!Cancelling : x.step = "cancelling" /\ x.key \in Key /\ x.old \in Timer
BY DEF Timers!Idle, Timers!Checking, Timers!Cancelling

\* What the actions of savers may take for granted.
LEMMA SaverFacts ==
  ASSUME Timers!TypeOK, NEW s \in Saver
  PROVE  /\ saver[s].step \in {"idle", "checking", "cancelling"}
         /\ saver[s].step = "checking" => saver[s].key \in Key
         /\ saver[s].step = "cancelling" => saver[s].key \in Key /\ saver[s].old \in Timer
         /\ saver[s] = Timers!Idle => saver[s].step = "idle"
         /\ HomeOf[s] \in Process
BY SaverStates, SchedulerConstants DEF Timers!TypeOK

\* A saver gets on, and no coroutine moves.
LEMMA SaverMoves ==
  ASSUME TimerInv, NEW s \in Saver, NEW x \in {Timers!Idle} \union Timers!Checking,
         saver' = [saver EXCEPT ![s] = x],
         documents' \in [Key -> 0..MaxDocuments],
         UNCHANGED <<metadata, rows, leased, pending_dreams, timer, stopping, at, count, faults>>
  PROVE  TimerInv'
<1>1. x.step # "cancelling" /\ x \in {Timers!Idle} \union Timers!Checking \union Timers!Cancelling
  BY SaverStates
<1>2. saver' \in [Saver -> {Timers!Idle} \union Timers!Checking \union Timers!Cancelling]
  BY <1>1 DEF TimerInv, Timers!TypeOK
<1>3. \A r \in Saver : saver'[r].step = "cancelling" => saver[r].step = "cancelling" /\ saver'[r] = saver[r]
  BY <1>1 DEF TimerInv, Timers!TypeOK
<1>4. Timers!TypeOK'
  BY <1>2, <1>3 DEF TimerInv, Timers!TypeOK
<1>5. Alive' /\ Timers!DreamsAreSingle'
  BY DEF TimerInv, Alive, Timers!DreamsAreSingle, Timers!OneDreamRow, Timers!EntriesAreTimers
<1>6. QED
  BY <1>4, <1>5 DEF TimerInv

\* A new timer takes a free identity, to which no entry leads.
LEMMA CreateStep ==
  ASSUME TimerInv, NEW s \in Saver, NEW t \in Timers!Unused(s), Timers!Create(s, t), saver[s].key \in Key,
         UNCHANGED <<Timers!dbVars, stopping, count, faults>>
  PROVE  TimerInv'
<1> DEFINE k == saver[s].key
           p == HomeOf[s]
           new == [home |-> p, key |-> k, cancelled |-> FALSE]
<1>1. t \in Timer /\ at[t] = "none" /\ k \in Key /\ p \in Process /\ new \in Timers!Task
      /\ new.home = p /\ new.key = k
  BY SaverFacts DEF TimerInv, Timers!Unused, Timers!Task
<1>2. /\ timer' = [timer EXCEPT ![t] = new]
      /\ pending_dreams' = [pending_dreams EXCEPT ![p][k] = t]
      /\ at' = [at EXCEPT ![t] = "sleeping"]
      /\ saver' = [saver EXCEPT ![s] = Timers!Idle]
  BY DEF Timers!Create
<1> HIDE DEF new, k, p
<1>3. /\ timer' \in [Timer -> {Timers!NoTimer} \union Timers!Task] /\ timer'[t] = new
      /\ \A u \in Timer \ {t} : timer'[u] = timer[u]
  BY <1>1, <1>2 DEF TimerInv, Timers!TypeOK
<1>4. /\ pending_dreams' \in [Process -> [Key -> Timer \union {Timers!None}]] /\ pending_dreams'[p][k] = t
      /\ \A q \in Process, l \in Key : q # p \/ l # k => pending_dreams'[q][l] = pending_dreams[q][l]
  BY <1>1, <1>2 DEF TimerInv, Timers!TypeOK
<1>5. /\ at' \in [Timers!Enqueuer -> {"none", "finished"} \union Timers!Sleeping \union Timers!Enqueuing]
      /\ at'[t] = "sleeping" /\ \A e \in Timers!Enqueuer \ {t} : at'[e] = at[e]
  BY <1>1, <1>2 DEF TimerInv, Timers!TypeOK, Timers!Enqueuer, Timers!Sleeping
<1>6. /\ saver' \in [Saver -> {Timers!Idle} \union Timers!Checking \union Timers!Cancelling] /\ saver'[s].step = "idle"
      /\ \A r \in Saver \ {s} : saver'[r] = saver[r]
  BY <1>2, SaverStates DEF TimerInv, Timers!TypeOK
<1>7. \A r \in Saver : saver'[r].step = "cancelling" =>
        timer'[saver'[r].old].cancelled \/ timer'[saver'[r].old] = Timers!NoTimer
  <2> SUFFICES ASSUME NEW r \in Saver, saver'[r].step = "cancelling"
               PROVE  timer'[saver'[r].old].cancelled \/ timer'[saver'[r].old] = Timers!NoTimer
    OBVIOUS
  <2>1. r # s /\ saver'[r] = saver[r] /\ saver[r].old # t /\ saver[r].old \in Timer
    BY <1>6, SaverFacts DEF Timers!Unused, TimerInv
  <2>2. QED
    BY <1>3, <2>1 DEF TimerInv, Timers!TypeOK
<1>8. Timers!TypeOK'
  BY <1>3, <1>4, <1>5, <1>6, <1>7 DEF TimerInv, Timers!TypeOK, Timers!dbVars
<1>9. Alive'
  BY <1>1, <1>3, <1>5 DEF TimerInv, Alive, Timers!Enqueuer
<1>10. Timers!EntriesAreTimers'
  <2> SUFFICES ASSUME NEW q \in Process, NEW l \in Key, pending_dreams'[q][l] # Timers!None
               PROVE  LET u == pending_dreams'[q][l] IN
                        at'[u] # "none" /\ timer'[u].home = q /\ timer'[u].key = l
    BY DEF Timers!EntriesAreTimers
  <2>1. CASE q = p /\ l = k
    BY <1>1, <1>3, <1>4, <1>5, <2>1
  <2>2. CASE q # p \/ l # k
    <3> DEFINE u == pending_dreams[q][l]
    <3>1. pending_dreams'[q][l] = u /\ u \in Timer /\ at[u] # "none" /\ timer[u].home = q /\ timer[u].key = l
      BY <1>4, <2>2 DEF TimerInv, Timers!TypeOK, Timers!DreamsAreSingle,
             Timers!EntriesAreTimers
    <3>2. u # t
      BY <1>1, <3>1
    <3>3. QED
      BY <1>3, <1>5, <3>1, <3>2 DEF Timers!Enqueuer
  <2>3. QED
    BY <2>1, <2>2
<1>11. Timers!OneDreamRow'
  BY DEF TimerInv, Timers!DreamsAreSingle, Timers!OneDreamRow, Timers!dbVars
<1>12. QED
  BY <1>8, <1>9, <1>10, <1>11 DEF TimerInv, Timers!DreamsAreSingle

\* Cancelling changes a task's flag, and the entries of no other task.
LEMMA CancelStep ==
  ASSUME TimerInv, NEW s \in Saver, Timers!ScheduleCancels(s)
  PROVE  TimerInv'
<1> DEFINE k == saver[s].key
           p == HomeOf[s]
           old == pending_dreams[p][k]
           x == [step |-> "cancelling", key |-> k, old |-> old]
<1>1. /\ k \in Key /\ p \in Process /\ old \in Timer /\ at[old] # "none" /\ timer[old] \in Timers!Task
      /\ pending_dreams' = [pending_dreams EXCEPT ![p][k] = Timers!None]
      /\ timer' = [timer EXCEPT ![old] = Timers!CancelledTask(old)]
      /\ saver' = [saver EXCEPT ![s] = x]
      /\ UNCHANGED <<Timers!dbVars, stopping, at, count, faults>>
  BY SaverFacts DEF TimerInv, Timers!TypeOK, Alive, Timers!DreamsAreSingle,
         Timers!EntriesAreTimers, Timers!ScheduleCancels
<1>2. /\ Timers!CancelledTask(old) \in Timers!Task /\ Timers!CancelledTask(old).cancelled
      /\ Timers!CancelledTask(old).home = timer[old].home /\ Timers!CancelledTask(old).key = timer[old].key
  BY <1>1 DEF Timers!CancelledTask, Timers!Task
<1>3. x \in Timers!Cancelling /\ x.old = old
  BY <1>1, SaverStates
<1> HIDE DEF k, p, old, x
<1>4. /\ timer' \in [Timer -> {Timers!NoTimer} \union Timers!Task] /\ timer'[old].cancelled
      /\ \A u \in Timer : timer'[u].home = timer[u].home /\ timer'[u].key = timer[u].key
      /\ \A u \in Timer : u # old => timer'[u] = timer[u]
      /\ timer'[old] \in Timers!Task
  BY <1>1, <1>2 DEF TimerInv, Timers!TypeOK
<1>5. /\ pending_dreams' \in [Process -> [Key -> Timer \union {Timers!None}]]
      /\ \A q \in Process, l \in Key : \/ pending_dreams'[q][l] = Timers!None
                                       \/ pending_dreams'[q][l] = pending_dreams[q][l]
  BY <1>1 DEF TimerInv, Timers!TypeOK
<1>6. /\ saver' \in [Saver -> {Timers!Idle} \union Timers!Checking \union Timers!Cancelling]
      /\ saver'[s] = x /\ \A r \in Saver \ {s} : saver'[r] = saver[r]
  BY <1>1, <1>3 DEF TimerInv, Timers!TypeOK
<1>7. \A r \in Saver : saver'[r].step = "cancelling" =>
        timer'[saver'[r].old].cancelled \/ timer'[saver'[r].old] = Timers!NoTimer
  <2> SUFFICES ASSUME NEW r \in Saver, saver'[r].step = "cancelling"
               PROVE  timer'[saver'[r].old].cancelled \/ timer'[saver'[r].old] = Timers!NoTimer
    OBVIOUS
  <2>1. CASE saver'[r].old = old
    BY <1>4, <2>1
  <2>2. CASE saver'[r].old # old
    <3>1. saver'[r] = saver[r] /\ saver[r].old \in Timer
      BY <1>3, <1>6, <2>2, SaverFacts DEF TimerInv
    <3>2. QED
      BY <1>4, <2>2, <3>1 DEF TimerInv, Timers!TypeOK
  <2>3. QED
    BY <2>1, <2>2
<1>8. Timers!TypeOK'
  BY <1>1, <1>4, <1>5, <1>6, <1>7 DEF TimerInv, Timers!TypeOK, Timers!dbVars
<1>9. Alive'
  BY <1>1, <1>4 DEF TimerInv, Alive
<1>10. Timers!EntriesAreTimers'
  BY <1>1, <1>4, <1>5 DEF TimerInv, Timers!TypeOK, Timers!DreamsAreSingle,
         Timers!EntriesAreTimers
<1>11. Timers!OneDreamRow'
  BY <1>1 DEF TimerInv, Timers!DreamsAreSingle, Timers!OneDreamRow, Timers!dbVars
<1>12. QED
  BY <1>8, <1>9, <1>10, <1>11 DEF TimerInv, Timers!DreamsAreSingle

LEMMA SaverSteps ==
  ASSUME TimerInv, NEW s \in Saver,
         Timers!SaverStep(s) \/ Timers!SaveUnchecked(s) \/ \E k \in Key : Timers!SaveDocuments(s, k)
  PROVE  TimerInv'
<1>1. CASE Timers!SaveNotDue(s) \/ Timers!SaveUnchecked(s)
  BY <1>1, SaverMoves DEF Timers!SaveNotDue, Timers!SaveUnchecked, Timers!dbVars, TimerInv,
         Timers!TypeOK
<1>2. ASSUME NEW k \in Key, Timers!SaveDocuments(s, k)
      PROVE  TimerInv'
  <2>1. [step |-> "checking", key |-> k, seen |-> metadata[k]] \in Timers!Checking
    BY SaverStates DEF TimerInv, Timers!TypeOK
  <2>2. documents' \in [Key -> 0..MaxDocuments]
    BY <1>2, SchedulerConstants DEF Timers!SaveDocuments, TimerInv, Timers!TypeOK
  <2>3. QED
    BY <1>2, <2>1, <2>2, SaverMoves DEF Timers!SaveDocuments
<1>3. CASE Timers!ScheduleAtOnce(s) \/ Timers!ScheduleResumes(s)
  BY <1>3, UnusedIsFree, SaverFacts, CreateStep DEF Timers!ScheduleAtOnce,
         Timers!ScheduleResumes, Timers!Reschedule, TimerInv
<1>4. CASE Timers!ScheduleCancels(s)
  BY <1>4, CancelStep
<1>5. QED
  BY <1>1, <1>2, <1>3, <1>4 DEF Timers!SaverStep

\* Coroutines: each stays the one it is, and a row is inserted where there is none.
LEMMA CoroutineMoves ==
  ASSUME TimerInv, UNCHANGED Timers!memory,
         at' \in [Timers!Enqueuer -> {"none", "finished"} \union Timers!Sleeping \union Timers!Enqueuing],
         \A t \in Timer : at'[t] = "none" <=> at[t] = "none",
         count' \in [Timers!Enqueuer -> 0..MaxDocuments],
         documents' = documents, leased' \subseteq Key,
         metadata' \in [Key -> Timers!Metadata],
         rows' \in [Key -> Nat], \A k \in Key : rows'[k] <= 1,
         faults' \in 0..MaxFaults
  PROVE  TimerInv'
<1>1. Timers!TypeOK'
  BY DEF TimerInv, Timers!TypeOK, Timers!memory
<1>2. Alive'
  BY DEF TimerInv, Alive, Timers!memory
<1>3. Timers!EntriesAreTimers'
  BY DEF TimerInv, Timers!TypeOK, Timers!DreamsAreSingle, Timers!EntriesAreTimers,
         Timers!memory
<1>4. Timers!OneDreamRow'
  BY DEF Timers!OneDreamRow
<1>5. QED
  BY <1>1, <1>2, <1>3, <1>4 DEF TimerInv, Timers!DreamsAreSingle

\* The types that a move of one coroutine keeps.
LEMMA GotoType ==
  ASSUME Timers!TypeOK, NEW e \in Timers!Enqueuer, NEW l \in {"none", "finished"} \union Timers!Sleeping \union Timers!Enqueuing,
         Timers!Goto(e, l), e \in Timer => at[e] # "none" /\ l # "none"
  PROVE  /\ at' \in [Timers!Enqueuer -> {"none", "finished"} \union Timers!Sleeping \union Timers!Enqueuing]
         /\ \A t \in Timer : at'[t] = "none" <=> at[t] = "none"
         /\ count' \in [Timers!Enqueuer -> 0..MaxDocuments]
BY SchedulerConstants DEF Timers!TypeOK, Timers!Goto, Timers!Enqueuer

LEMMA DoneType ==
  ASSUME NEW e \in Timers!Enqueuer
  PROVE  Timers!Done(e) \in {"none", "finished"} /\ (e \in Timer => Timers!Done(e) = "finished")
BY DEF Timers!Done

\* The collection that a coroutine dreams of, once it enqueues.
LEMMA TargetIsKey ==
  ASSUME TimerInv, NEW e \in Timers!Enqueuer, at[e] # "none"
  PROVE  Timers!Target(e) \in Key
BY SchedulerConstants DEF TimerInv, Alive, Timers!Task, Timers!Target, Timers!Enqueuer

\* The commit of a dream leaves one row at most.
LEMMA InsertType ==
  ASSUME TimerInv, NEW e \in Timers!Enqueuer, at[e] # "none",
         UNCHANGED Timers!dbVars \/ (Timers!Insertable(Timers!Target(e)) /\ Timers!Insert(e))
  PROVE  /\ documents' = documents /\ leased' \subseteq Key /\ metadata' \in [Key -> Timers!Metadata]
         /\ rows' \in [Key -> Nat] /\ \A k \in Key : rows'[k] <= 1
<1>1. CASE UNCHANGED Timers!dbVars
  BY <1>1 DEF Timers!dbVars, TimerInv, Timers!TypeOK, Timers!DreamsAreSingle,
         Timers!OneDreamRow
<1>2. CASE Timers!Insertable(Timers!Target(e)) /\ Timers!Insert(e)
  <2>1. [count |-> count[e], fresh |-> TRUE] \in Timers!Metadata
    BY DEF TimerInv, Timers!TypeOK, Timers!Metadata
  <2>2. rows[Timers!Target(e)] = 0 /\ Timers!Target(e) \in Key
    BY <1>2, TargetIsKey DEF Timers!Insertable
  <2>3. QED
    BY <1>2, <2>1, <2>2 DEF Timers!Insert, TimerInv, Timers!TypeOK, Timers!DreamsAreSingle,
           Timers!OneDreamRow
<1>3. QED
  BY <1>1, <1>2

LEMMA CoroutineSteps ==
  ASSUME TimerInv, NEW e \in Timers!Enqueuer,
         \/ Timers!EnqueueStep(e) \/ Timers!EnqueueFails(e)
         \/ (e \in Timer /\ (Timers!Fire(e) \/ Timers!Cancelled(e)))
         \/ (e \in Caller /\ Timers!Call(e))
  PROVE  TimerInv'
<1>1. Timers!TypeOK /\ faults \in 0..MaxFaults /\ MaxFaults \in Nat /\ Timer \intersect Caller = {}
  BY SchedulerConstants DEF TimerInv, Timers!TypeOK
<1>2. ASSUME UNCHANGED <<Timers!memory, faults>>, NEW l \in {"none", "finished"} \union Timers!Sleeping \union Timers!Enqueuing,
             Timers!Goto(e, l), e \in Timer => l # "none", at[e] # "none",
             UNCHANGED Timers!dbVars \/ (Timers!Insertable(Timers!Target(e)) /\ Timers!Insert(e))
      PROVE  TimerInv'
  BY <1>1, <1>2, GotoType, InsertType, CoroutineMoves
<1>3. "row?" \in Timers!Enqueuing /\ "insert" \in Timers!Enqueuing /\ "lease?" \in Timers!Enqueuing
      /\ "none" \notin Timers!Sleeping \union Timers!Enqueuing
  BY DEF Timers!Enqueuing, Timers!Sleeping
<1>4. CASE Timers!CheckInProgress(e)
  BY <1>2, <1>3, <1>4, DoneType DEF Timers!CheckInProgress
<1>5. CASE Timers!CheckPending(e)
  BY <1>2, <1>3, <1>5, DoneType DEF Timers!CheckPending
<1>6. CASE Timers!Enqueue(e)
  BY <1>2, <1>6, DoneType DEF Timers!Enqueue
<1>7. CASE e \in Timer /\ Timers!Cancelled(e)
  BY <1>2, <1>3, <1>7 DEF Timers!Cancelled, Timers!Interruptible
<1>8. CASE Timers!EnqueueFails(e)
  <2>1. at[e] # "none" /\ Timers!Goto(e, Timers!Done(e)) /\ UNCHANGED Timers!memory /\ UNCHANGED Timers!dbVars
    BY <1>3, <1>8 DEF Timers!EnqueueFails
  <2>2. faults' \in 0..MaxFaults
    BY <1>1, <1>8 DEF Timers!EnqueueFails, Timers!Fault
  <2>3. QED
    BY <1>1, <2>1, <2>2, DoneType, GotoType, InsertType, CoroutineMoves
<1>9. ASSUME NEW k \in Key, at' = [at EXCEPT ![e] = "lease?"], count' = [count EXCEPT ![e] = documents[k]],
             e \in Timer => at[e] # "none", UNCHANGED <<Timers!dbVars, Timers!memory, faults>>
      PROVE  TimerInv'
  <2>1. /\ at' \in [Timers!Enqueuer -> {"none", "finished"} \union Timers!Sleeping \union Timers!Enqueuing]
        /\ \A t \in Timer : at'[t] = "none" <=> at[t] = "none"
    BY <1>1, <1>3, <1>9 DEF Timers!TypeOK, Timers!Enqueuer
  <2>2. count' \in [Timers!Enqueuer -> 0..MaxDocuments]
    BY <1>1, <1>9 DEF Timers!TypeOK
  <2>3. /\ documents' = documents /\ leased' \subseteq Key /\ metadata' \in [Key -> Timers!Metadata]
        /\ rows' \in [Key -> Nat] /\ \A l \in Key : rows'[l] <= 1
    BY <1>1, <1>9 DEF Timers!dbVars, Timers!TypeOK, TimerInv, Timers!DreamsAreSingle,
           Timers!OneDreamRow
  <2>4. QED
    BY <1>1, <1>9, <2>1, <2>2, <2>3, CoroutineMoves
<1>10. CASE e \in Timer /\ Timers!Fire(e)
  <2>1. at[e] # "none" /\ timer[e].key \in Key
    BY <1>3, <1>10 DEF Timers!Fire, TimerInv, Alive, Timers!Task
  <2>2. QED
    BY <1>9, <1>10, <2>1 DEF Timers!Fire
<1>11. CASE e \in Caller /\ Timers!Call(e)
  BY <1>1, <1>9, <1>11, SchedulerConstants DEF Timers!Call
<1>12. QED
  BY <1>4, <1>5, <1>6, <1>7, <1>8, <1>10, <1>11 DEF Timers!EnqueueStep

\* A task that ends takes its entry along, and perhaps a younger one's.
LEMMA CallbackStep ==
  ASSUME TimerInv, NEW t \in Timer, Timers!Callback(t)
  PROVE  TimerInv'
<1> DEFINE p == timer[t].home
           k == timer[t].key
<1>1. /\ at[t] = "finished" /\ timer[t] \in Timers!Task /\ p \in Process /\ k \in Key
      /\ pending_dreams' = [pending_dreams EXCEPT ![p][k] = Timers!None]
      /\ timer' = [timer EXCEPT ![t] = Timers!NoTimer]
      /\ at' = [at EXCEPT ![t] = "none"]
      /\ UNCHANGED <<Timers!dbVars, saver, stopping, faults>>
  BY DEF Timers!Callback, Timers!Removed, Timers!Goto, TimerInv, Alive, Timers!Task
<1>2. count' \in [Timers!Enqueuer -> 0..MaxDocuments]
  BY SchedulerConstants DEF Timers!Callback, Timers!Goto, TimerInv, Timers!TypeOK,
         Timers!Enqueuer
<1> HIDE DEF p, k
<1>3. /\ timer' \in [Timer -> {Timers!NoTimer} \union Timers!Task] /\ timer'[t] = Timers!NoTimer
      /\ \A u \in Timer \ {t} : timer'[u] = timer[u]
  BY <1>1 DEF TimerInv, Timers!TypeOK
<1>4. /\ pending_dreams' \in [Process -> [Key -> Timer \union {Timers!None}]] /\ pending_dreams'[p][k] = Timers!None
      /\ \A q \in Process, l \in Key : q # p \/ l # k => pending_dreams'[q][l] = pending_dreams[q][l]
  BY <1>1 DEF TimerInv, Timers!TypeOK
<1>5. /\ at' \in [Timers!Enqueuer -> {"none", "finished"} \union Timers!Sleeping \union Timers!Enqueuing]
      /\ at'[t] = "none" /\ \A e \in Timers!Enqueuer \ {t} : at'[e] = at[e]
  BY <1>1 DEF TimerInv, Timers!TypeOK, Timers!Enqueuer
<1>6. \A r \in Saver : saver'[r].step = "cancelling" =>
        timer'[saver'[r].old].cancelled \/ timer'[saver'[r].old] = Timers!NoTimer
  BY <1>1, <1>3, SaverFacts DEF TimerInv, Timers!TypeOK
<1>7. Timers!TypeOK'
  BY <1>1, <1>2, <1>3, <1>4, <1>5, <1>6 DEF TimerInv, Timers!TypeOK, Timers!dbVars
<1>8. Alive'
  BY <1>3, <1>5 DEF TimerInv, Alive, Timers!Enqueuer
<1>9. Timers!EntriesAreTimers'
  <2> SUFFICES ASSUME NEW q \in Process, NEW l \in Key, pending_dreams'[q][l] # Timers!None
               PROVE  LET u == pending_dreams'[q][l] IN
                        at'[u] # "none" /\ timer'[u].home = q /\ timer'[u].key = l
    BY DEF Timers!EntriesAreTimers
  <2> DEFINE u == pending_dreams[q][l]
  <2>1. q # p \/ l # k
    BY <1>4
  <2>2. pending_dreams'[q][l] = u /\ u \in Timer /\ at[u] # "none" /\ timer[u].home = q /\ timer[u].key = l
    BY <1>4, <2>1 DEF TimerInv, Timers!TypeOK, Timers!DreamsAreSingle, Timers!EntriesAreTimers
  <2>3. u # t
    BY <2>1, <2>2 DEF p, k
  <2>4. QED
    BY <1>3, <1>5, <2>2, <2>3 DEF Timers!Enqueuer
<1>10. Timers!OneDreamRow'
  BY <1>1 DEF TimerInv, Timers!DreamsAreSingle, Timers!OneDreamRow, Timers!dbVars
<1>11. QED
  BY <1>7, <1>8, <1>9, <1>10 DEF TimerInv, Timers!DreamsAreSingle

\* Leases, rows and metadata of the queue's side.
LEMMA QueueSteps ==
  ASSUME TimerInv, NEW k \in Key, Timers!Claim(k) \/ Timers!Dream(k) \/ Timers!Release(k) \/ Timers!Age(k)
  PROVE  TimerInv'
<1>1. rows' \in [Key -> Nat] /\ \A l \in Key : rows'[l] <= 1
  BY DEF TimerInv, Timers!TypeOK, Timers!DreamsAreSingle, Timers!OneDreamRow, Timers!Claim,
         Timers!Dream, Timers!Release, Timers!Age
<1>2. metadata' \in [Key -> Timers!Metadata]
  <2>1. \A m \in Timers!Metadata : [m EXCEPT !.fresh = FALSE] \in Timers!Metadata
    BY DEF Timers!Metadata
  <2>2. QED
    BY <2>1 DEF TimerInv, Timers!TypeOK, Timers!Claim, Timers!Dream, Timers!Release,
           Timers!Age
<1>3. leased' \subseteq Key /\ UNCHANGED <<documents, Timers!memory, at, count, faults>>
  BY DEF TimerInv, Timers!TypeOK, Timers!Claim, Timers!Dream, Timers!Release, Timers!Age
<1>4. QED
  BY <1>1, <1>2, <1>3, CoroutineMoves DEF TimerInv, Timers!TypeOK

LEMMA MessageStep ==
  ASSUME TimerInv, NEW k \in Key, Timers!Message(k)
  PROVE  TimerInv'
<1>1. timer' = timer
  BY DEF Timers!Message, Timers!Cancellable, TimerInv, Timers!TypeOK
<1>2. /\ at' \in [Timers!Enqueuer -> {"none", "finished"} \union Timers!Sleeping \union Timers!Enqueuing]
      /\ \A t \in Timer : at'[t] = "none" <=> at[t] = "none"
  BY DEF Timers!Message, TimerInv, Timers!TypeOK, Timers!Sleeping, Timers!Enqueuer
<1>3. UNCHANGED <<Timers!memory, Timers!dbVars, count, faults>>
  BY <1>1 DEF Timers!Message, Timers!memory
<1>4. QED
  BY <1>2, <1>3, CoroutineMoves DEF Timers!dbVars, TimerInv, Timers!TypeOK,
         Timers!DreamsAreSingle, Timers!OneDreamRow

\* Tasks are flagged; they stay what they are.
LEMMA ShutdownStep ==
  ASSUME TimerInv, NEW p \in Process, Timers!Shutdown(p)
  PROVE  TimerInv'
<1>1. \A t \in Timers!Registered(p) : t \in Timer /\ timer[t] \in Timers!Task
  BY DEF Timers!Registered, TimerInv, Timers!TypeOK, Alive, Timers!DreamsAreSingle,
         Timers!EntriesAreTimers
<1>2. \A t \in Timer : timer[t] \in Timers!Task =>
        /\ Timers!CancelledTask(t) \in Timers!Task /\ Timers!CancelledTask(t).cancelled
        /\ Timers!CancelledTask(t).home = timer[t].home /\ Timers!CancelledTask(t).key = timer[t].key
  BY DEF Timers!CancelledTask, Timers!Task
<1>3. timer' = [t \in Timer |-> IF t \in Timers!Registered(p) THEN Timers!CancelledTask(t) ELSE timer[t]]
  BY DEF Timers!Shutdown
<1>4. /\ timer' \in [Timer -> {Timers!NoTimer} \union Timers!Task]
      /\ \A t \in Timer : /\ timer'[t].home = timer[t].home /\ timer'[t].key = timer[t].key
                          /\ timer[t] \in Timers!Task => timer'[t] \in Timers!Task
                          /\ timer[t].cancelled => timer'[t].cancelled
                          /\ timer[t] = Timers!NoTimer => timer'[t].cancelled \/ timer'[t] = Timers!NoTimer
  BY <1>1, <1>2, <1>3 DEF TimerInv, Timers!TypeOK
<1>5. UNCHANGED <<Timers!dbVars, pending_dreams, saver, at, count>> /\ stopping' \subseteq Process
      /\ faults' \in 0..MaxFaults
  BY SchedulerConstants DEF Timers!Shutdown, Timers!Fault, TimerInv, Timers!TypeOK
<1>6. \A r \in Saver : saver'[r].step = "cancelling" =>
        timer'[saver'[r].old].cancelled \/ timer'[saver'[r].old] = Timers!NoTimer
  BY <1>4, <1>5, SaverFacts DEF TimerInv, Timers!TypeOK
<1>7. Timers!TypeOK'
  BY <1>4, <1>5, <1>6 DEF TimerInv, Timers!TypeOK, Timers!dbVars
<1>8. Alive'
  BY <1>4, <1>5 DEF TimerInv, Alive
<1>9. Timers!DreamsAreSingle'
  BY <1>4, <1>5 DEF TimerInv, Timers!TypeOK, Timers!DreamsAreSingle,
         Timers!EntriesAreTimers, Timers!OneDreamRow, Timers!dbVars
<1>10. QED
  BY <1>7, <1>8, <1>9 DEF TimerInv

\* A process forgets its own timers and entries, and no other's.
LEMMA ForgetStep ==
  ASSUME TimerInv, NEW p \in Process, Timers!Forget(p), faults' \in 0..MaxFaults
  PROVE  TimerInv'
<1> DEFINE mine == {t \in Timer : timer[t].home = p}
<1>1. /\ pending_dreams' = [pending_dreams EXCEPT ![p] = [k \in Key |-> Timers!None]]
      /\ timer' = [t \in Timer |-> IF t \in mine THEN Timers!NoTimer ELSE timer[t]]
      /\ saver' = [s \in Saver |-> IF HomeOf[s] = p THEN Timers!Idle ELSE saver[s]]
      /\ at' = [e \in Timers!Enqueuer |-> IF e \in mine THEN "none" ELSE at[e]]
      /\ count' = [e \in Timers!Enqueuer |-> IF e \in mine THEN 0 ELSE count[e]]
      /\ stopping' = stopping \ {p} /\ UNCHANGED Timers!dbVars
  BY DEF Timers!Forget
<1>2. \A t \in Timer : t \in mine <=> timer[t].home = p
  OBVIOUS
<1> HIDE DEF mine
<1>3. /\ timer' \in [Timer -> {Timers!NoTimer} \union Timers!Task]
      /\ \A t \in Timer : timer'[t] = IF t \in mine THEN Timers!NoTimer ELSE timer[t]
  BY <1>1 DEF TimerInv, Timers!TypeOK
<1>4. /\ pending_dreams' \in [Process -> [Key -> Timer \union {Timers!None}]]
      /\ \A l \in Key : pending_dreams'[p][l] = Timers!None
      /\ \A q \in Process \ {p} : pending_dreams'[q] = pending_dreams[q]
  BY <1>1 DEF TimerInv, Timers!TypeOK
<1>5. /\ at' \in [Timers!Enqueuer -> {"none", "finished"} \union Timers!Sleeping \union Timers!Enqueuing]
      /\ \A t \in Timer : at'[t] = IF t \in mine THEN "none" ELSE at[t]
  BY <1>1 DEF TimerInv, Timers!TypeOK, Timers!Enqueuer
<1>6. count' \in [Timers!Enqueuer -> 0..MaxDocuments]
  BY <1>1, SchedulerConstants DEF TimerInv, Timers!TypeOK
<1>7. /\ saver' \in [Saver -> {Timers!Idle} \union Timers!Checking \union Timers!Cancelling]
      /\ \A r \in Saver : saver'[r].step = "cancelling" => saver'[r] = saver[r]
  BY <1>1, SaverStates DEF TimerInv, Timers!TypeOK
<1>8. \A r \in Saver : saver'[r].step = "cancelling" =>
        timer'[saver'[r].old].cancelled \/ timer'[saver'[r].old] = Timers!NoTimer
  BY <1>3, <1>7, SaverFacts DEF TimerInv, Timers!TypeOK
<1>9. Timers!TypeOK'
  BY <1>1, <1>3, <1>4, <1>5, <1>6, <1>7, <1>8 DEF TimerInv, Timers!TypeOK, Timers!dbVars
<1>10. Alive'
  BY <1>3, <1>5 DEF TimerInv, Alive
<1>11. Timers!EntriesAreTimers'
  BY <1>2, <1>3, <1>4, <1>5 DEF TimerInv, Timers!TypeOK, Timers!DreamsAreSingle,
         Timers!EntriesAreTimers
<1>12. Timers!OneDreamRow'
  BY <1>1 DEF TimerInv, Timers!DreamsAreSingle, Timers!OneDreamRow, Timers!dbVars
<1>13. QED
  BY <1>9, <1>10, <1>11, <1>12 DEF TimerInv, Timers!DreamsAreSingle
-----------------------------------------------------------------------------
LEMMA InitTimers == Timers!Init => TimerInv
<1> SUFFICES ASSUME Timers!Init PROVE TimerInv
  OBVIOUS
<1>1. Timers!Idle.step = "idle"
  BY DEF Timers!Idle
<1>2. [count |-> 0, fresh |-> FALSE] \in Timers!Metadata
  BY SchedulerConstants DEF Timers!Metadata
<1>3. Timers!TypeOK
  BY <1>1, <1>2, SchedulerConstants DEF Timers!Init, Timers!TypeOK
<1>4. Alive /\ Timers!DreamsAreSingle
  BY DEF Timers!Init, Alive, Timers!DreamsAreSingle, Timers!OneDreamRow,
         Timers!EntriesAreTimers, Timers!Enqueuer
<1>5. QED
  BY <1>3, <1>4 DEF TimerInv

LEMMA NextTimers == TimerInv /\ [Timers!Next]_Timers!vars => TimerInv'
<1>1. TimerInv /\ UNCHANGED Timers!vars => TimerInv'
  BY DEF Timers!vars, Timers!dbVars, Timers!memory, TimerInv, Timers!TypeOK, Alive,
         Timers!DreamsAreSingle, Timers!OneDreamRow, Timers!EntriesAreTimers
<1>2. ASSUME TimerInv, Timers!Next PROVE TimerInv'
  <2>1. ASSUME NEW s \in Saver, Timers!SaverStep(s) \/ Timers!SaveUnchecked(s) \/ \E k \in Key : Timers!SaveDocuments(s, k)
        PROVE  TimerInv'
    BY <1>2, <2>1, SaverSteps
  <2>2. ASSUME NEW t \in Timer, Timers!TimerStep(t) PROVE TimerInv'
    BY <1>2, <2>2, CoroutineSteps, CallbackStep DEF Timers!TimerStep, Timers!Enqueuer
  <2>3. ASSUME NEW c \in Caller, Timers!Call(c) \/ Timers!EnqueueStep(c) PROVE TimerInv'
    BY <1>2, <2>3, CoroutineSteps DEF Timers!Enqueuer
  <2>4. ASSUME NEW e \in Timers!Enqueuer, Timers!EnqueueFails(e) PROVE TimerInv'
    BY <1>2, <2>4, CoroutineSteps
  <2>5. ASSUME NEW k \in Key, Timers!Message(k) \/ Timers!Claim(k) \/ Timers!Dream(k) \/ Timers!Release(k) \/ Timers!Age(k) PROVE TimerInv'
    BY <1>2, <2>5, QueueSteps, MessageStep
  <2>6. ASSUME NEW p \in Process, Timers!Shutdown(p) \/ Timers!Exit(p) \/ Timers!Crash(p) PROVE TimerInv'
    <3>1. CASE Timers!Shutdown(p)
      BY <1>2, <3>1, ShutdownStep
    <3>2. CASE Timers!Exit(p) \/ Timers!Crash(p)
      <4>1. Timers!Forget(p) /\ faults' \in 0..MaxFaults
        BY <1>2, <3>2, SchedulerConstants DEF Timers!Exit, Timers!Crash, Timers!Fault,
               TimerInv, Timers!TypeOK
      <4>2. QED
        BY <1>2, <4>1, ForgetStep
    <3>3. QED
      BY <2>6, <3>1, <3>2
  <2>7. QED
    BY <1>2, <2>1, <2>2, <2>3, <2>4, <2>5, <2>6 DEF Timers!Next
<1>3. QED
  BY <1>1, <1>2

\* Timers, savers and callers keep their types; a saver that waits, waits for a task that
\* it cancelled or that is gone (the await of cancel_dream ends).
THEOREM TimerTypes == Timers!Spec => []Timers!TypeOK
<1>1. TimerInv => Timers!TypeOK
  BY DEF TimerInv
<1>2. QED
  BY <1>1, InitTimers, NextTimers, PTL DEF Timers!Spec

\* The unique index admits one row; an entry is set with its task and leaves with it, or
\* earlier by the callback of an older task.
THEOREM DreamsStaySingle == Timers!Spec => []DreamsAreSingle
<1>1. TimerInv => DreamsAreSingle
  BY DEF TimerInv, DreamsAreSingle
<1>2. QED
  BY <1>1, InitTimers, NextTimers, PTL DEF Timers!Spec
=============================================================================
