------------------------- MODULE ObservationsProofs -------------------------
(***************************************************************************)
(* What is proved of the creation of observations, for any texts, any      *)
(* relation of similarity, any number of writers, calls and processes:     *)
(* duplicates are merged without forgetting what they say, and what the    *)
(* score of duplicates amounts to.  And of the batches a deriver takes a   *)
(* peer's messages in (Unit), for any conversation, token counts, budget   *)
(* and configurations: which rows a batch has, and that its context is the *)
(* conversation.                                                           *)
(***************************************************************************)
EXTENDS MCRepresentation, FiniteSetTheorems, SequenceTheorems, WellFoundedInduction, TLAPS

(* The score. *)

\* However many unique tokens two duplicates have, and whatever their weight, the score of
\* is_rejected_duplicate keeps the new text exactly when it has at least as many
\* different tokens.
THEOREM ScoreComparesSizes ==
  ASSUME NEW A, NEW B, IsFiniteSet(A), IsFiniteSet(B)
  PROVE  Score(A, B) >= Score(B, A) <=> Cardinality(A) >= Cardinality(B)
<1>1. /\ Cardinality(A) \in Nat /\ Cardinality(B) \in Nat
      /\ IsFiniteSet(A \cap B) /\ Cardinality(A \cap B) \in Nat
  BY FS_CardinalityType, FS_Intersection
<1>2. Cardinality(A \ B) = Cardinality(A) - Cardinality(A \cap B)
  BY FS_Difference
<1>3. Cardinality(B \ A) = Cardinality(B) - Cardinality(A \cap B)
  <2>1. B \cap A = A \cap B
    OBVIOUS
  <2> QED BY <2>1, FS_Difference
<1> QED BY <1>1, <1>2, <1>3 DEF Score

LEMMA SizesAreNumbers ==
  ASSUME ObservationsAssumption, NEW c \in Content
  PROVE  Size(c) \in Nat
BY FS_CardinalityType DEF ObservationsAssumption, Size

LEMMA LargerTextStays ==
  ASSUME ObservationsAssumption, NEW c \in Content, NEW i \in Nat \X Content
  PROVE  SaysMore(c, i) <=> Size(c) >= Size(TextOf(i))
<1>1. IsFiniteSet(TokensOf[c]) /\ IsFiniteSet(TokensOf[i[2]])
  BY DEF ObservationsAssumption
<1> QED BY <1>1, ScoreComparesSizes DEF SaysMore, Size, TextOf

-----------------------------------------------------------------------------
(* What a call is about to do. *)

\* What supersedes is kept and no smaller than what it replaces; what is rejected is smaller.
Sound(j) ==
  /\ \A p \in j.superseded :
       Size(p[2]) >= Size(TextOf(p[1])) /\ \E q \in j.kept : q[1] = p[2]
  /\ \A p \in j.rejected : Size(TextOf(p[2])) >= Size(p[1])
  /\ j.at \in {"reading", "superseding"} => j.target # None
  /\ j.at \in {"idle", "waiting", "embedding"} => j.kept = {}
  /\ j.at = "superseding" => Size(j.target[2]) >= Size(TextOf(j.target[1]))

CallsAreSound == \A w \in Writer : Sound(job[w])

\* A tool at work holds the lock of its process.
Working == {"embedding", "checking", "reading", "superseding", "upserting"}
WorkersHoldLock ==
  \A w \in Writer : Locks(w) /\ job[w].at \in Working => holder[staff[w].home] = w

\* What it has found no duplicate of still has none among those of its process, but for
\* those that it is superseding itself.
NothingMissed(w) ==
  \A q \in job[w].kept, i \in Id :
    /\ Locks(w) /\ ~external /\ q[2] = None
    /\ docs[i].by = staff[w].home /\ docs[i].state = "active" /\ <<q[1], TextOf(i)>> \in Similar
    => \E p \in job[w].superseded : p[1] = i

LocksWork == WorkersHoldLock /\ \A w \in Writer : NothingMissed(w)

Invariant == TypeOK /\ CallsAreSound /\ LocksWork /\ DuplicatesMerge

LEMMA IdsAreTexts ==
  ASSUME TypeOK, NEW i \in Id
  PROVE  i \in Nat \X Content /\ TextOf(i) \in Content /\ i[1] \in 1..commits
BY DEF TypeOK, TextOf

LEMMA IdleIsAJob ==
  /\ Idle \in Job /\ Sound(Idle)
BY DEF Idle, Job, Sound

\* The steps of a call that change nothing but the call.
JobStep(w) ==
  \/ Begin(w) \/ Acquire(w) \/ Embed(w) \/ QueryRows(w) \/ QueryVectors(w) \/ ReadRow(w)
  \/ Supersede(w)

LEMMA JobStepsChangeTheCall ==
  ASSUME ObservationsAssumption, TypeOK, CallsAreSound, NEW w \in Writer, JobStep(w)
  PROVE  /\ job' = [job EXCEPT ![w] = job'[w]]
         /\ job'[w] \in Job /\ Sound(job'[w])
         /\ calls' \in Nat /\ holder' \in [Home -> Writer \union {None}]
         /\ UNCHANGED <<external, staff, docs, commits, vectors, answered>>
<1>0. job \in [Writer -> Job] /\ job[w] \in Job /\ Sound(job[w])
  BY DEF TypeOK, CallsAreSound
<1>a. ASSUME NEW j \in Job, Sound(j), job' = [job EXCEPT ![w] = j]
      PROVE  job' = [job EXCEPT ![w] = job'[w]] /\ job'[w] \in Job /\ Sound(job'[w])
  BY <1>0, <1>a
<1>1. CASE Begin(w)
  <2>1. PICK new \in Batches :
          job' = [job EXCEPT ![w] = [Idle EXCEPT !.at = IF Locks(w) THEN "waiting" ELSE "embedding",
                                                 !.todo = new]]
    BY <1>1 DEF Begin
  <2> DEFINE j == [Idle EXCEPT !.at = IF Locks(w) THEN "waiting" ELSE "embedding", !.todo = new]
  <2>2. j \in Job /\ Sound(j)
    <3>1. new \subseteq Content
      BY DEF ObservationsAssumption
    <3>2. /\ j.at \in {"waiting", "embedding"} /\ j.kept = Idle.kept
          /\ j.superseded = Idle.superseded /\ j.rejected = Idle.rejected
          /\ j \in Job
      BY <3>1, IdleIsAJob DEF Job
    <3>3. Idle.kept = {} /\ Sound(Idle)
      BY IdleIsAJob DEF Idle
    <3> HIDE DEF j
    <3> QED BY <3>2, <3>3 DEF Sound
  <2>3. job' = [job EXCEPT ![w] = job'[w]] /\ job'[w] \in Job /\ Sound(job'[w])
    BY <2>1, <2>2, <1>a
  <2>4. calls' \in Nat /\ UNCHANGED <<external, staff, docs, commits, vectors, answered, holder>>
    BY <1>1 DEF Begin, TypeOK
  <2> QED BY <2>3, <2>4 DEF TypeOK
<1>2. CASE Acquire(w)
  <2> DEFINE j == [job[w] EXCEPT !.at = "embedding"]
  <2>1. j \in Job /\ Sound(j)
    BY <1>0, <1>2 DEF Acquire, Job, Sound
  <2>2. /\ job' = [job EXCEPT ![w] = j]
        /\ UNCHANGED <<external, staff, docs, commits, vectors, calls, answered>>
    BY <1>2 DEF Acquire
  <2>3. holder' \in [Home -> Writer \union {None}]
    BY <1>2 DEF Acquire, TypeOK
  <2> HIDE DEF j
  <2>4. job' = [job EXCEPT ![w] = job'[w]] /\ job'[w] \in Job /\ Sound(job'[w])
    BY <2>1, <2>2, <1>a
  <2> QED BY <2>2, <2>3, <2>4 DEF TypeOK
<1>3. CASE Embed(w)
  <2>1. PICK new \in SUBSET job[w].todo :
          job' = [job EXCEPT ![w].at = "checking",
                             ![w].todo = IF Deduplicates(w) THEN new ELSE {},
                             ![w].kept = IF Deduplicates(w) THEN {} ELSE new \X {None}]
    BY <1>3 DEF Embed
  <2> DEFINE j == [job[w] EXCEPT !.at = "checking",
                                 !.todo = IF Deduplicates(w) THEN new ELSE {},
                                 !.kept = IF Deduplicates(w) THEN {} ELSE new \X {None}]
  <2>2. job[w].superseded = {} /\ job[w].at = "embedding"
    BY <1>3, <1>0 DEF Embed, Sound
  <2>3. j \in Job /\ Sound(j)
    BY <1>0, <2>2 DEF Job, Sound
  <2>4. job' = [job EXCEPT ![w] = j]
    BY <1>0, <2>1
  <2>5. UNCHANGED <<external, staff, docs, commits, vectors, calls, answered, holder>>
    BY <1>3 DEF Embed
  <2> HIDE DEF j
  <2>6. job' = [job EXCEPT ![w] = job'[w]] /\ job'[w] \in Job /\ Sound(job'[w])
    BY <2>3, <2>4, <1>a
  <2> QED BY <2>5, <2>6 DEF TypeOK
<1>4. ASSUME NEW c \in Content, NEW hit \in Id \union {None}, Keep(w, c, hit)
      PROVE  job' = [job EXCEPT ![w] = job'[w]] /\ job'[w] \in Job /\ Sound(job'[w])
  <2> DEFINE j == [job[w] EXCEPT !.at = "checking", !.todo = @ \ {c}, !.target = None,
                                 !.kept = @ \union {<<c, hit>>}]
  <2>0. /\ j.at = "checking" /\ j.kept = job[w].kept \union {<<c, hit>>}
        /\ j.superseded = job[w].superseded /\ j.rejected = job[w].rejected
        /\ j \in Job
    <3>1. job[w].kept \union {<<c, hit>>} \in SUBSET (Content \X (Id \union {None}))
      BY <1>0 DEF Job
    <3>2. job[w].todo \ {c} \in SUBSET Content
      BY <1>0 DEF Job
    <3> DEFINE K == job[w].kept \union {<<c, hit>>}
               T == job[w].todo \ {c}
    <3>3. j = [job[w] EXCEPT !.at = "checking", !.todo = T, !.target = None, !.kept = K]
      OBVIOUS
    <3> HIDE DEF K, T, j
    <3>4. K \in SUBSET (Content \X (Id \union {None})) /\ T \in SUBSET Content
      BY <3>1, <3>2 DEF K, T
    <3>5. /\ j.at = "checking" /\ j.kept = K /\ j.superseded = job[w].superseded
          /\ j.rejected = job[w].rejected /\ j \in Job
      BY <1>0, <3>3, <3>4 DEF Job
    <3> QED BY <3>5 DEF K
  <2>1. Sound(j)
    <3> HIDE DEF j
    <3>1. \A p \in j.superseded :
            Size(p[2]) >= Size(TextOf(p[1])) /\ \E q \in job[w].kept : q[1] = p[2]
      BY <1>0, <2>0 DEF Sound
    <3>2. \A p \in j.rejected : Size(TextOf(p[2])) >= Size(p[1])
      BY <1>0, <2>0 DEF Sound
    <3>3. job[w].kept \subseteq j.kept
      BY <2>0
    <3>4. \A p \in j.superseded :
            Size(p[2]) >= Size(TextOf(p[1])) /\ \E q \in j.kept : q[1] = p[2]
      BY <3>1, <3>3
    <3> QED BY <2>0, <3>2, <3>4 DEF Sound
  <2>2. job' = [job EXCEPT ![w] = j]
    BY <1>0, <1>4 DEF Keep
  <2> QED BY <2>0, <2>1, <2>2, <1>a
<1>5. ASSUME NEW c \in Content, NEW i \in Id, Decide(w, c, i)
      PROVE  job' = [job EXCEPT ![w] = job'[w]] /\ job'[w] \in Job /\ Sound(job'[w])
  <2>1. c \in Content /\ i \in Nat \X Content /\ TextOf(i) \in Content
    BY <1>0, IdsAreTexts DEF Job
  <2>2. SaysMore(c, i) <=> Size(c) >= Size(TextOf(i))
    BY <2>1, LargerTextStays
  <2>3. Size(c) \in Nat /\ Size(TextOf(i)) \in Nat
    BY <2>1, SizesAreNumbers
  <2>4. CASE SaysMore(c, i)
    <3> DEFINE j == [job[w] EXCEPT !.at = "superseding", !.target = <<i, c>>]
    <3>1. <<i, c>> # None
      BY <2>1 DEF ObservationsAssumption
    <3>2. j \in Job /\ Sound(j)
      BY <1>0, <2>1, <2>2, <2>4, <3>1 DEF Job, Sound
    <3>3. job' = [job EXCEPT ![w] = j]
      BY <1>0, <1>5, <2>4 DEF Decide
    <3> QED BY <3>2, <3>3, <1>a
  <2>5. CASE ~SaysMore(c, i)
    <3> DEFINE T == job[w].todo \ {c}
               R == job[w].rejected \union {<<c, i>>}
               j == [job[w] EXCEPT !.at = "checking", !.todo = T, !.target = None, !.rejected = R]
    <3>1. Size(TextOf(i)) >= Size(c)
      BY <2>2, <2>3, <2>5
    <3>2. /\ j.at = "checking" /\ j.kept = job[w].kept
          /\ j.superseded = job[w].superseded /\ j.rejected = R /\ j \in Job
      <4>1. T \in SUBSET Content /\ R \in SUBSET (Content \X Id)
        BY <1>0, <2>1 DEF Job
      <4> HIDE DEF T, R
      <4> QED BY <1>0, <4>1 DEF Job
    <3>4. Sound(j)
      <4> HIDE DEF j
      <4> QED BY <1>0, <3>1, <3>2 DEF Sound
    <3>3. job' = [job EXCEPT ![w] = j]
      BY <1>0, <1>5, <2>5 DEF Decide
    <3> QED BY <3>2, <3>3, <3>4, <1>a
  <2> QED BY <2>4, <2>5
<1>6. CASE QueryRows(w)
  <2>1. UNCHANGED <<external, staff, docs, commits, vectors, calls, answered, holder>>
    BY <1>6 DEF QueryRows
  <2>2. PICK c \in job[w].todo :
          \/ Keep(w, c, None)
          \/ \E i \in Nearest(Visible(w), c) : Decide(w, c, i)
    BY <1>6 DEF QueryRows
  <2>3. Nearest(Visible(w), c) \subseteq Id
    BY DEF Nearest, Visible
  <2>4. c \in Content
    BY <1>0 DEF Job
  <2>5. job' = [job EXCEPT ![w] = job'[w]] /\ job'[w] \in Job /\ Sound(job'[w])
    BY <2>2, <2>3, <2>4, <1>4, <1>5
  <2> QED BY <2>1, <2>5 DEF TypeOK
<1>7. CASE QueryVectors(w)
  <2>1. UNCHANGED <<external, staff, docs, commits, vectors, calls, answered, holder>>
    BY <1>7 DEF QueryVectors
  <2>2. PICK c \in job[w].todo :
          \/ Keep(w, c, None)
          \/ \E i \in Nearest(vectors, c) :
               job' = [job EXCEPT ![w].at = "reading", ![w].target = <<i, c>>]
          \/ job' = [job EXCEPT ![w].todo = @ \ {c}]
    BY <1>7 DEF QueryVectors
  <2>3. job[w].at = "checking" /\ c \in Content
    BY <1>0, <1>7 DEF QueryVectors, Job
  <2>4. ASSUME NEW i \in Nearest(vectors, c),
               job' = [job EXCEPT ![w].at = "reading", ![w].target = <<i, c>>]
        PROVE  job' = [job EXCEPT ![w] = job'[w]] /\ job'[w] \in Job /\ Sound(job'[w])
    <3> DEFINE j == [job[w] EXCEPT !.at = "reading", !.target = <<i, c>>]
    <3>1. i \in Id
      BY DEF Nearest, TypeOK
    <3>2. <<i, c>> # None
      BY <2>3, <3>1, IdsAreTexts DEF ObservationsAssumption
    <3>3. j \in Job /\ Sound(j)
      BY <1>0, <2>3, <3>1, <3>2 DEF Job, Sound
    <3>4. job' = [job EXCEPT ![w] = j]
      BY <1>0, <2>4
    <3> QED BY <3>3, <3>4, <1>a
  <2>5. ASSUME job' = [job EXCEPT ![w].todo = @ \ {c}]
        PROVE  job' = [job EXCEPT ![w] = job'[w]] /\ job'[w] \in Job /\ Sound(job'[w])
    <3> DEFINE j == [job[w] EXCEPT !.todo = @ \ {c}]
    <3>1. j \in Job /\ Sound(j)
      BY <1>0 DEF Job, Sound
    <3>2. job' = [job EXCEPT ![w] = j]
      BY <1>0, <2>5
    <3> QED BY <3>1, <3>2, <1>a
  <2>6. job' = [job EXCEPT ![w] = job'[w]] /\ job'[w] \in Job /\ Sound(job'[w])
    BY <2>2, <2>3, <2>4, <2>5, <1>4
  <2> QED BY <2>1, <2>6 DEF TypeOK
<1>8. ASSUME job[w].at \in {"reading", "superseding"}
      PROVE  /\ job[w].target \in Id \X Content
             /\ job[w].target[1] \in Id /\ job[w].target[2] \in Content
             /\ job[w].target = <<job[w].target[1], job[w].target[2]>>
  <2>1. job[w].target \in Id \X Content
    BY <1>0, <1>8 DEF Job, Sound
  <2> QED BY <2>1
<1>9. CASE ReadRow(w)
  <2>1. UNCHANGED <<external, staff, docs, commits, vectors, calls, answered, holder>>
    BY <1>9 DEF ReadRow
  <2>2. job[w].target[1] \in Id /\ job[w].target[2] \in Content
    BY <1>8, <1>9 DEF ReadRow
  <2>3. \/ Decide(w, job[w].target[2], job[w].target[1])
        \/ Keep(w, job[w].target[2], None)
    BY <1>9 DEF ReadRow
  <2>4. job' = [job EXCEPT ![w] = job'[w]] /\ job'[w] \in Job /\ Sound(job'[w])
    BY <2>2, <2>3, <1>4, <1>5
  <2> QED BY <2>1, <2>4 DEF TypeOK
<1>10. CASE Supersede(w)
  <2> DEFINE i == job[w].target[1]
             c == job[w].target[2]
             K == job[w].kept \union {<<c, i>>}
             S == job[w].superseded \union {<<i, c>>}
             T == job[w].todo \ {c}
             j == [job[w] EXCEPT !.at = "checking", !.todo = T, !.target = None,
                                 !.superseded = S, !.kept = K]
  <2>1. UNCHANGED <<external, staff, docs, commits, vectors, calls, answered, holder>>
    BY <1>10 DEF Supersede
  <2>2. i \in Id /\ c \in Content
    BY <1>8, <1>10 DEF Supersede
  <2>3. Size(c) >= Size(TextOf(i))
    BY <1>0, <1>10 DEF Supersede, Sound
  <2>4. /\ K \in SUBSET (Content \X (Id \union {None})) /\ S \in SUBSET (Id \X Content)
        /\ T \in SUBSET Content
    BY <1>0, <2>2 DEF Job
  <2>5. job' = [job EXCEPT ![w] = j]
    BY <1>0, <1>10 DEF Supersede
  <2>6. /\ j.at = "checking" /\ j.kept = K /\ j.superseded = S
        /\ j.rejected = job[w].rejected /\ j \in Job
    <3> HIDE DEF i, c, K, S, T
    <3> QED BY <1>0, <2>4 DEF Job
  <2>7. Sound(j)
    <3> HIDE DEF j
    <3>1. \A p \in job[w].superseded :
            Size(p[2]) >= Size(TextOf(p[1])) /\ \E q \in job[w].kept : q[1] = p[2]
      BY <1>0 DEF Sound
    <3>2. \A p \in j.rejected : Size(TextOf(p[2])) >= Size(p[1])
      BY <1>0, <2>6 DEF Sound
    <3>3. \A p \in S : Size(p[2]) >= Size(TextOf(p[1])) /\ \E q \in K : q[1] = p[2]
      <4> TAKE p \in S
      <4>1. CASE p \in job[w].superseded
        BY <3>1, <4>1
      <4>2. CASE p = <<i, c>>
        <5>1. p[1] = i /\ p[2] = c
          BY <4>2
        <5>2. <<c, i>> \in K /\ <<c, i>>[1] = c
          OBVIOUS
        <5> QED BY <5>1, <5>2, <2>3
      <4> QED BY <4>1, <4>2
    <3> QED BY <2>6, <3>2, <3>3 DEF Sound
  <2>8. job' = [job EXCEPT ![w] = job'[w]] /\ job'[w] \in Job /\ Sound(job'[w])
    <3> HIDE DEF j
    <3> QED BY <2>5, <2>6, <2>7, <1>a
  <2> QED BY <2>1, <2>8 DEF TypeOK
<1> QED BY <1>1, <1>2, <1>3, <1>6, <1>7, <1>9, <1>10 DEF JobStep

LEMMA JobStepsKeepTypes ==
  ASSUME ObservationsAssumption, TypeOK, CallsAreSound, NEW w \in Writer, JobStep(w)
  PROVE  TypeOK' /\ CallsAreSound'
<1>1. /\ job' = [job EXCEPT ![w] = job'[w]]
      /\ job'[w] \in Job /\ Sound(job'[w])
      /\ calls' \in Nat /\ holder' \in [Home -> Writer \union {None}]
      /\ UNCHANGED <<external, staff, docs, commits, vectors, answered>>
  BY JobStepsChangeTheCall
<1>2. Id' = Id /\ Job' = Job /\ Document' = Document
  BY <1>1 DEF Id, Job, Document
<1>3. job' \in [Writer -> Job] /\ \A v \in Writer : job'[v] = job[v] \/ v = w
  <2> DEFINE j == job'[w]
  <2>1. job' = [job EXCEPT ![w] = j] /\ j \in Job
    BY <1>1
  <2> HIDE DEF j
  <2> QED BY <2>1 DEF TypeOK
<1>4. TypeOK'
  BY <1>1, <1>2, <1>3 DEF TypeOK
<1>5. CallsAreSound'
  BY <1>1, <1>3 DEF CallsAreSound, Sound, Size, TextOf
<1> QED BY <1>4, <1>5

LEMMA JobStepsKeepDocuments ==
  ASSUME ObservationsAssumption, TypeOK, CallsAreSound, DuplicatesMerge,
         NEW w \in Writer, JobStep(w)
  PROVE  DuplicatesMerge'
<1>1. UNCHANGED <<external, staff, docs, commits, vectors, answered>>
  BY JobStepsChangeTheCall
<1> QED BY <1>1 DEF DuplicatesMerge, InformationKept, LockedToolsSee, Id, Size, TextOf

\* Only a tool that gets the lock changes it, and it was free.
LEMMA JobStepsKeepLocks ==
  ASSUME ObservationsAssumption, TypeOK, CallsAreSound, WorkersHoldLock, NEW w \in Writer, JobStep(w)
  PROVE  WorkersHoldLock'
<1>1. /\ job' = [job EXCEPT ![w] = job'[w]] /\ job \in [Writer -> Job]
      /\ UNCHANGED <<external, staff, docs, commits, vectors, answered>>
  BY JobStepsChangeTheCall DEF TypeOK
<1>2. ASSUME NEW v \in Writer, Locks(v)', job'[v].at \in Working, v # w
      PROVE  holder'[staff'[v].home] = v
  <2>1. job'[v] = job[v]
    BY <1>1, <1>2
  <2>2. Locks(v) /\ staff'[v] = staff[v]
    BY <1>1, <1>2 DEF Locks
  <2>3. holder[staff[v].home] = v
    BY <1>2, <2>1, <2>2 DEF WorkersHoldLock
  <2>4. v # None
    BY DEF ObservationsAssumption
  <2>5. CASE Acquire(w)
    BY <2>2, <2>3, <2>4, <2>5 DEF Acquire
  <2>6. CASE ~Acquire(w)
    BY <2>2, <2>3, <2>6 DEF JobStep, Begin, Embed, QueryRows, QueryVectors, ReadRow, Supersede
  <2> QED BY <2>5, <2>6
<1>3. ASSUME Locks(w)', job'[w].at \in Working
      PROVE  holder'[staff'[w].home] = w
  <2>1. Locks(w) /\ staff' = staff
    BY <1>1, <1>3 DEF Locks
  <2>2. CASE Begin(w)
    <3>1. job'[w].at = "waiting"
      BY <1>1, <2>1, <2>2 DEF Begin, Idle
    <3> QED BY <1>3, <3>1 DEF Working
  <2>3. CASE Acquire(w)
    <3>1. staff[w].home \in Home
      BY <2>1 DEF TypeOK, ObservationsAssumption
    <3> QED BY <2>1, <2>3, <3>1 DEF Acquire, TypeOK
  <2>4. CASE Embed(w) \/ QueryRows(w) \/ QueryVectors(w) \/ ReadRow(w) \/ Supersede(w)
    <3>1. job[w].at \in Working /\ holder' = holder
      BY <2>4 DEF Embed, QueryRows, QueryVectors, ReadRow, Supersede, Working
    <3> QED BY <2>1, <3>1 DEF WorkersHoldLock
  <2> QED BY <2>2, <2>3, <2>4 DEF JobStep
<1> QED BY <1>2, <1>3 DEF WorkersHoldLock

\* A check that finds nothing in Postgres has seen every similar document that is active.
LEMMA NothingNearNothingSimilar ==
  ASSUME NEW w \in Writer, NEW c, Nearest(Visible(w), c) = {},
         NEW i \in Id, docs[i].state = "active", <<c, TextOf(i)>> \in Similar
  PROVE  \E p \in job[w].superseded : p[1] = i
<1>1. i \notin Visible(w)
  BY DEF Nearest
<1> QED BY <1>1 DEF Visible

LEMMA JobStepsMissNothing ==
  ASSUME ObservationsAssumption, TypeOK, CallsAreSound, NEW w \in Writer, JobStep(w),
         \A v \in Writer : NothingMissed(v)
  PROVE  \A v \in Writer : NothingMissed(v)'
<1>1. /\ job' = [job EXCEPT ![w] = job'[w]] /\ job \in [Writer -> Job] /\ job[w] \in Job
      /\ UNCHANGED <<external, staff, docs, commits, vectors, answered>>
  BY JobStepsChangeTheCall DEF TypeOK
<1>2. ASSUME NEW v \in Writer, v # w PROVE NothingMissed(v)'
  <2>1. job'[v] = job[v]
    BY <1>1, <1>2
  <2> QED BY <1>1, <2>1 DEF NothingMissed, Locks, Id, TextOf
<1> SUFFICES NothingMissed(w)'
  BY <1>2
<1>3. ASSUME ~Locks(w) \/ external \/ job'[w].kept = {} PROVE NothingMissed(w)'
  BY <1>1, <1>3 DEF NothingMissed, Locks
<1>4. ASSUME job'[w].kept = job[w].kept, job'[w].superseded = job[w].superseded
      PROVE  NothingMissed(w)'
  BY <1>1, <1>4 DEF NothingMissed, Locks, Id, TextOf
<1>5. CASE Begin(w)
  <2>1. job'[w].kept = {}
    BY <1>1, <1>5 DEF Begin, Idle
  <2> QED BY <2>1, <1>3
<1>6. CASE Acquire(w)
  <2>1. job'[w].kept = job[w].kept /\ job'[w].superseded = job[w].superseded
    BY <1>1, <1>6 DEF Acquire, Job
  <2> QED BY <2>1, <1>4
<1>7. CASE Embed(w)
  <2>1. Locks(w) => job'[w].kept = {}
    BY <1>1, <1>7 DEF Embed, Locks, Deduplicates, Job
  <2> QED BY <2>1, <1>3
<1>8. CASE QueryVectors(w) \/ ReadRow(w)
  BY <1>3, <1>8 DEF QueryVectors, ReadRow
<1>9. CASE QueryRows(w)
  <2>1. PICK c \in job[w].todo :
          \/ Nearest(Visible(w), c) = {} /\ Keep(w, c, None)
          \/ \E i \in Nearest(Visible(w), c) : Decide(w, c, i)
    BY <1>9 DEF QueryRows
  <2>2. CASE \E i \in Nearest(Visible(w), c) : Decide(w, c, i)
    <3>1. job'[w].kept = job[w].kept /\ job'[w].superseded = job[w].superseded
      BY <1>1, <2>2 DEF Decide, Job
    <3> QED BY <3>1, <1>4
  <2>3. CASE Nearest(Visible(w), c) = {} /\ Keep(w, c, None)
    <3>1. /\ job'[w].kept = job[w].kept \union {<<c, None>>}
          /\ job'[w].superseded = job[w].superseded
      BY <1>1, <2>3 DEF Keep, Job
    <3>2. SUFFICES ASSUME NEW q \in job'[w].kept, NEW i \in Id,
                          Locks(w), ~external, q[2] = None, docs[i].by = staff[w].home,
                          docs[i].state = "active", <<q[1], TextOf(i)>> \in Similar
                   PROVE  \E p \in job[w].superseded : p[1] = i
      BY <1>1, <3>1 DEF NothingMissed, Locks, Id, TextOf
    <3>3. CASE q \in job[w].kept
      BY <3>2, <3>3 DEF NothingMissed
    <3>4. CASE q = <<c, None>>
      BY <2>3, <3>2, <3>4, NothingNearNothingSimilar
    <3> QED BY <3>1, <3>3, <3>4
  <2> QED BY <2>1, <2>2, <2>3
<1>10. CASE Supersede(w)
  <2> DEFINE i == job[w].target[1]
             c == job[w].target[2]
  <2>1. /\ job'[w].kept = job[w].kept \union {<<c, i>>}
        /\ job'[w].superseded = job[w].superseded \union {<<i, c>>}
    BY <1>1, <1>10 DEF Supersede, Job
  <2>2. i # None
    <3>1. job[w].target \in Id \X Content
      BY <1>1, <1>10 DEF Supersede, Job, CallsAreSound, Sound
    <3>2. i \in Nat \X Content
      BY <3>1, IdsAreTexts
    <3> QED BY <3>2 DEF ObservationsAssumption
  <2> HIDE DEF i, c
  <2>3. SUFFICES ASSUME NEW q \in job'[w].kept, NEW d \in Id,
                        Locks(w), ~external, q[2] = None, docs[d].by = staff[w].home,
                        docs[d].state = "active", <<q[1], TextOf(d)>> \in Similar
                 PROVE  \E p \in job'[w].superseded : p[1] = d
    BY <1>1 DEF NothingMissed, Locks, Id, TextOf
  <2>4. q \in job[w].kept
    BY <2>1, <2>2, <2>3
  <2>5. \E p \in job[w].superseded : p[1] = d
    BY <2>3, <2>4 DEF NothingMissed
  <2> QED BY <2>1, <2>5
<1> QED BY <1>5, <1>6, <1>7, <1>8, <1>9, <1>10 DEF JobStep

-----------------------------------------------------------------------------
(* The end of a call. *)

LEMMA ReleaseKeepsLocks ==
  ASSUME ObservationsAssumption, TypeOK, WorkersHoldLock, NEW w \in Writer,
         job' = [job EXCEPT ![w] = Idle], Release(w), staff' = staff
  PROVE  WorkersHoldLock' /\ holder' \in [Home -> Writer \union {None}]
<1>1. holder' \in [Home -> Writer \union {None}]
  BY DEF Release, TypeOK
<1>2. ASSUME NEW v \in Writer, Locks(v)', job'[v].at \in Working
      PROVE  holder'[staff'[v].home] = v
  <2>1. v # w
    BY <1>2 DEF TypeOK, Idle, Working
  <2>2. job'[v] = job[v] /\ Locks(v)
    BY <1>2, <2>1 DEF TypeOK, Locks
  <2>3. holder[staff[v].home] = v
    BY <1>2, <2>2 DEF WorkersHoldLock
  <2>4. staff[v].home \in Home
    BY DEF TypeOK, ObservationsAssumption
  <2> QED BY <2>1, <2>3, <2>4 DEF Release
<1> QED BY <1>1, <1>2 DEF WorkersHoldLock

\* Documents that only fade: none appears, none becomes active, what they came from stays.
Faded ==
  /\ Id' = Id
  /\ \A i \in Id : /\ docs'[i].by = docs[i].by /\ docs'[i].hit = docs[i].hit
                   /\ docs'[i].state = "active" => docs[i].state = "active"

LEMMA FadedDocumentsAreSeen ==
  ASSUME Faded, UNCHANGED <<external, staff>>, LockedToolsSee
  PROVE  LockedToolsSee'
BY DEF Faded, LockedToolsSee, TextOf

LEMMA FadedDocumentsAreNotMissed ==
  ASSUME Faded, UNCHANGED <<external, staff>>, NEW v \in Writer, NothingMissed(v),
         job'[v] = job[v] \/ job'[v].kept = {}
  PROVE  NothingMissed(v)'
BY DEF Faded, NothingMissed, Locks, TextOf

LEMMA AbortKeepsInvariant ==
  ASSUME ObservationsAssumption, Invariant, NEW w \in Writer, Abort(w)
  PROVE  Invariant'
<1>1. /\ job' = [job EXCEPT ![w] = Idle] /\ Release(w)
      /\ UNCHANGED <<external, staff, docs, commits, vectors, calls, answered>>
  BY DEF Abort, RolledBack
<1>2. Id' = Id /\ Job' = Job /\ Document' = Document /\ Faded
  BY <1>1 DEF Id, Job, Document, Faded
<1>3. TypeOK' /\ CallsAreSound'
  <2>1. job' \in [Writer -> Job] /\ \A v \in Writer : job'[v] = job[v] \/ job'[v] = Idle
    BY <1>1, IdleIsAJob DEF Invariant, TypeOK
  <2>2. \A v \in Writer : Sound(job'[v])
    BY <2>1, IdleIsAJob DEF Invariant, CallsAreSound
  <2>3. holder' \in [Home -> Writer \union {None}]
    BY <1>1, ReleaseKeepsLocks DEF Invariant, LocksWork
  <2>4. TypeOK'
    BY <1>1, <1>2, <2>1, <2>3 DEF Invariant, TypeOK
  <2> QED BY <1>1, <2>2, <2>4 DEF CallsAreSound, Sound, Size, TextOf
<1>4. LocksWork'
  <2>1. WorkersHoldLock'
    BY <1>1, ReleaseKeepsLocks DEF Invariant, LocksWork
  <2>2. \A v \in Writer : job'[v] = job[v] \/ job'[v].kept = {}
    BY <1>1 DEF Invariant, TypeOK, Idle
  <2> QED BY <1>1, <1>2, <2>1, <2>2, FadedDocumentsAreNotMissed DEF Invariant, LocksWork
<1>5. DuplicatesMerge'
  BY <1>1, <1>2 DEF Invariant, DuplicatesMerge, InformationKept, LockedToolsSee, Size, TextOf
<1> QED BY <1>3, <1>4, <1>5 DEF Invariant

LEMMA UpsertKeepsInvariant ==
  ASSUME ObservationsAssumption, Invariant, NEW w \in Writer, Upsert(w)
  PROVE  Invariant'
<1>1. /\ job' = [job EXCEPT ![w] = Idle] /\ Release(w)
      /\ UNCHANGED <<external, staff, docs, commits, calls, answered>>
  BY DEF Upsert
<1>2. Id' = Id /\ Job' = Job /\ Document' = Document /\ Faded
  BY <1>1 DEF Id, Job, Document, Faded
<1>3. TypeOK' /\ CallsAreSound'
  <2>1. job' \in [Writer -> Job] /\ \A v \in Writer : job'[v] = job[v] \/ job'[v] = Idle
    BY <1>1, IdleIsAJob DEF Invariant, TypeOK
  <2>2. \A v \in Writer : Sound(job'[v])
    BY <2>1, IdleIsAJob DEF Invariant, CallsAreSound
  <2>3. holder' \in [Home -> Writer \union {None}]
    BY <1>1, ReleaseKeepsLocks DEF Invariant, LocksWork
  <2>4. vectors' \subseteq Id
    <3>1. job[w].fresh \subseteq Id /\ vectors \subseteq Id
      BY DEF Invariant, TypeOK, Job
    <3> QED BY <3>1 DEF Upsert
  <2>5. TypeOK'
    BY <1>1, <1>2, <2>1, <2>3, <2>4 DEF Invariant, TypeOK
  <2> QED BY <1>1, <2>2, <2>5 DEF CallsAreSound, Sound, Size, TextOf
<1>4. LocksWork'
  <2>1. WorkersHoldLock'
    BY <1>1, ReleaseKeepsLocks DEF Invariant, LocksWork
  <2>2. \A v \in Writer : job'[v] = job[v] \/ job'[v].kept = {}
    BY <1>1 DEF Invariant, TypeOK, Idle
  <2> QED BY <1>1, <1>2, <2>1, <2>2, FadedDocumentsAreNotMissed DEF Invariant, LocksWork
<1>5. DuplicatesMerge'
  BY <1>1, <1>2 DEF Invariant, DuplicatesMerge, InformationKept, LockedToolsSee, Size, TextOf
<1> QED BY <1>3, <1>4, <1>5 DEF Invariant

\* A deletion on request is marked as such; a purged document was deleted before.
LEMMA FadingKeepsInvariant ==
  ASSUME ObservationsAssumption, Invariant, NEW i \in Id, Delete(i) \/ Purge(i) \/ Reconcile(i)
  PROVE  Invariant'
<1>1. UNCHANGED <<external, staff, commits, job, holder, calls, answered>>
  BY DEF Delete, Purge, Reconcile
<1>2. /\ Id' = Id /\ docs' \in [Id -> Document]
      /\ \A d \in Id :
           /\ docs'[d].by = docs[d].by /\ docs'[d].hit = docs[d].hit
           /\ docs'[d].heirs = docs[d].heirs
           /\ docs'[d].state = "active" => docs[d].state = "active"
           /\ docs'[d].state # "active" /\ ~docs'[d].explicit =>
                docs[d].state # "active" /\ ~docs[d].explicit
  <2>1. docs \in [Id -> Document]
    BY DEF Invariant, TypeOK
  <2>2. docs[i] \in Document /\ docs[i].explicit \in BOOLEAN
    BY <2>1 DEF Document
  <2>3. CASE Delete(i)
    <3> DEFINE d == [docs[i] EXCEPT !.state = "deleted", !.explicit = TRUE]
    <3>1. docs' = [docs EXCEPT ![i] = d]
      BY <2>1, <2>3 DEF Delete
    <3>2. /\ d \in Document /\ d.by = docs[i].by /\ d.hit = docs[i].hit /\ d.heirs = docs[i].heirs
          /\ d.state = "deleted" /\ d.explicit = TRUE
      BY <2>2 DEF Document
    <3> HIDE DEF d
    <3> QED BY <2>1, <3>1, <3>2 DEF Id
  <2>4. CASE Purge(i)
    <3> DEFINE d == [docs[i] EXCEPT !.state = "purged"]
    <3>1. docs' = [docs EXCEPT ![i] = d] /\ docs[i].state = "deleted"
      BY <2>1, <2>4 DEF Purge
    <3>2. /\ d \in Document /\ d.by = docs[i].by /\ d.hit = docs[i].hit /\ d.heirs = docs[i].heirs
          /\ d.state = "purged" /\ d.explicit = docs[i].explicit
      BY <2>2 DEF Document
    <3> HIDE DEF d
    <3> QED BY <2>1, <3>1, <3>2 DEF Id
  <2>5. CASE Reconcile(i)
    BY <2>1, <2>5 DEF Reconcile, Id
  <2> QED BY <2>3, <2>4, <2>5
<1>3. Faded
  BY <1>2 DEF Faded
<1>4. TypeOK'
  <2>1. vectors' \subseteq Id
    BY DEF Invariant, TypeOK, Delete, Purge, Reconcile
  <2>2. Job' = Job /\ Document' = Document
    BY <1>2 DEF Job, Document
  <2> QED BY <1>1, <1>2, <2>1, <2>2 DEF Invariant, TypeOK
<1>5. CallsAreSound'
  BY <1>1 DEF Invariant, CallsAreSound, Sound, Size, TextOf
<1>6. LocksWork'
  <2>1. WorkersHoldLock'
    BY <1>1 DEF Invariant, LocksWork, WorkersHoldLock, Locks
  <2> QED BY <1>1, <1>3, <2>1, FadedDocumentsAreNotMissed DEF Invariant, LocksWork
<1>7. InformationKept'
  BY <1>1, <1>2 DEF Invariant, DuplicatesMerge, InformationKept, Size, TextOf
<1>8. LockedToolsSee'
  BY <1>1, <1>3, FadedDocumentsAreSeen DEF Invariant, DuplicatesMerge
<1> QED BY <1>4, <1>5, <1>6, <1>7, <1>8 DEF Invariant, DuplicatesMerge

\* The documents that a commit adds are new; those that it finds stay or fade, and fade only
\* in favour of a new one that is no smaller.
LEMMA CommittedDocuments ==
  ASSUME ObservationsAssumption, Invariant, NEW w \in Writer, Commit(w)
  PROVE  /\ Id' = Id \union NewIds(w)
         /\ \A i \in Id : docs'[i] = Inherited(w, i)
         /\ \A i \in NewIds(w) : docs'[i] = NewDocument(w, TextOf(i))
         /\ \A i \in NewIds(w) : /\ i \notin Id /\ i[1] = commits + 1 /\ TextOf(i) \in Content
                                 /\ i \in (1..(commits + 1)) \X Content
         /\ \A i \in Id : HeirsOf(w, i) \subseteq NewIds(w)
         /\ \A i \in Id : \A h \in HeirsOf(w, i) : Size(TextOf(h)) >= Size(TextOf(i))
<1>1. job[w] \in Job /\ Sound(job[w]) /\ commits \in Nat
  BY DEF Invariant, TypeOK, CallsAreSound
<1>2. Id' = Id \union NewIds(w)
  BY DEF Commit, Id
<1>3. /\ \A i \in Id : docs'[i] = Inherited(w, i)
      /\ \A i \in NewIds(w) \ Id : docs'[i] = NewDocument(w, TextOf(i))
  BY DEF Commit, Id
<1>4. \A i \in NewIds(w) : /\ i[1] = commits + 1 /\ TextOf(i) \in Content
                           /\ i \in (1..(commits + 1)) \X Content
  <2> TAKE i \in NewIds(w)
  <2>1. PICK p \in job[w].kept : i = <<commits + 1, p[1]>>
    BY DEF NewIds
  <2>2. p[1] \in Content
    BY <1>1 DEF Job
  <2> QED BY <1>1, <2>1, <2>2 DEF TextOf
<1>5. \A i \in NewIds(w) : i \notin Id
  BY <1>1, <1>4, IdsAreTexts DEF Invariant
<1>6. ASSUME NEW i \in Id, NEW h \in HeirsOf(w, i)
      PROVE  h \in NewIds(w) /\ Size(TextOf(h)) >= Size(TextOf(i))
  <2>1. PICK p \in job[w].superseded : p[1] = i /\ h = <<commits + 1, p[2]>>
    BY <1>6 DEF HeirsOf
  <2>2. Size(p[2]) >= Size(TextOf(p[1])) /\ \E q \in job[w].kept : q[1] = p[2]
    BY <1>1 DEF Sound
  <2>3. TextOf(h) = p[2]
    BY <2>1 DEF TextOf
  <2> QED BY <2>1, <2>2, <2>3 DEF NewIds
<1> QED BY <1>2, <1>3, <1>4, <1>5, <1>6

LEMMA CommitKeepsTypes ==
  ASSUME ObservationsAssumption, Invariant, NEW w \in Writer, Commit(w)
  PROVE  /\ TypeOK' /\ CallsAreSound'
         /\ \A v \in Writer : (v # w /\ job'[v] = job[v]) \/ (v = w /\ job'[v].kept = {})
<1>1. /\ Id' = Id \union NewIds(w) /\ docs' = [i \in Id' |-> docs'[i]]
      /\ commits' = commits + 1 /\ commits \in Nat
      /\ UNCHANGED <<external, staff, vectors, calls>>
  BY CommittedDocuments DEF Commit, Id, Invariant, TypeOK
<1>2. Job \subseteq Job' /\ Document \subseteq Document'
  BY <1>1 DEF Job, Document
<1>3. \A i \in Id : docs'[i] \in Document'
  <2> TAKE i \in Id
  <2>1. docs[i] \in Document /\ docs'[i] = Inherited(w, i) /\ HeirsOf(w, i) \subseteq Id'
    BY <1>1, CommittedDocuments DEF Invariant, TypeOK
  <2>2. CASE HeirsOf(w, i) = {}
    BY <1>2, <2>1, <2>2 DEF Inherited
  <2>3. CASE HeirsOf(w, i) # {}
    <3> DEFINE H == docs[i].heirs \union HeirsOf(w, i)
    <3>1. docs'[i] = [docs[i] EXCEPT !.state = "deleted", !.heirs = H]
      BY <2>1, <2>3 DEF Inherited
    <3>2. H \in SUBSET Id'
      BY <1>1, <2>1 DEF Document
    <3>3. docs[i] \in Document'
      BY <1>2, <2>1
    <3> HIDE DEF H
    <3> QED BY <3>1, <3>2, <3>3 DEF Document
  <2> QED BY <2>2, <2>3
<1>4. \A i \in NewIds(w) : docs'[i] \in Document'
  <2> TAKE i \in NewIds(w)
  <2>1. docs'[i] = NewDocument(w, TextOf(i))
    BY CommittedDocuments
  <2>2. PICK p \in job[w].kept : i = <<commits + 1, p[1]>>
    BY DEF NewIds
  <2>3. p[2] \in HitsOf(w, TextOf(i))
    BY <2>2 DEF HitsOf, TextOf
  <2>4. HitsOf(w, TextOf(i)) \subseteq Id \union {None}
    BY DEF HitsOf, Invariant, TypeOK, Job
  <2> DEFINE hit == CHOOSE h \in HitsOf(w, TextOf(i)) : TRUE
  <2>5. hit \in Id' \union {None}
    BY <1>1, <2>3, <2>4
  <2>6. HomeOf(w) \in Home \union {None}
    BY DEF HomeOf, Locks, Invariant, TypeOK, ObservationsAssumption
  <2> HIDE DEF hit
  <2>7. docs'[i] = [state |-> "active", explicit |-> FALSE, heirs |-> {}, by |-> HomeOf(w),
                    hit |-> hit]
    BY <2>1 DEF NewDocument, hit
  <2> QED BY <2>5, <2>6, <2>7 DEF Document
<1>5. docs' \in [Id' -> Document']
  BY <1>1, <1>3, <1>4
<1>6. \E j \in Job' : Sound(j) /\ j.kept = {} /\ job' = [job EXCEPT ![w] = j]
  <2>1. Idle \in Job' /\ Sound(Idle) /\ Idle.kept = {}
    BY <1>2, IdleIsAJob DEF Idle
  <2>2. CASE job' = [job EXCEPT ![w] = Idle]
    BY <2>1, <2>2
  <2>3. CASE job' = [job EXCEPT ![w] = [Idle EXCEPT !.at = "upserting", !.fresh = NewIds(w)]]
    <3> DEFINE j == [Idle EXCEPT !.at = "upserting", !.fresh = NewIds(w)]
    <3>1. NewIds(w) \in SUBSET Id'
      BY <1>1
    <3>2. /\ j.at = "upserting" /\ j.kept = {} /\ j.superseded = {} /\ j.rejected = {}
          /\ j \in Job'
      BY <2>1, <3>1 DEF Job, Idle
    <3> HIDE DEF j
    <3>3. Sound(j)
      BY <3>2 DEF Sound
    <3> QED BY <2>3, <3>2, <3>3 DEF j
  <2> QED BY <2>2, <2>3 DEF Commit
<1>7. /\ job' \in [Writer -> Job']
      /\ \A v \in Writer :
           /\ Sound(job'[v])
           /\ ((v # w /\ job'[v] = job[v]) \/ (v = w /\ job'[v].kept = {}))
  <2>1. PICK j \in Job' : Sound(j) /\ j.kept = {} /\ job' = [job EXCEPT ![w] = j]
    BY <1>6
  <2>2. job \in [Writer -> Job'] /\ \A v \in Writer : Sound(job[v])
    BY <1>2 DEF Invariant, TypeOK, CallsAreSound
  <2>3. \A v \in Writer : job'[v] = IF v = w THEN j ELSE job[v]
    BY <2>1, <2>2
  <2>4. job' \in [Writer -> Job']
    BY <2>1, <2>2
  <2>5. \A v \in Writer : Sound(job'[v])
    BY <2>1, <2>2, <2>3
  <2>6. job'[w].kept = {} /\ \A v \in Writer : v # w => job'[v] = job[v]
    BY <2>1, <2>3
  <2>7. \A v \in Writer : (v # w /\ job'[v] = job[v]) \/ (v = w /\ job'[v].kept = {})
    <3> TAKE v \in Writer
    <3>1. CASE v = w
      BY <2>6, <3>1
    <3>2. CASE v # w
      BY <2>6, <3>2
    <3> QED BY <3>1, <3>2
  <2> QED BY <2>4, <2>5, <2>7
<1>8. holder' \in [Home -> Writer \union {None}]
  <2>1. holder' = holder \/ Release(w)
    BY DEF Commit
  <2>2. holder \in [Home -> Writer \union {None}]
    BY DEF Invariant, TypeOK
  <2> QED BY <2>1, <2>2 DEF Release
<1>9. Id' \subseteq (1..commits') \X Content
  <2>1. Id \subseteq (1..(commits + 1)) \X Content
    BY <1>1 DEF Invariant, TypeOK
  <2> QED BY <1>1, <2>1, CommittedDocuments
<1>10. answered' \subseteq Content \X Id'
  <2>1. job[w].rejected \subseteq Content \X Id' /\ answered \subseteq Content \X Id'
    BY <1>1 DEF Invariant, TypeOK, Job
  <2>2. {<<TextOf(i), i>> : i \in NewIds(w)} \subseteq Content \X Id'
    BY <1>1, CommittedDocuments
  <2> QED BY <2>1, <2>2 DEF Commit
<1>11. TypeOK'
  BY <1>1, <1>5, <1>7, <1>8, <1>9, <1>10 DEF Invariant, TypeOK
<1> QED BY <1>7, <1>11 DEF CallsAreSound, Sound, Size, TextOf

\* A check that found nothing is told so by the new document.
LEMMA CommitKeepsSight ==
  ASSUME ObservationsAssumption, Invariant, NEW w \in Writer, Commit(w)
  PROVE  LocksWork' /\ LockedToolsSee'
<1>1. /\ Id' = Id \union NewIds(w) /\ UNCHANGED <<external, staff>>
      /\ \A v \in Writer : (v # w /\ job'[v] = job[v]) \/ (v = w /\ job'[v].kept = {})
  BY CommittedDocuments, CommitKeepsTypes DEF Commit
<1>2. \A i \in Id : /\ docs'[i].by = docs[i].by /\ docs'[i].hit = docs[i].hit
                    /\ docs'[i].state = "active" => docs[i].state = "active" /\ HeirsOf(w, i) = {}
  <2> TAKE i \in Id
  <2>1. docs'[i] = Inherited(w, i) /\ docs[i] \in Document
    BY CommittedDocuments DEF Invariant, TypeOK
  <2>2. CASE HeirsOf(w, i) = {}
    BY <2>1, <2>2 DEF Inherited
  <2>3. CASE HeirsOf(w, i) # {}
    BY <2>1, <2>3 DEF Inherited, Document
  <2> QED BY <2>2, <2>3
<1>3. \A i \in NewIds(w) : docs'[i] = NewDocument(w, TextOf(i)) /\ docs'[i].by = HomeOf(w)
  BY CommittedDocuments DEF NewDocument
<1>4. WorkersHoldLock'
  <2>1. CASE job' = [job EXCEPT ![w] = Idle] /\ Release(w)
    BY <1>1, <2>1, ReleaseKeepsLocks DEF Invariant, LocksWork
  <2>2. CASE holder' = holder
    <3> SUFFICES ASSUME NEW v \in Writer, Locks(v)', job'[v].at \in Working
                 PROVE  holder'[staff'[v].home] = v
      BY DEF WorkersHoldLock
    <3>1. job[v].at \in Working
      <4>1. CASE v = w
        BY <4>1 DEF Commit, Working
      <4>2. CASE v # w
        BY <1>1, <4>2
      <4> QED BY <4>1, <4>2
    <3> QED BY <1>1, <2>2, <3>1 DEF Invariant, LocksWork, WorkersHoldLock, Locks
  <2> QED BY <2>1, <2>2 DEF Commit
<1>5. ASSUME NEW v \in Writer PROVE NothingMissed(v)'
  <2> SUFFICES ASSUME NEW q \in job'[v].kept, NEW i \in Id',
                      Locks(v), ~external, q[2] = None, docs'[i].by = staff[v].home,
                      docs'[i].state = "active", <<q[1], TextOf(i)>> \in Similar
               PROVE  \E p \in job'[v].superseded : p[1] = i
    BY <1>1 DEF NothingMissed, Locks, TextOf
  <2>1. (job'[v] = job[v] /\ v # w) \/ job'[v].kept = {}
    BY <1>1
  <2>2. v # w /\ job'[v] = job[v] /\ job[v].kept # {}
    BY <1>1, <2>1
  <2>3. CASE i \in Id
    BY <1>2, <2>2, <2>3 DEF Invariant, LocksWork, NothingMissed
  <2>4. CASE i \in NewIds(w)
    <3>1. HomeOf(w) = staff[v].home /\ staff[v].home \in Home
      BY <1>3, <2>4 DEF Invariant, TypeOK, ObservationsAssumption
    <3>2. Locks(w) /\ staff[w].home = staff[v].home
      BY <3>1 DEF HomeOf, ObservationsAssumption
    <3>3. job[v].at \in Working /\ job[w].at \in Working
      <4>1. job[v].at \notin {"idle", "waiting", "embedding"} /\ job[v] \in Job
        BY <2>2 DEF Invariant, CallsAreSound, Sound, TypeOK
      <4> QED BY <4>1 DEF Job, Working, Commit
    <3>4. holder[staff[v].home] = v /\ holder[staff[w].home] = w
      BY <3>2, <3>3 DEF Invariant, LocksWork, WorkersHoldLock
    <3> QED BY <2>2, <3>2, <3>4
  <2> QED BY <1>1, <2>3, <2>4
<1>6. LockedToolsSee'
  <2> SUFFICES ASSUME ~external, NEW i \in Id', NEW j \in Id',
                      i[1] < j[1], docs'[i].by = docs'[j].by, docs'[i].by # None,
                      docs'[i].state = "active", docs'[j].state = "active",
                      <<TextOf(i), TextOf(j)>> \in Similar, docs'[j].hit = None
               PROVE  FALSE
    BY <1>1 DEF LockedToolsSee, TextOf
  <2>1. commits \in Nat /\ \A k \in Id : k[1] \in 1..commits
    BY IdsAreTexts DEF Invariant, TypeOK
  <2>2. \A k \in NewIds(w) : k[1] = commits + 1
    BY CommittedDocuments
  <2>3. CASE i \in NewIds(w)
    BY <1>1, <2>1, <2>2, <2>3
  <2>4. CASE i \in Id /\ j \in Id
    BY <1>2, <2>4 DEF Invariant, DuplicatesMerge, LockedToolsSee
  <2>5. CASE i \in Id /\ j \in NewIds(w)
    <3>1. docs'[j] = NewDocument(w, TextOf(j)) /\ docs[i].by = HomeOf(w)
      BY <1>2, <1>3, <2>5
    <3>2. Locks(w) /\ docs[i].by = staff[w].home /\ docs[i].state = "active"
      BY <1>2, <2>5, <3>1 DEF HomeOf
    <3>3. HitsOf(w, TextOf(j)) # {}
      <4>1. PICK p \in job[w].kept : j = <<commits + 1, p[1]>>
        BY <2>5 DEF NewIds
      <4>2. p[2] \in HitsOf(w, TextOf(j))
        BY <4>1 DEF HitsOf, TextOf
      <4> QED BY <4>2
    <3>4. None \in HitsOf(w, TextOf(j))
      <4>1. None = CHOOSE h \in HitsOf(w, TextOf(j)) : TRUE
        BY <3>1 DEF NewDocument
      <4> QED BY <3>3, <4>1
    <3>5. PICK q \in job[w].kept : q[1] = TextOf(j) /\ q[2] = None
      BY <3>4 DEF HitsOf
    <3>6. <<q[1], TextOf(i)>> \in Similar
      <4>1. \A p \in Similar : <<p[2], p[1]>> \in Similar
        BY DEF ObservationsAssumption
      <4>2. <<TextOf(j), TextOf(i)>> \in Similar
        BY <4>1
      <4> QED BY <3>5, <4>2
    <3>7. PICK p \in job[w].superseded : p[1] = i
      BY <2>5, <3>2, <3>5, <3>6 DEF Invariant, LocksWork, NothingMissed
    <3>8. HeirsOf(w, i) # {}
      BY <3>7 DEF HeirsOf
    <3> QED BY <1>2, <2>5, <3>8
  <2> QED BY <1>1, <2>3, <2>4, <2>5
<1> QED BY <1>4, <1>5, <1>6 DEF LocksWork

LEMMA CommitKeepsInformation ==
  ASSUME ObservationsAssumption, Invariant, NEW w \in Writer, Commit(w)
  PROVE  InformationKept'
<1>1. Id' = Id \union NewIds(w)
  BY CommittedDocuments
<1>2. \A p \in answered' : Size(TextOf(p[2])) >= Size(p[1])
  <2> TAKE p \in answered'
  <2>1. CASE p \in answered
    BY <2>1 DEF Invariant, DuplicatesMerge, InformationKept
  <2>2. CASE p \in job[w].rejected
    BY <2>2 DEF Invariant, CallsAreSound, Sound
  <2>3. CASE p \in {<<TextOf(i), i>> : i \in NewIds(w)}
    <3>1. PICK i \in NewIds(w) : p = <<TextOf(i), i>>
      BY <2>3
    <3>2. Size(TextOf(i)) \in Nat
      BY CommittedDocuments, SizesAreNumbers
    <3> QED BY <3>1, <3>2
  <2> QED BY <2>1, <2>2, <2>3 DEF Commit
<1>3. ASSUME NEW i \in Id', docs'[i].state # "active", ~docs'[i].explicit
      PROVE  \E h \in docs'[i].heirs : h[1] > i[1] /\ Size(TextOf(h)) >= Size(TextOf(i))
  <2>1. i \in Id
    <3>1. \A k \in NewIds(w) : docs'[k] = NewDocument(w, TextOf(k))
      BY CommittedDocuments
    <3>2. \A k \in NewIds(w) : docs'[k].state = "active"
      <4> TAKE k \in NewIds(w)
      <4> DEFINE hit == CHOOSE h \in HitsOf(w, TextOf(k)) : TRUE
      <4> HIDE DEF hit
      <4>1. docs'[k] = [state |-> "active", explicit |-> FALSE, heirs |-> {}, by |-> HomeOf(w),
                        hit |-> hit]
        BY <3>1 DEF NewDocument, hit
      <4> QED BY <4>1
    <3> QED BY <1>1, <1>3, <3>2
  <2>2. docs'[i] = Inherited(w, i) /\ docs[i] \in Document
    BY <2>1, CommittedDocuments DEF Invariant, TypeOK
  <2>3. CASE HeirsOf(w, i) = {}
    BY <1>3, <2>1, <2>2, <2>3 DEF Inherited, Invariant, DuplicatesMerge, InformationKept
  <2>4. CASE HeirsOf(w, i) # {}
    <3>1. docs'[i].heirs = docs[i].heirs \union HeirsOf(w, i)
      BY <2>2, <2>4 DEF Inherited, Document
    <3>2. PICK h \in HeirsOf(w, i) : TRUE
      BY <2>4
    <3>3. h[1] = commits + 1 /\ Size(TextOf(h)) >= Size(TextOf(i))
      BY <2>1, <3>2, CommittedDocuments
    <3>4. commits \in Nat /\ i[1] \in 1..commits
      BY <2>1, IdsAreTexts DEF Invariant, TypeOK
    <3> QED BY <3>1, <3>2, <3>3, <3>4
  <2> QED BY <2>3, <2>4
<1> QED BY <1>2, <1>3 DEF InformationKept, Size, TextOf

-----------------------------------------------------------------------------
LEMMA InvariantInitially ==
  ASSUME ObservationsAssumption, Init
  PROVE  Invariant
<1>1. PICK stored \in Batches \union {{}} :
        docs = [i \in {1} \X stored |-> [state |-> "active", explicit |-> FALSE, heirs |-> {},
                                         by |-> None, hit |-> None]]
  BY DEF Init
<1>2. Id = {1} \X stored /\ stored \subseteq Content
  BY <1>1 DEF Id, ObservationsAssumption
<1>3. \A i \in Id : /\ docs[i].state = "active" /\ docs[i].by = None
                    /\ docs[i] \in Document
  BY <1>1, <1>2 DEF Document
<1>4. TypeOK
  <2>1. docs \in [Id -> Document]
    <3>1. docs = [i \in Id |-> docs[i]]
      BY <1>1, <1>2
    <3> QED BY <1>3, <3>1
  <2>4. commits = 1 /\ Id \subseteq (1..commits) \X Content
    BY <1>2 DEF Init
  <2>2. vectors \subseteq Id
    BY DEF Init
  <2>3. job \in [Writer -> Job] /\ holder \in [Home -> Writer \union {None}]
    BY IdleIsAJob DEF Init
  <2>5. external \in BOOLEAN /\ staff \in Staffs /\ calls \in Nat /\ answered = {}
    BY DEF Init
  <2> QED BY <2>1, <2>2, <2>3, <2>4, <2>5 DEF TypeOK
<1>5. CallsAreSound
  BY IdleIsAJob DEF Init, CallsAreSound
<1>6. LocksWork
  BY DEF Init, LocksWork, WorkersHoldLock, NothingMissed, Idle, Working
<1>7. DuplicatesMerge
  BY <1>3 DEF Init, DuplicatesMerge, InformationKept, LockedToolsSee
<1> QED BY <1>4, <1>5, <1>6, <1>7 DEF Invariant

LEMMA InvariantPreserved ==
  ASSUME ObservationsAssumption, Invariant, [Next]_observationVars
  PROVE  Invariant'
<1>1. CASE UNCHANGED observationVars
  BY <1>1 DEF observationVars, Invariant, TypeOK, Job, Document, Id, CallsAreSound, Sound, LocksWork,
     WorkersHoldLock, NothingMissed, DuplicatesMerge, InformationKept, LockedToolsSee, Locks, Size,
     TextOf
<1>2. ASSUME NEW w \in Writer, JobStep(w) PROVE Invariant'
  <2>1. TypeOK' /\ CallsAreSound'
    BY <1>2, JobStepsKeepTypes DEF Invariant
  <2>2. LocksWork'
    BY <1>2, JobStepsKeepLocks, JobStepsMissNothing DEF Invariant, LocksWork
  <2>3. DuplicatesMerge'
    BY <1>2, JobStepsKeepDocuments DEF Invariant
  <2> QED BY <2>1, <2>2, <2>3 DEF Invariant
<1>3. ASSUME NEW w \in Writer, Commit(w) PROVE Invariant'
  BY <1>3, CommitKeepsTypes, CommitKeepsSight, CommitKeepsInformation DEF Invariant, DuplicatesMerge
<1>4. ASSUME NEW w \in Writer, Upsert(w) PROVE Invariant'
  BY <1>4, UpsertKeepsInvariant
<1>5. ASSUME NEW w \in Writer, Abort(w) PROVE Invariant'
  BY <1>5, AbortKeepsInvariant
<1>6. ASSUME NEW i \in Id, Delete(i) \/ Purge(i) \/ Reconcile(i) PROVE Invariant'
  BY <1>6, FadingKeepsInvariant
<1> QED BY <1>1, <1>2, <1>3, <1>4, <1>5, <1>6 DEF Next, CallStep, JobStep

\* Whoever writes, however many at once and whatever fails: merging duplicates loses no
\* information, and the tools of a process see each other's documents.
THEOREM DuplicatesAreMerged ==
  ASSUME ObservationsAssumption
  PROVE  Spec => []DuplicatesMerge
<1>1. Init => Invariant
  BY InvariantInitially
<1>2. Invariant /\ [Next]_observationVars => Invariant'
  BY InvariantPreserved
<1>3. Invariant => DuplicatesMerge
  BY DEF Invariant
<1> QED BY <1>1, <1>2, <1>3, PTL DEF Spec
-----------------------------------------------------------------------------
(* What a work unit is served: sums of tokens. *)

\* Some numbers have a least one.
LEMMA LeastNumber ==
  ASSUME NEW S \in SUBSET Nat, S # {}
  PROVE  \E x \in S : \A y \in S : x <= y
<1> DEFINE LessThan == {ss \in Nat \X Nat : ss[1] < ss[2]}
<1>1. IsWellFoundedOn(LessThan, Nat)
  BY NatLessThanWellFounded DEF OpToRel
<1>2. PICK x \in S : \A y \in S : ~(<<y, x>> \in LessThan)
  <2> HIDE DEF LessThan
  <2> QED
    BY <1>1, WFMin
<1>3. ASSUME NEW y \in S PROVE x <= y
  <2>1. <<y, x>> \in LessThan <=> y < x
    OBVIOUS
  <2>2. x \in Nat /\ y \in Nat /\ ~(y < x)
    BY <1>2, <2>1
  <2> QED
    BY <2>2
<1> QED
  BY <1>3

\* What Min and Max find.
LEMMA Smallest ==
  ASSUME NEW S \in SUBSET Nat, S # {}
  PROVE  Unit!Min(S) \in S /\ \A y \in S : Unit!Min(S) <= y
BY LeastNumber DEF Unit!Min

LEMMA Largest ==
  ASSUME NEW b \in Nat, NEW S \in SUBSET (0..b), S # {}
  PROVE  Unit!Max(S) \in S /\ \A y \in S : y <= Unit!Max(S)
<1> DEFINE T == {b - x : x \in S}
<1>1. T \in SUBSET Nat /\ T # {}
  <2>1. \A x \in S : b - x \in Nat
    <3>1. \A x \in S : x \in 0..b
      OBVIOUS
    <3> QED
      BY <3>1
  <2> QED
    BY <2>1
<1>2. PICK t \in T : \A u \in T : t <= u
  BY <1>1, LeastNumber
<1>3. PICK x \in S : t = b - x
  BY <1>2
<1>4. \A y \in S : y <= x
  <2>1. ASSUME NEW y \in S PROVE y <= x
    <3>1. b - y \in T
      OBVIOUS
    <3>2. t <= b - y
      BY <1>2, <3>1
    <3>3. x \in 0..b /\ y \in 0..b
      OBVIOUS
    <3> QED
      BY <1>3, <3>2, <3>3
  <2> QED
    BY <2>1
<1> QED
  BY <1>3, <1>4 DEF Unit!Max

\* The running sum of a conversation from some message on.
IsSum(from, sum) ==
  sum = [m \in 0..Len(messages) |->
           IF m < from THEN 0 ELSE sum[m - 1] + messages[m].tokens]

Conversation ==
  /\ messages \in Seq(Unit!Message) /\ \A m \in 1..Len(messages) : messages[m].tokens \in Nat

\* There is such a sum, and it grows.
LEMMA SumExists ==
  ASSUME Conversation, NEW from \in Nat \ {0}
  PROVE  \E sum : IsSum(from, sum)
<1> DEFINE Added(g, m) == IF m < from THEN 0 ELSE g[m - 1] + messages[m].tokens
           Has(n) == \E g \in [0..n -> Nat] : \A m \in 0..n : g[m] = Added(g, m)
           Lacks == {n \in Nat : n <= Len(messages) /\ ~Has(n)}
<1>0. \A n \in Nat : n <= Len(messages) /\ n \notin Lacks => Has(n)
  <2> HIDE DEF Has
  <2> QED
    OBVIOUS
<1>1. Len(messages) \in Nat
  BY DEF Conversation
<1>2. Lacks = {}
  <2>1. SUFFICES ASSUME Lacks # {} PROVE FALSE
    OBVIOUS
  <2>2. PICK n \in Lacks : \A k \in Lacks : n <= k
    <3> HIDE DEF Lacks
    <3>1. Lacks \in SUBSET Nat
      BY DEF Lacks
    <3> QED
      BY <2>1, <3>1, LeastNumber
  <2>3. CASE n = 0
    <3> DEFINE g == [m \in 0..n |-> 0]
    <3>1. g \in [0..n -> Nat] /\ \A m \in 0..n : g[m] = Added(g, m)
      BY <2>3
    <3> QED
      BY <2>2, <3>1
  <2>4. CASE n # 0
    <3>1. /\ n \in Nat /\ n - 1 \in Nat /\ n <= Len(messages) /\ n \in 1..Len(messages)
          /\ n - 1 <= Len(messages) /\ ~(n <= n - 1)
      BY <1>1, <2>2, <2>4
    <3>2. n - 1 \notin Lacks
      <4> HIDE DEF Lacks
      <4> QED
        BY <2>2, <3>1
    <3>3. Has(n - 1)
      <4> HIDE DEF Has, Lacks
      <4> QED
        BY <1>0, <3>1, <3>2
    <3>4. PICK g \in [0..(n - 1) -> Nat] : \A m \in 0..(n - 1) : g[m] = Added(g, m)
      BY <3>3
    <3> DEFINE h == [m \in 0..n |-> IF m = n THEN Added(g, n) ELSE g[m]]
    <3>5. Added(g, n) \in Nat
      BY <3>1, <3>4 DEF Conversation
    <3>6. h \in [0..n -> Nat]
      BY <3>1, <3>4, <3>5
    <3>7. ASSUME NEW m \in 0..n PROVE h[m] = Added(h, m)
      <4>1. CASE m = n
        <5>1. h[m] = Added(g, n)
          BY <3>1, <4>1
        <5>2. h[n - 1] = g[n - 1]
          BY <3>1
        <5> QED
          BY <4>1, <5>1, <5>2
      <4>2. CASE m # n
        <5>1. m \in 0..(n - 1)
          BY <3>1, <4>2
        <5>2. h[m] = g[m] /\ g[m] = Added(g, m)
          BY <3>4, <4>2, <5>1
        <5>3. ~(m < from) => m - 1 \in 0..(n - 1) /\ m - 1 # n
          BY <3>1, <5>1
        <5>4. ~(m < from) => h[m - 1] = g[m - 1]
          BY <3>1, <5>3
        <5> QED
          BY <5>2, <5>4
      <4> QED
        BY <4>1, <4>2
    <3> QED
      BY <2>2, <3>6, <3>7
  <2> QED
    BY <2>3, <2>4
<1>3. Has(Len(messages))
  <2> HIDE DEF Has, Lacks
  <2>1. Len(messages) <= Len(messages) /\ Len(messages) \notin Lacks
    BY <1>1, <1>2
  <2> QED
    BY <1>0, <1>1, <2>1
<1>4. PICK g \in [0..Len(messages) -> Nat] : \A m \in 0..Len(messages) : g[m] = Added(g, m)
  BY <1>3
<1>5. g = [m \in 0..Len(messages) |-> Added(g, m)]
  BY <1>4
<1> QED
  BY <1>5 DEF IsSum

LEMMA TokensAreASum ==
  ASSUME Conversation, NEW from \in Nat \ {0}
  PROVE  \E sum : IsSum(from, sum) /\ \A to : Unit!Tokens(from, to) = sum[to]
<1> DEFINE sum == CHOOSE s : IsSum(from, s)
<1>1. IsSum(from, sum)
  BY SumExists
<1>2. \A to : Unit!Tokens(from, to) = sum[to]
  BY DEF Unit!Tokens, IsSum
<1> QED
  BY <1>1, <1>2

\* A longer piece of the conversation has no fewer tokens.
LEMMA TokensGrow ==
  ASSUME Conversation, NEW from \in 1..Len(messages),
         NEW m \in from..Len(messages), NEW n \in m..Len(messages)
  PROVE  /\ Unit!Tokens(from, m) \in Nat /\ Unit!Tokens(from, n) \in Nat
         /\ Unit!Tokens(from, m) <= Unit!Tokens(from, n)
<1>1. PICK s : IsSum(from, s) /\ \A to : Unit!Tokens(from, to) = s[to]
  BY TokensAreASum
<1>2. /\ Len(messages) \in Nat /\ from \in Nat /\ m \in Nat /\ n \in Nat
      /\ from >= 1 /\ from <= m /\ m <= n /\ n <= Len(messages)
  BY DEF Conversation
<1>3. \A k \in 0..Len(messages) :
        s[k] = IF k < from THEN 0 ELSE s[k - 1] + messages[k].tokens
  BY <1>1 DEF IsSum
<1>4. \A k \in 1..Len(messages) : messages[k].tokens \in Nat
  BY DEF Conversation
<1> DEFINE Wrong == {k \in Nat : k <= Len(messages)
                                 /\ ~(s[k] \in Nat /\ (k > m => s[m] \in Nat /\ s[m] <= s[k]))}
<1>5. Wrong = {}
  <2>1. SUFFICES ASSUME Wrong # {} PROVE FALSE
    OBVIOUS
  <2>2. PICK k \in Wrong : \A j \in Wrong : k <= j
    <3> HIDE DEF Wrong
    <3>1. Wrong \in SUBSET Nat
      BY DEF Wrong
    <3> QED
      BY <2>1, <3>1, LeastNumber
  <2>3. k \in 0..Len(messages)
    BY <1>2, <2>2
  <2>4. CASE k < from
    BY <1>2, <1>3, <2>2, <2>3, <2>4
  <2>5. CASE ~(k < from)
    <3>1. k - 1 \in Nat /\ k - 1 <= Len(messages) /\ k - 1 \notin Wrong /\ k \in 1..Len(messages)
      BY <1>2, <2>2, <2>3, <2>5
    <3>2. s[k - 1] \in Nat /\ (k - 1 > m => s[m] \in Nat /\ s[m] <= s[k - 1])
      BY <3>1
    <3>3. s[k] = s[k - 1] + messages[k].tokens /\ messages[k].tokens \in Nat
      BY <1>3, <1>4, <2>3, <2>5, <3>1
    <3>4. s[k] \in Nat
      BY <3>2, <3>3
    <3>5. k > m => s[m] \in Nat /\ s[m] <= s[k]
      <4>1. CASE k - 1 > m
        BY <3>2, <3>3, <4>1
      <4>2. CASE k - 1 = m
        BY <3>2, <3>3, <4>2
      <4> QED
        BY <1>2, <3>1, <4>1, <4>2
    <3> QED
      BY <2>2, <3>4, <3>5
  <2> QED
    BY <2>4, <2>5
<1>6. s[m] \in Nat /\ s[n] \in Nat
  BY <1>2, <1>5
<1>7. s[m] <= s[n]
  <2>1. CASE m = n
    BY <1>6, <2>1
  <2>2. CASE m # n
    BY <1>2, <1>5, <2>2
  <2> QED
    BY <2>1, <2>2
<1> QED
  BY <1>1, <1>6, <1>7

-----------------------------------------------------------------------------
(* What a fetch finds. *)

Rows == {m \in DOMAIN messages : messages[m].observers # {}}

\* The types, and a batch has rows.
BatchTypes ==
  /\ messages \in Seq(Unit!Message) /\ Len(messages) <= MaxMessages
  /\ processed \subseteq Rows
  /\ serving.items \subseteq Rows \ processed
  /\ serving.context \subseteq DOMAIN messages
  /\ derived \subseteq Peer \X DOMAIN messages

LEMMA MessageParts ==
  ASSUME NEW m \in Unit!Message
  PROVE  m.tokens \in Nat /\ m.observers \subseteq Peer
<1>1. Unit!Observers \subseteq SUBSET Peer
  BY UnitAssumed DEF Unit!BatchAssumption, Unit!Observers
<1>2. m.tokens \in TokenCount /\ (m.observers = {} \/ m.observers \in Unit!Observers)
  BY DEF Unit!Message
<1> QED
  BY <1>1, <1>2, UnitAssumed DEF Unit!BatchAssumption

LEMMA Conversations == BatchTypes => Conversation
<1> SUFFICES ASSUME BatchTypes PROVE Conversation
  OBVIOUS
<1>1. messages \in Seq(Unit!Message)
  BY DEF BatchTypes
<1>2. \A m \in 1..Len(messages) : messages[m] \in Unit!Message
  BY <1>1
<1> QED
  BY <1>1, <1>2, MessageParts DEF Conversation

Least(x, S) == x \in S /\ \A y \in S : x <= y

LEMMA LeastIsMin ==
  ASSUME NEW S \in SUBSET Nat, NEW x \in S, \A y \in S : x <= y
  PROVE  Unit!Min(S) = x
<1>1. Unit!Min(S) \in S /\ Unit!Min(S) <= x
  BY Smallest
<1>2. x <= Unit!Min(S) /\ x \in Nat /\ Unit!Min(S) \in Nat
  BY <1>1
<1> QED
  BY <1>1, <1>2

\* The window of a fetch: where it starts, that its rows begin with the first pending
\* one, and that the budget cuts only its end.
LEMMA Window ==
  ASSUME BatchTypes, Unit!Pending # {}
  PROVE  /\ Unit!First \in 1..Len(messages) /\ Least(Unit!First, Unit!Pending)
         /\ Unit!Pending \subseteq 1..Len(messages)
         /\ Unit!Start \in 1..Unit!First /\ Unit!First <= Unit!Start + 1
         /\ Unit!Start # Unit!First => messages[Unit!Start].peer # Observed
         /\ Unit!First \in Unit!Allowed /\ Unit!Allowed \subseteq Unit!Start..Len(messages)
<1>1. Len(messages) \in Nat /\ DOMAIN messages = 1..Len(messages)
  BY DEF BatchTypes
<1>2. Unit!Pending \subseteq 1..Len(messages)
  BY <1>1 DEF Unit!Pending
<1>3. Unit!Pending \in SUBSET Nat
  BY <1>1, <1>2
<1>4. Unit!First \in Unit!Pending /\ \A m \in Unit!Pending : Unit!First <= m
  BY <1>3, Smallest DEF Unit!First
<1>5. Unit!First \in Nat /\ 1 <= Unit!First /\ Unit!First <= Len(messages)
  BY <1>1, <1>2, <1>4
<1>6. /\ Unit!Start \in 1..Unit!First /\ Unit!First <= Unit!Start + 1
      /\ Unit!Start # Unit!First => messages[Unit!Start].peer # Observed
  BY <1>5 DEF Unit!Start
<1>7. Unit!First \in Unit!Allowed
  BY <1>1, <1>5, <1>6 DEF Unit!Allowed
<1>8. Unit!Allowed \subseteq Unit!Start..Len(messages)
  BY DEF Unit!Allowed
<1> QED
  BY <1>1, <1>2, <1>4, <1>5, <1>6, <1>7, <1>8 DEF Least

LEMMA WithinBudget ==
  ASSUME BatchTypes, Unit!Pending # {},
         NEW m \in Unit!Start..Len(messages), Unit!Tokens(Unit!Start, m) <= BatchMaxTokens,
         NEW n \in Unit!Start..m
  PROVE  n \in Unit!Allowed
<1>1. Conversation /\ Len(messages) \in Nat /\ BatchMaxTokens \in Nat
  BY Conversations, UnitAssumed DEF BatchTypes, Unit!BatchAssumption
<1>2. Unit!Start \in 1..Unit!First /\ Unit!First \in 1..Len(messages)
  BY Window
<1>3. Unit!Start \in 1..Len(messages) /\ Unit!Start \in Nat /\ m \in Nat /\ n \in Nat
  BY <1>1, <1>2
<1>4. n \in Unit!Start..Len(messages) /\ m \in n..Len(messages)
  BY <1>1, <1>3
<1>5. /\ Unit!Tokens(Unit!Start, n) \in Nat /\ Unit!Tokens(Unit!Start, m) \in Nat
      /\ Unit!Tokens(Unit!Start, n) <= Unit!Tokens(Unit!Start, m)
  BY <1>1, <1>3, <1>4, TokensGrow
<1>6. Unit!Tokens(Unit!Start, n) <= BatchMaxTokens
  BY <1>1, <1>5
<1> QED
  BY <1>4, <1>6 DEF Unit!Allowed

\* No gap: what lies between the first row, or an allowed start, and an allowed message is
\* allowed.
LEMMA NoGap ==
  ASSUME BatchTypes, Unit!Pending # {}, NEW m \in Unit!Allowed, NEW n \in Unit!Start..m,
         Unit!First <= n \/ Unit!Start \in Unit!Allowed
  PROVE  n \in Unit!Allowed
<1>1. /\ m \in Unit!Start..Len(messages)
      /\ Unit!Tokens(Unit!Start, m) <= BatchMaxTokens \/ m = Unit!First
  BY DEF Unit!Allowed
<1>2. CASE Unit!Tokens(Unit!Start, m) <= BatchMaxTokens
  BY <1>1, <1>2, WithinBudget
<1>3. CASE m = Unit!First
  <2>1. /\ Unit!First \in Nat /\ Unit!Start \in Nat /\ n \in Nat
        /\ Unit!First <= Unit!Start + 1 /\ Unit!Start <= n /\ n <= Unit!First
    <3>1. /\ Unit!First \in 1..Len(messages) /\ Unit!Start \in 1..Unit!First
          /\ Unit!First <= Unit!Start + 1
      BY Window
    <3> QED
      BY <1>3, <3>1
  <2>2. n = Unit!First \/ n = Unit!Start
    BY <2>1
  <2>3. n = Unit!First \/ Unit!Start \in Unit!Allowed
    BY <2>1
  <2>4. Unit!First \in Unit!Allowed
    BY Window
  <2> QED
    BY <2>2, <2>3, <2>4
<1> QED
  BY <1>1, <1>2, <1>3

\* The rows of a fetch: they begin with the first pending one and end with one allowed.
LEMMA RowsOfFetch ==
  ASSUME BatchTypes, Unit!Pending # {}
  PROVE  LET Q == Unit!Allowed \intersect Unit!Pending
             B == Unit!Homogeneous(Q) IN
         /\ Unit!Min(Q) = Unit!First
         /\ B \subseteq Q /\ Unit!First \in B /\ Unit!Min(B) = Unit!First
         /\ Unit!Max(B) \in B /\ \A m \in B : m <= Unit!Max(B)
<1> DEFINE Q == Unit!Allowed \intersect Unit!Pending
           B == Unit!Homogeneous(Q)
<1>1. /\ Unit!First \in Unit!Pending /\ (\A m \in Unit!Pending : Unit!First <= m)
      /\ Unit!First \in Unit!Allowed /\ Unit!Pending \subseteq 1..Len(messages)
  BY Window DEF Least
<1>2. Len(messages) \in Nat
  BY DEF BatchTypes
<1>3. Q \in SUBSET Nat /\ Unit!First \in Q /\ (\A m \in Q : Unit!First <= m)
  BY <1>1, <1>2
<1>4. Unit!Min(Q) = Unit!First
  <2> HIDE DEF Q
  <2> QED
    BY <1>3, LeastIsMin
<1>5. B = {m \in Q : \A n \in Q : n <= m => messages[n].config = messages[Unit!First].config}
  <2> HIDE DEF Q
  <2> QED
    BY <1>4 DEF Unit!Homogeneous
<1>6. B \subseteq Q /\ Unit!First \in B
  <2> HIDE DEF Q, B
  <2>1. ASSUME NEW n \in Q, n <= Unit!First PROVE n = Unit!First
    BY <1>3, <2>1
  <2> QED
    BY <1>3, <1>5, <2>1
<1>7. B \in SUBSET Nat /\ (\A m \in B : Unit!First <= m) /\ B \in SUBSET (0..Len(messages))
  <2>1. Q \in SUBSET (0..Len(messages))
    BY <1>1, <1>2
  <2> HIDE DEF Q, B
  <2> QED
    BY <1>3, <1>6, <2>1
<1>8. Unit!Min(B) = Unit!First
  <2> HIDE DEF Q, B
  <2> QED
    BY <1>6, <1>7, LeastIsMin
<1>9. Unit!Max(B) \in B /\ \A m \in B : m <= Unit!Max(B)
  <2> HIDE DEF Q, B
  <2>1. B # {}
    BY <1>6
  <2> QED
    BY <1>2, <1>7, <2>1, Largest
<1> QED
  BY <1>4, <1>6, <1>8, <1>9

\* A pending row that lies before one of the batch is in the batch.
LEMMA RowsHaveNoGap ==
  ASSUME BatchTypes, Unit!Pending # {},
         NEW m \in Unit!Homogeneous(Unit!Allowed \intersect Unit!Pending),
         NEW n \in Unit!Pending, n <= m
  PROVE  n \in Unit!Homogeneous(Unit!Allowed \intersect Unit!Pending)
<1> DEFINE Q == Unit!Allowed \intersect Unit!Pending
           B == Unit!Homogeneous(Q)
<1>1. /\ Len(messages) \in Nat
      /\ Unit!First \in 1..Len(messages) /\ (\A k \in Unit!Pending : Unit!First <= k)
      /\ Unit!Pending \subseteq 1..Len(messages) /\ Unit!Start \in 1..Unit!First
  BY Window DEF Least, BatchTypes
<1>2. m \in Q /\ B \subseteq Q
  BY RowsOfFetch
<1>3. /\ n \in Nat /\ m \in Nat /\ Unit!Start \in Nat /\ Unit!First <= n
      /\ n \in Unit!Start..m /\ Q \subseteq Nat
  <2>1. Unit!Pending \subseteq Nat /\ Unit!First \in Nat
    BY <1>1
  <2>2. n \in Nat /\ m \in Nat /\ Unit!First <= n
    BY <1>1, <1>2, <2>1
  <2>3. Unit!Start \in Nat /\ Unit!Start <= Unit!First
    BY <1>1, <2>1
  <2>4. n \in Unit!Start..m
    BY <2>1, <2>2, <2>3
  <2>5. Q \subseteq Nat
    BY <2>1
  <2> QED
    BY <2>2, <2>3, <2>4, <2>5
<1>4. n \in Q
  BY <1>2, <1>3, NoGap
<1>5. \A k \in Q : k <= m => messages[k].config = messages[Unit!Min(Q)].config
  BY DEF Unit!Homogeneous
<1>6. \A k \in Q : k <= n => messages[k].config = messages[Unit!Min(Q)].config
  <2> HIDE DEF Q, B
  <2>1. ASSUME NEW k \in Q, k <= n PROVE k <= m
    BY <1>3, <2>1
  <2> QED
    BY <1>5, <2>1
<1>7. n \in {k \in Q : \A j \in Q : j <= k => messages[j].config = messages[Unit!Min(Q)].config}
  <2> HIDE DEF Q, B
  <2> QED
    BY <1>4, <1>6
<1> QED
  BY <1>7 DEF Unit!Homogeneous

\* The context of a fetch is an interval that starts with the first row, or right before
\* it with another peer's message.
LEMMA ContextOfFetch ==
  ASSUME BatchTypes, Unit!Pending # {}
  PROVE  LET B == Unit!Homogeneous(Unit!Allowed \intersect Unit!Pending)
             C == Unit!Context(B) IN
         /\ C = Unit!Min(C)..Unit!Max(B)
         /\ \/ Unit!Min(C) = Unit!Min(B)
            \/ Unit!Min(C) = Unit!Min(B) - 1 /\ messages[Unit!Min(C)].peer # Observed
<1> DEFINE B == Unit!Homogeneous(Unit!Allowed \intersect Unit!Pending)
           C == Unit!Context(B)
           lo == IF Unit!Start \in Unit!Allowed THEN Unit!Start ELSE Unit!First
<1>1. /\ Len(messages) \in Nat
      /\ Unit!First \in 1..Len(messages) /\ Unit!Start \in 1..Unit!First
      /\ Unit!First <= Unit!Start + 1
      /\ Unit!First \in Unit!Allowed /\ Unit!Allowed \subseteq Unit!Start..Len(messages)
      /\ Unit!Start # Unit!First => messages[Unit!Start].peer # Observed
  BY Window DEF BatchTypes
<1>2. /\ Unit!Min(B) = Unit!First /\ Unit!First \in B
      /\ Unit!Max(B) \in Unit!Allowed /\ Unit!First <= Unit!Max(B)
  BY RowsOfFetch
<1> HIDE DEF B
<1>3. /\ Unit!First \in Nat /\ Unit!Start \in Nat /\ Unit!Max(B) \in Nat
      /\ lo \in Nat /\ lo \in Unit!Allowed /\ lo <= Unit!First /\ Unit!Start <= lo
      /\ Unit!Allowed \subseteq Nat /\ Unit!Max(B) \in Unit!Start..Len(messages)
  <2>1. Unit!First \in Nat /\ Unit!Start \in Nat /\ Unit!Start <= Unit!First
    BY <1>1
  <2>2. Unit!Max(B) \in Unit!Start..Len(messages)
    BY <1>1, <1>2
  <2>3. lo \in {Unit!Start, Unit!First} /\ lo \in Unit!Allowed
    BY <1>1
  <2>4. Unit!Allowed \subseteq Nat
    <3>1. Unit!Start..Len(messages) \subseteq Nat
      BY <1>1, <2>1
    <3> QED
      BY <1>1, <3>1
  <2> HIDE DEF lo
  <2> QED
    BY <2>1, <2>2, <2>3, <2>4
<1>4. \A m \in Unit!Allowed : lo <= m
  <2>1. ASSUME NEW m \in Unit!Allowed PROVE lo <= m
    <3>1. m \in Nat /\ Unit!Start <= m
      BY <1>1
    <3>2. CASE Unit!Start \in Unit!Allowed
      BY <3>1, <3>2
    <3>3. CASE Unit!Start \notin Unit!Allowed
      <4>1. m # Unit!Start /\ lo = Unit!First
        BY <3>3
      <4> QED
        BY <1>1, <1>3, <3>1, <4>1
    <3> QED
      BY <3>2, <3>3
  <2> QED
    BY <2>1
<1>5. \A n \in lo..Unit!Max(B) : n \in Unit!Allowed
  <2>1. ASSUME NEW n \in lo..Unit!Max(B) PROVE n \in Unit!Allowed
    <3> HIDE DEF lo
    <3>1. n \in Unit!Start..Unit!Max(B) /\ lo <= n /\ n \in Nat
      BY <1>3
    <3>2. Unit!First <= n \/ Unit!Start \in Unit!Allowed
      <4>1. lo = Unit!First \/ Unit!Start \in Unit!Allowed
        BY DEF lo
      <4> QED
        BY <3>1, <4>1
    <3> QED
      BY <1>2, <3>1, <3>2, NoGap
  <2> QED
    BY <2>1
<1>6. C = {m \in Unit!Allowed : m <= Unit!Max(B)}
  BY DEF Unit!Context
<1> HIDE DEF C
<1>7. C = lo..Unit!Max(B)
  <2> HIDE DEF lo
  <2>1. ASSUME NEW m \in C PROVE m \in lo..Unit!Max(B)
    <3>1. m \in Unit!Allowed /\ m <= Unit!Max(B)
      BY <1>6
    <3>2. m \in Nat /\ lo <= m
      BY <1>3, <1>4, <3>1
    <3> QED
      BY <1>3, <3>1, <3>2
  <2>2. ASSUME NEW m \in lo..Unit!Max(B) PROVE m \in C
    <3>1. m \in Unit!Allowed
      BY <1>5
    <3>2. m <= Unit!Max(B)
      BY <1>3
    <3> QED
      BY <1>6, <3>1, <3>2
  <2> QED
    BY <2>1, <2>2
<1>8. Unit!Min(C) = lo
  <2> HIDE DEF lo
  <2>1. lo <= Unit!Max(B)
    BY <1>2, <1>3
  <2>2. C \in SUBSET Nat /\ lo \in C /\ \A m \in C : lo <= m
    BY <1>3, <1>7, <2>1
  <2> QED
    BY <2>2, LeastIsMin
<1>9. lo = Unit!First \/ (lo = Unit!First - 1 /\ messages[lo].peer # Observed)
  <2>1. CASE Unit!Start = Unit!First
    BY <2>1
  <2>2. CASE Unit!Start # Unit!First
    <3>1. Unit!Start = Unit!First - 1
      <4>1. Unit!Start <= Unit!First
        BY <1>1, <1>3
      <4> QED
        BY <1>1, <1>3, <2>2, <4>1
    <3> QED
      BY <1>1, <2>2, <3>1
  <2> QED
    BY <2>1, <2>2
<1> QED
  BY <1>2, <1>7, <1>8, <1>9 DEF B, C

\* The rows of a fetch are a run of first pending rows, which fits, and no longer one does.
LEMMA LongestRun ==
  ASSUME BatchTypes, Unit!Pending # {}
  PROVE  LET B == Unit!Homogeneous(Unit!Allowed \intersect Unit!Pending) IN
         /\ B \in Unit!Prefixes(Unit!Pending) /\ Unit!Fits(B)
         /\ \A R \in Unit!Prefixes(Unit!Pending) : Unit!Fits(R) => R \subseteq B
<1> DEFINE Q == Unit!Allowed \intersect Unit!Pending
           B == Unit!Homogeneous(Q)
<1>1. /\ Len(messages) \in Nat
      /\ Unit!First \in 1..Len(messages) /\ (\A k \in Unit!Pending : Unit!First <= k)
      /\ Unit!First \in Unit!Pending /\ Unit!Pending \subseteq 1..Len(messages)
      /\ Unit!Start \in 1..Unit!First
  BY Window DEF Least, BatchTypes
<1>2. /\ Unit!Min(Q) = Unit!First
      /\ B \subseteq Q /\ Unit!First \in B
      /\ Unit!Max(B) \in B /\ \A m \in B : m <= Unit!Max(B)
  BY RowsOfFetch
<1>3. Unit!Pending \subseteq Nat /\ Q \subseteq Nat /\ B \subseteq Nat /\ Unit!First \in Nat
  <2> HIDE DEF B
  <2> QED
    BY <1>1, <1>2
<1>4. B = {m \in Q : \A n \in Q : n <= m => messages[n].config = messages[Unit!First].config}
  <2> HIDE DEF Q
  <2> QED
    BY <1>2 DEF Unit!Homogeneous
<1>5. B \in Unit!Prefixes(Unit!Pending)
  <2>1. \A m \in B, n \in Unit!Pending : n < m => n \in B
    <3>1. ASSUME NEW m \in B, NEW n \in Unit!Pending, n < m PROVE n \in B
      <4>1. n <= m
        <5> HIDE DEF B
        <5> QED
          BY <1>3, <3>1
      <4> QED
        BY <4>1, RowsHaveNoGap
    <3> QED
      BY <3>1
  <2>2. B \in (SUBSET Unit!Pending) \ {{}}
    <3> HIDE DEF B
    <3> QED
      BY <1>2
  <2> HIDE DEF B
  <2> QED
    BY <2>1, <2>2 DEF Unit!Prefixes
<1>6. Unit!Fits(B)
  <2>1. \A m \in B : messages[m].config = messages[Unit!First].config
    <3>1. ASSUME NEW m \in B PROVE messages[m].config = messages[Unit!First].config
      <4> HIDE DEF Q, B
      <4>1. m <= m
        BY <1>3
      <4> QED
        BY <1>4, <4>1
    <3> HIDE DEF B
    <3> QED
      BY <3>1
  <2>2. B = {Unit!First} \/ Unit!Tokens(Unit!Start, Unit!Max(B)) <= BatchMaxTokens
    <3> HIDE DEF B
    <3>1. Unit!Max(B) \in Unit!Allowed
      BY <1>2
    <3>2. Unit!Tokens(Unit!Start, Unit!Max(B)) <= BatchMaxTokens \/ Unit!Max(B) = Unit!First
      BY <3>1 DEF Unit!Allowed
    <3>3. ASSUME Unit!Max(B) = Unit!First PROVE B = {Unit!First}
      <4>1. ASSUME NEW m \in B PROVE m = Unit!First
        <5>1. m <= Unit!First /\ Unit!First <= m /\ m \in Nat
          BY <1>1, <1>2, <1>3, <3>3
        <5> QED
          BY <1>3, <5>1
      <4> QED
        BY <1>2, <4>1
    <3> QED
      BY <3>2, <3>3
  <2> HIDE DEF B
  <2> QED
    BY <2>1, <2>2 DEF Unit!Fits
<1>7. ASSUME NEW R \in Unit!Prefixes(Unit!Pending), Unit!Fits(R), NEW m \in R
      PROVE  m \in B
  <2>1. /\ R \subseteq Unit!Pending /\ m \in Unit!Pending
        /\ \A x \in R, n \in Unit!Pending : n < x => n \in R
    BY DEF Unit!Prefixes
  <2>2. Unit!First \in R
    BY <1>1, <1>3, <2>1
  <2>3. /\ \A x, n \in R : messages[x].config = messages[n].config
        /\ R = {Unit!First} \/ Unit!Tokens(Unit!Start, Unit!Max(R)) <= BatchMaxTokens
    BY <1>7 DEF Unit!Fits
  <2>4. CASE R = {Unit!First}
    <3> HIDE DEF B
    <3> QED
      BY <1>2, <2>4
  <2>5. CASE Unit!Tokens(Unit!Start, Unit!Max(R)) <= BatchMaxTokens
    <3>1. R \in SUBSET (0..Len(messages)) /\ R # {}
      BY <1>1, <2>1
    <3>2. Unit!Max(R) \in R /\ m <= Unit!Max(R)
      BY <1>1, <3>1, Largest
    <3>3. /\ Unit!Max(R) \in Unit!Start..Len(messages) /\ m \in Unit!Start..Unit!Max(R)
      <4>1. Unit!Start \in Nat /\ Unit!Start <= Unit!First
        BY <1>1
      <4>2. Unit!Max(R) \in 1..Len(messages) /\ m \in 1..Len(messages)
            /\ Unit!First <= m /\ Unit!First <= Unit!Max(R)
        BY <1>1, <2>1, <3>2
      <4> QED
        BY <1>1, <1>3, <3>2, <4>1, <4>2
    <3>4. m \in Q
      BY <2>1, <2>5, <3>3, WithinBudget
    <3>5. ASSUME NEW n \in Q, n <= m PROVE messages[n].config = messages[Unit!First].config
      <4>1. n \in Unit!Pending /\ n \in Nat /\ m \in Nat
        BY <1>3, <2>1
      <4>2. n \in R
        BY <2>1, <3>5, <4>1
      <4> QED
        BY <2>2, <2>3, <4>2
    <3> HIDE DEF Q, B
    <3> QED
      BY <1>4, <3>4, <3>5
  <2> QED
    BY <2>3, <2>4, <2>5
<1>8. \A R \in Unit!Prefixes(Unit!Pending) : Unit!Fits(R) => R \subseteq B
  <2> HIDE DEF B
  <2> QED
    BY <1>7
<1> QED
  BY <1>5, <1>6, <1>8
-----------------------------------------------------------------------------
(* The invariant. *)

ServedWell == serving # Unit!Idle => serving.items # {} /\ ContextIsTheConversation

LEMMA BatchesInitially == Unit!Init => BatchTypes /\ ServedWell
<1> SUFFICES ASSUME Unit!Init PROVE BatchTypes /\ ServedWell
  OBVIOUS
<1>1. messages = <<>> /\ processed = {} /\ serving = Unit!Idle /\ derived = {}
  BY DEF Unit!Init
<1>2. serving.items = {} /\ serving.context = {}
  BY <1>1 DEF Unit!Idle
<1>3. MaxMessages \in Nat /\ messages \in Seq(Unit!Message) /\ Len(messages) = 0
  BY <1>1, UnitAssumed DEF Unit!BatchAssumption
<1> QED
  BY <1>1, <1>2, <1>3 DEF BatchTypes, ServedWell

\* What Send appends leaves the earlier messages alone.
LEMMA Appended ==
  ASSUME BatchTypes, NEW m \in Unit!Message, messages' = Append(messages, m)
  PROVE  /\ messages' \in Seq(Unit!Message) /\ Len(messages') = Len(messages) + 1
         /\ DOMAIN messages \subseteq DOMAIN messages'
         /\ \A n \in DOMAIN messages : messages'[n] = messages[n]
<1>1. messages \in Seq(Unit!Message) /\ Len(messages) \in Nat
  BY DEF BatchTypes
<1>2. messages' \in Seq(Unit!Message) /\ Len(messages') = Len(messages) + 1
  BY <1>1
<1>3. DOMAIN messages = 1..Len(messages) /\ DOMAIN messages' = 1..Len(messages')
  BY <1>1, <1>2
<1> QED
  BY <1>1, <1>2, <1>3

LEMMA Sending ==
  ASSUME BatchTypes, ServedWell, NEW m \in Unit!Message, Unit!Send(m)
  PROVE  BatchTypes' /\ ServedWell'
<1>1. /\ Len(messages) < MaxMessages /\ messages' = Append(messages, m)
      /\ processed' = processed /\ serving' = serving /\ derived' = derived
  BY DEF Unit!Send
<1>2. /\ messages' \in Seq(Unit!Message) /\ Len(messages') = Len(messages) + 1
      /\ DOMAIN messages \subseteq DOMAIN messages'
      /\ \A n \in DOMAIN messages : messages'[n] = messages[n]
  BY <1>1, Appended
<1>3. Len(messages) \in Nat /\ MaxMessages \in Nat
  BY UnitAssumed DEF BatchTypes, Unit!BatchAssumption
<1>4. Rows \subseteq Rows'
  BY <1>2 DEF Rows
<1>5. BatchTypes'
  <2>1. Len(messages') <= MaxMessages
    BY <1>1, <1>2, <1>3
  <2>2. processed' \subseteq Rows' /\ serving'.items \subseteq Rows' \ processed'
    BY <1>1, <1>4 DEF BatchTypes
  <2>3. serving'.context \subseteq DOMAIN messages' /\ derived' \subseteq Peer \X DOMAIN messages'
    BY <1>1, <1>2 DEF BatchTypes
  <2> QED
    BY <1>2, <2>1, <2>2, <2>3 DEF BatchTypes
<1>6. ServedWell'
  <2>1. SUFFICES ASSUME serving # Unit!Idle
                 PROVE  serving.items # {} /\ ContextIsTheConversation'
    BY <1>1 DEF ServedWell, Unit!Idle
  <2>2. serving.items # {} /\ ContextIsTheConversation
    BY <2>1 DEF ServedWell
  <2>3. Unit!Min(serving.context) = Unit!Min(serving.items) - 1
          => Unit!Min(serving.context) \in DOMAIN messages
    <3>1. ASSUME Unit!Min(serving.context) = Unit!Min(serving.items) - 1
          PROVE  Unit!Min(serving.context) \in serving.context
      <4>1. serving.items \in SUBSET (0..Len(messages)) /\ serving.items \in SUBSET Nat
        BY <1>3 DEF BatchTypes, Rows
      <4>2. /\ Unit!Min(serving.items) \in serving.items
            /\ Unit!Max(serving.items) \in serving.items
            /\ Unit!Min(serving.items) <= Unit!Max(serving.items)
        BY <1>3, <2>2, <4>1, Smallest, Largest
      <4>3. /\ Unit!Min(serving.items) \in Nat /\ Unit!Max(serving.items) \in Nat
            /\ Unit!Min(serving.context) \in Int
            /\ Unit!Min(serving.context) <= Unit!Max(serving.items)
        BY <3>1, <4>1, <4>2
      <4>4. serving.context = Unit!Min(serving.context)..Unit!Max(serving.items)
        BY <2>1, <2>2 DEF ContextIsTheConversation, Unit!ContextIsTheConversation
      <4>5. Unit!Min(serving.context) \in Unit!Min(serving.context)..Unit!Max(serving.items)
        BY <4>3
      <4> QED
        BY <4>4, <4>5
    <3> QED
      BY <3>1 DEF BatchTypes
  <2> QED
    BY <1>1, <1>2, <2>1, <2>2, <2>3
    DEF ContextIsTheConversation, Unit!ContextIsTheConversation, Unit!Idle
<1> QED
  BY <1>5, <1>6

LEMMA Fetching ==
  ASSUME BatchTypes, Unit!Fetch
  PROVE  BatchTypes' /\ ServedWell'
<1> DEFINE B == Unit!Homogeneous(Unit!Allowed \intersect Unit!Pending)
<1>1. /\ Unit!Pending # {} /\ serving' = [items |-> B, context |-> Unit!Context(B)]
      /\ messages' = messages /\ processed' = processed /\ derived' = derived
  BY DEF Unit!Fetch
<1>2. /\ B \subseteq Unit!Pending /\ B # {}
      /\ Unit!Context(B) \subseteq Unit!Allowed
  BY <1>1, RowsOfFetch DEF Unit!Context
<1>3. LET C == Unit!Context(B) IN
      /\ C = Unit!Min(C)..Unit!Max(B)
      /\ \/ Unit!Min(C) = Unit!Min(B)
         \/ Unit!Min(C) = Unit!Min(B) - 1 /\ messages[Unit!Min(C)].peer # Observed
  BY <1>1, ContextOfFetch
<1>4. Unit!Allowed \subseteq DOMAIN messages
  <2>1. /\ Len(messages) \in Nat /\ DOMAIN messages = 1..Len(messages)
        /\ Unit!Start \in 1..Unit!First /\ Unit!Allowed \subseteq Unit!Start..Len(messages)
        /\ Unit!First \in 1..Len(messages)
    BY <1>1, Window DEF BatchTypes
  <2> QED
    BY <2>1
<1> HIDE DEF B
<1>5. serving'.items = B /\ serving'.context = Unit!Context(B)
  BY <1>1
<1>6. Unit!Pending = Rows \ processed
  BY DEF Unit!Pending, Rows
<1>7. BatchTypes'
  BY <1>1, <1>2, <1>4, <1>5, <1>6 DEF BatchTypes, Rows
<1>8. ContextIsTheConversation'
  BY <1>1, <1>3, <1>5 DEF ContextIsTheConversation, Unit!ContextIsTheConversation
<1> QED
  BY <1>2, <1>5, <1>7, <1>8 DEF ServedWell

LEMMA Finishing ==
  ASSUME BatchTypes, ServedWell, Unit!Derive \/ Unit!Raise
  PROVE  BatchTypes' /\ ServedWell'
<1>1. serving # Unit!Idle /\ serving' = Unit!Idle /\ messages' = messages
  BY DEF Unit!Derive, Unit!Raise
<1>2. serving.items # {} /\ serving.items \subseteq Rows
  BY <1>1 DEF ServedWell, BatchTypes
<1>3. Unit!Min(serving.items) \in serving.items /\ Unit!Min(serving.items) \in 1..Len(messages)
  <2>1. Rows \subseteq 1..Len(messages)
    BY DEF BatchTypes, Rows
  <2>2. serving.items \in SUBSET Nat
    <3>1. 1..Len(messages) \subseteq Nat
      OBVIOUS
    <3> QED
      BY <1>2, <2>1, <3>1
  <2> QED
    BY <1>2, <2>1, <2>2, Smallest
<1>4. serving'.items = {} /\ serving'.context = {}
  BY <1>1 DEF Unit!Idle
<1>5. processed' \subseteq Rows'
  <2>1. processed' \subseteq processed \union serving.items
    BY <1>3 DEF Unit!Derive, Unit!Raise, Unit!MarkedOnError
  <2> QED
    BY <1>1, <1>2, <2>1 DEF BatchTypes, Rows
<1>6. derived' \subseteq Peer \X DOMAIN messages
  <2>1. CASE Unit!Raise
    BY <2>1 DEF Unit!Raise, BatchTypes
  <2>2. CASE Unit!Derive
    <3>1. PICK saved \in SUBSET messages[Unit!Min(serving.items)].observers :
            derived' = derived \union (saved \X Unit!Attributed)
      BY <2>2 DEF Unit!Derive
    <3>2. messages[Unit!Min(serving.items)] \in Unit!Message
      BY <1>3 DEF BatchTypes
    <3>3. saved \subseteq Peer
      BY <3>1, <3>2, MessageParts
    <3>4. Unit!Attributed \subseteq DOMAIN messages
      BY DEF Unit!Attributed, BatchTypes
    <3> QED
      BY <3>1, <3>3, <3>4 DEF BatchTypes
  <2> QED
    BY <2>1, <2>2
<1>7. BatchTypes'
  BY <1>1, <1>4, <1>5, <1>6 DEF BatchTypes
<1> QED
  BY <1>1, <1>7 DEF ServedWell, Unit!Idle

LEMMA BatchesServedWell == Unit!Spec => [](BatchTypes /\ ServedWell)
<1>1. ASSUME BatchTypes, ServedWell, [Unit!Next]_(Unit!vars)
      PROVE  BatchTypes' /\ ServedWell'
  <2>1. CASE \E m \in Unit!Message : Unit!Send(m)
    BY <1>1, <2>1, Sending
  <2>2. CASE Unit!Fetch
    BY <1>1, <2>2, Fetching
  <2>3. CASE Unit!Derive \/ Unit!Raise
    BY <1>1, <2>3, Finishing
  <2>4. CASE UNCHANGED Unit!vars
    BY <1>1, <2>4 DEF Unit!vars, BatchTypes, ServedWell, Rows, Unit!Idle,
                      ContextIsTheConversation, Unit!ContextIsTheConversation
  <2> QED
    BY <1>1, <2>1, <2>2, <2>3, <2>4 DEF Unit!Next
<1> QED
  BY <1>1, BatchesInitially, PTL DEF Unit!Spec

\* Whatever is sent while the unit is worked on: the conversation a batch is given has no
\* gap, ends with the batch's last row, and starts with its first one or with the other
\* peer's message right before it.
THEOREM ContextsAreGapless == Unit!Spec => []ContextIsTheConversation
<1>1. ServedWell => ContextIsTheConversation
  BY DEF ServedWell, ContextIsTheConversation, Unit!ContextIsTheConversation
<1> QED
  BY <1>1, BatchesServedWell, PTL

\* A fetch takes the longest run of first pending rows that shares a configuration and
\* fits the budget with its conversation, a first row too large alone.
THEOREM BatchesAreLongestRuns == Unit!Spec => BatchIsLongestRun
<1> DEFINE Chosen ==
      serving = Unit!Idle /\ serving' # Unit!Idle =>
        LET B == serving'.items IN
        /\ B \in Unit!Prefixes(Unit!Pending) /\ Unit!Fits(B)
        /\ \A P \in Unit!Prefixes(Unit!Pending) : Unit!Fits(P) => P \subseteq B
<1>1. ASSUME BatchTypes, Unit!Next PROVE Chosen
  <2>1. SUFFICES ASSUME serving = Unit!Idle, serving' # Unit!Idle,
                        Unit!Pending # {},
                        serving'.items = Unit!Homogeneous(Unit!Allowed \intersect Unit!Pending)
                 PROVE  Chosen
    BY <1>1 DEF Unit!Next, Unit!Send, Unit!Fetch, Unit!Derive, Unit!Raise
  <2> QED
    BY <1>1, <2>1, LongestRun
<1>2. BatchTypes /\ [Unit!Next]_(Unit!vars) => [Chosen]_(Unit!vars)
  <2> HIDE DEF Chosen
  <2> QED
    BY <1>1
<1>3. Unit!Spec => [][Chosen]_(Unit!vars)
  BY <1>2, BatchesServedWell, PTL DEF Unit!Spec
<1> QED
  BY <1>3 DEF BatchIsLongestRun, Unit!BatchIsLongestRun
=============================================================================
