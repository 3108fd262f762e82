------------------------ MODULE DeriverServicesProofs -----------------------
(***************************************************************************)
(* Theorems about DeriverServices and the TelemetryEmitter in it, for any  *)
(* instances, tasks, spawned flushes, sizes of buffer and batch, threshold *)
(* and numbers of retries and events.                                      *)
(***************************************************************************)
EXTENDS DeriverServices, SequenceTheorems, TLAPS

\* The lock's holder, and nobody else, sends a batch.
LockInv ==
  /\ \A f \in Flusher : flusher[f] = "sending" <=> holder = f
  /\ holder = Unlocked => batch = <<>>

EmitterInv == EmitterTypeOK /\ LockInv /\ EventsAccounted

\* What waits to be sent.
Pending == batch \o buffer
-----------------------------------------------------------------------------
LEMMA MinOfTwo ==
  ASSUME NEW a \in Nat, NEW b \in Nat
  PROVE  Min({a, b}) \in {a, b} /\ Min({a, b}) <= a /\ Min({a, b}) <= b
<1>1. \E x \in {a, b} : \A y \in {a, b} : x <= y
  OBVIOUS
<1>2. QED
  BY <1>1 DEF Min

\* t is a stretch of s: all of it, from the element after the d-th on.
Stretch(t, s, d) == Len(t) + d <= Len(s) /\ \A i \in 1..Len(t) : t[i] = s[i + d]

LEMMA StretchProperties ==
  ASSUME NEW s \in Seq(Nat), NEW t \in Seq(Nat), NEW d \in Nat, Stretch(t, s, d)
  PROVE  ToSet(t) \subseteq ToSet(s) /\ (Ascending(s) => Ascending(t))
<1>1. DOMAIN s = 1..Len(s) /\ DOMAIN t = 1..Len(t) /\ Len(s) \in Nat /\ Len(t) \in Nat
  BY LenProperties
<1>2. ASSUME NEW i \in DOMAIN t PROVE i + d \in DOMAIN s /\ t[i] = s[i + d]
  BY <1>1 DEF Stretch
<1>3. ToSet(t) \subseteq ToSet(s)
  BY <1>2 DEF ToSet
<1>4. Ascending(s) => Ascending(t)
  BY <1>1, <1>2 DEF Ascending
<1>5. QED
  BY <1>3, <1>4

LEMMA ConcatSets ==
  ASSUME NEW s \in Seq(Nat), NEW t \in Seq(Nat)
  PROVE  /\ s \o t \in Seq(Nat) /\ ToSet(s \o t) = ToSet(s) \union ToSet(t)
         /\ Stretch(s, s \o t, 0) /\ Stretch(t, s \o t, Len(s))
         /\ ToSet(s) \subseteq Nat /\ ToSet(t) \subseteq Nat
         /\ Ascending(s \o t) => \A x \in ToSet(s), y \in ToSet(t) : x < y
<1> DEFINE u == s \o t
<1>1. /\ u \in Seq(Nat) /\ DOMAIN u = 1..Len(u) /\ Len(u) = Len(s) + Len(t)
      /\ Len(s) \in Nat /\ Len(t) \in Nat /\ DOMAIN s = 1..Len(s) /\ DOMAIN t = 1..Len(t)
      /\ \A i \in DOMAIN s : i \in DOMAIN u /\ u[i] = s[i]
      /\ \A i \in DOMAIN t : i + Len(s) \in DOMAIN u /\ u[i + Len(s)] = t[i]
      /\ \A i \in DOMAIN u : i \in DOMAIN s \/ (i - Len(s) \in DOMAIN t /\ u[i] = t[i - Len(s)])
  BY ConcatProperties
<1> HIDE DEF u
<1>2. ToSet(u) = ToSet(s) \union ToSet(t)
  <2>1. ToSet(u) \subseteq ToSet(s) \union ToSet(t)
    BY <1>1 DEF ToSet
  <2>2. ToSet(s) \subseteq ToSet(u) /\ ToSet(t) \subseteq ToSet(u)
    BY <1>1 DEF ToSet
  <2>3. QED
    BY <2>1, <2>2
<1>3. Stretch(s, u, 0) /\ Stretch(t, u, Len(s))
  <2>1. ASSUME NEW i \in 1..Len(s) PROVE s[i] = u[i + 0]
    <3>1. i + 0 = i
      BY <1>1
    <3>2. QED
      BY <1>1, <3>1
  <2>2. \A i \in 1..Len(t) : t[i] = u[i + Len(s)]
    BY <1>1
  <2>3. QED
    BY <1>1, <2>1, <2>2 DEF Stretch
<1>4. ToSet(s) \subseteq Nat /\ ToSet(t) \subseteq Nat
  <2>1. (\A i \in DOMAIN s : s[i] \in Nat) /\ \A i \in DOMAIN t : t[i] \in Nat
    BY <1>1, ElementOfSeq
  <2>2. QED
    BY <2>1 DEF ToSet
<1>5. ASSUME Ascending(u), NEW x \in ToSet(s), NEW y \in ToSet(t)
      PROVE  x < y
  <2>1. PICK i \in DOMAIN s, j \in DOMAIN t : x = s[i] /\ y = t[j]
    BY DEF ToSet
  <2>2. i < j + Len(s) /\ u[i] = x /\ u[j + Len(s)] = y /\ i \in DOMAIN u /\ j + Len(s) \in DOMAIN u
    BY <1>1, <2>1
  <2>3. QED
    BY <1>5, <2>2 DEF Ascending
<1>6. QED
  BY <1>1, <1>2, <1>3, <1>4, <1>5 DEF u

\* A sequence in two parts.
LEMMA Parted ==
  ASSUME NEW S, NEW s \in Seq(S), NEW n \in 0..Len(s)
  PROVE  /\ SubSeq(s, 1, n) \in Seq(S) /\ Len(SubSeq(s, 1, n)) = n
         /\ SubSeq(s, n + 1, Len(s)) \in Seq(S) /\ Len(SubSeq(s, n + 1, Len(s))) = Len(s) - n
         /\ SubSeq(s, 1, n) \o SubSeq(s, n + 1, Len(s)) = s
<1>1. Len(s) \in Nat /\ \A i \in 1..Len(s) : s[i] \in S
  BY ElementOfSeq, LenProperties
<1>2. SubSeq(s, 1, n) \in Seq(S) /\ Len(SubSeq(s, 1, n)) = n
  BY <1>1, SubSeqProperties
<1>3. SubSeq(s, n + 1, Len(s)) \in Seq(S) /\ Len(SubSeq(s, n + 1, Len(s))) = Len(s) - n
  BY <1>1, SubSeqProperties
<1>4. SubSeq(s, 1, n) \o SubSeq(s, n + 1, Len(s)) = SubSeq(s, 1, Len(s))
  <2>1. 1 \in 1..(Len(s) + 1) /\ n \in (1 - 1)..Len(s) /\ Len(s) \in n..Len(s)
    BY <1>1
  <2>2. QED
    BY <2>1, ConcatAdjacentSubSeq
<1>5. QED
  BY <1>2, <1>3, <1>4, SubSeqFull
-----------------------------------------------------------------------------
\* The account of the events, over what waits and where the others went.
Account(pending, n, arrived, gone) ==
  /\ Ascending(pending)
  /\ \A e \in ToSet(pending) \ arrived : \A r \in arrived : r < e
  /\ 1..(n - 1) = arrived \union ToSet(pending) \union gone

LEMMA AccountsAgree ==
  EventsAccounted <=> /\ Account(Pending, next, received, overflowed \union cut)
                      /\ mode = "running" => cut = {}
BY DEF EventsAccounted, Account, Pending

\* A batch arrives and stays what it is.
LEMMA AccountArrival ==
  ASSUME NEW b \in Seq(Nat), NEW c \in Seq(Nat), NEW n \in Nat, NEW R, NEW G,
         Account(b \o c, n, R, G)
  PROVE  Account(b \o c, n, R \union ToSet(b), G)
<1>1. /\ ToSet(b \o c) = ToSet(b) \union ToSet(c)
      /\ \A x \in ToSet(b), y \in ToSet(c) : x < y
  BY ConcatSets DEF Account
<1>2. QED
  BY <1>1 DEF Account

\* The front of what waits is taken away, having arrived or been cut off or dropped.
LEMMA AccountRest ==
  ASSUME NEW b \in Seq(Nat), NEW c \in Seq(Nat), NEW n \in Nat, NEW R, NEW G, NEW H,
         Account(b \o c, n, R, G), G \subseteq H, H \subseteq G \union ToSet(b),
         ToSet(b) \subseteq R \union H
  PROVE  Account(c, n, R, H)
<1>1. ToSet(b \o c) = ToSet(b) \union ToSet(c) /\ Ascending(c)
  <2>1. Len(b) \in Nat /\ b \o c \in Seq(Nat) /\ Stretch(c, b \o c, Len(b))
    BY ConcatSets, LenProperties
  <2>2. QED
    BY <2>1, ConcatSets, StretchProperties DEF Account
<1>2. QED
  BY <1>1 DEF Account

\* The end of what waits is dropped.
LEMMA AccountFront ==
  ASSUME NEW b \in Seq(Nat), NEW c \in Seq(Nat), NEW n \in Nat, NEW R, NEW G, NEW H,
         Account(b \o c, n, R, G), H = G \union ToSet(c)
  PROVE  Account(b, n, R, H)
<1>1. ToSet(b \o c) = ToSet(b) \union ToSet(c) /\ Ascending(b)
  BY ConcatSets, StretchProperties DEF Account
<1>2. QED
  BY <1>1 DEF Account

\* What emit drops waits behind the batch.
LEMMA AccountDrop ==
  ASSUME NEW b \in Seq(Nat), NEW c \in Seq(Nat), c # <<>>, NEW n \in Nat, NEW R, NEW G,
         Account(b \o c, n, R, G)
  PROVE  Account(b \o Tail(c), n, R, G \union {Head(c)})
<1> DEFINE u == b \o c
           v == b \o Tail(c)
<1>1. /\ Tail(c) \in Seq(Nat) /\ Len(Tail(c)) = Len(c) - 1 /\ Head(c) = c[1]
      /\ \A i \in 1..(Len(c) - 1) : Tail(c)[i] = c[i + 1]
      /\ Len(b) \in Nat /\ Len(c) \in Nat /\ Len(c) >= 1
  BY HeadTailProperties, LenProperties
<1>2. /\ u \in Seq(Nat) /\ Len(u) = Len(b) + Len(c) /\ DOMAIN u = 1..(Len(b) + Len(c))
      /\ \A i \in 1..(Len(b) + Len(c)) : u[i] = IF i <= Len(b) THEN b[i] ELSE c[i - Len(b)]
  BY <1>1, ConcatProperties, LenProperties
<1>3. /\ v \in Seq(Nat) /\ DOMAIN v = 1..(Len(b) + Len(c) - 1)
      /\ \A i \in 1..(Len(b) + Len(c) - 1) : v[i] = IF i <= Len(b) THEN b[i] ELSE Tail(c)[i - Len(b)]
  BY <1>1, ConcatProperties, LenProperties
<1> HIDE DEF u, v
<1>4. ASSUME NEW i \in DOMAIN v
      PROVE  IF i <= Len(b) THEN i \in DOMAIN u /\ v[i] = u[i]
                            ELSE i + 1 \in DOMAIN u /\ v[i] = u[i + 1]
  <2>1. i \in Int /\ 1 <= i /\ i <= Len(b) + Len(c) - 1
    <3>1. i \in 1..(Len(b) + Len(c) - 1)
      BY <1>3
    <3>2. QED
      BY <1>1, <3>1
  <2>2. i \in 1..(Len(b) + Len(c)) /\ i + 1 \in 1..(Len(b) + Len(c))
    BY <1>1, <2>1
  <2>3. CASE i <= Len(b)
    BY <1>2, <1>3, <2>2, <2>3
  <2>4. CASE ~(i <= Len(b))
    <3>1. i - Len(b) \in 1..(Len(c) - 1) /\ (i - Len(b)) + 1 = (i + 1) - Len(b) /\ ~(i + 1 <= Len(b))
      BY <1>1, <2>1, <2>4
    <3>2. v[i] = c[(i - Len(b)) + 1]
      BY <1>1, <1>3, <2>4, <3>1
    <3>3. u[i + 1] = c[(i + 1) - Len(b)]
      BY <1>2, <2>2, <3>1
    <3>4. v[i] = u[i + 1]
      BY <3>1, <3>2, <3>3
    <3>5. i + 1 \in DOMAIN u
      BY <1>2, <2>2
    <3>6. QED
      BY <2>4, <3>4, <3>5
  <2>5. QED
    BY <2>3, <2>4
<1>5. Ascending(v)
  <2> SUFFICES ASSUME NEW i \in DOMAIN v, NEW j \in DOMAIN v, i < j
               PROVE  v[i] < v[j]
    BY DEF Ascending
  <2>1. PICK k \in DOMAIN u : v[i] = u[k] /\ k = IF i <= Len(b) THEN i ELSE i + 1
    BY <1>4
  <2>2. PICK l \in DOMAIN u : v[j] = u[l] /\ l = IF j <= Len(b) THEN j ELSE j + 1
    BY <1>4
  <2>3. k < l
    BY <1>1, <1>3, <2>1, <2>2
  <2>4. QED
    BY <2>1, <2>2, <2>3 DEF Account, Ascending, u
<1>6. ToSet(u) = ToSet(v) \union {Head(c)}
  <2>1. Len(b) + 1 \in DOMAIN u /\ u[Len(b) + 1] = Head(c)
    <3>1. (Len(b) + 1) - Len(b) = 1 /\ Len(b) + 1 \in 1..(Len(b) + Len(c)) /\ ~(Len(b) + 1 <= Len(b))
      BY <1>1
    <3>2. QED
      BY <1>1, <1>2, <3>1
  <2>2. ToSet(v) \subseteq ToSet(u)
    BY <1>4 DEF ToSet
  <2>3. ASSUME NEW i \in DOMAIN u, i # Len(b) + 1 PROVE u[i] \in ToSet(v)
    <3>1. CASE i <= Len(b)
      <4>1. i \in DOMAIN v
        BY <1>1, <1>2, <1>3, <3>1
      <4>2. QED
        BY <1>4, <3>1, <4>1 DEF ToSet
    <3>2. CASE i > Len(b) + 1
      <4>1. i \in Int /\ i <= Len(b) + Len(c)
        <5>1. i \in 1..(Len(b) + Len(c))
          BY <1>2
        <5>2. QED
          BY <1>1, <5>1
      <4>2. i - 1 \in 1..(Len(b) + Len(c) - 1) /\ ~(i - 1 <= Len(b)) /\ (i - 1) + 1 = i
        BY <1>1, <3>2, <4>1
      <4>3. i - 1 \in DOMAIN v
        BY <1>3, <4>2
      <4>4. v[i - 1] = u[i]
        BY <1>4, <4>2, <4>3
      <4>5. QED
        BY <4>3, <4>4 DEF ToSet
    <3>3. QED
      BY <1>1, <1>2, <2>3, <3>1, <3>2
  <2>4. QED
    BY <2>1, <2>2, <2>3 DEF ToSet
<1>7. QED
  BY <1>5, <1>6 DEF Account, u, v

\* A new event is younger than all there were.
LEMMA AccountNew ==
  ASSUME NEW s \in Seq(Nat), NEW n \in Nat \ {0}, NEW R, NEW G, Account(s, n, R, G)
  PROVE  Account(Append(s, n), n + 1, R, G)
<1> DEFINE t == Append(s, n)
<1>1. /\ t \in Seq(Nat) /\ Len(t) = Len(s) + 1 /\ Len(s) \in Nat
      /\ DOMAIN t = 1..(Len(s) + 1) /\ DOMAIN s = 1..Len(s)
      /\ \A i \in DOMAIN s : t[i] = s[i] /\ i \in DOMAIN t
      /\ t[Len(s) + 1] = n
  BY AppendProperties
<1> HIDE DEF t
<1>2. ToSet(t) = ToSet(s) \union {n}
  <2>1. ToSet(t) \subseteq ToSet(s) \union {n}
    BY <1>1 DEF ToSet
  <2>2. ToSet(s) \subseteq ToSet(t) /\ n \in ToSet(t)
    BY <1>1 DEF ToSet
  <2>3. QED
    BY <2>1, <2>2
<1>3. (\A e \in ToSet(s) : e \in 1..(n - 1)) /\ \A r \in R : r \in 1..(n - 1)
  BY DEF Account
<1>4. Ascending(t)
  <2> SUFFICES ASSUME NEW i \in DOMAIN t, NEW j \in DOMAIN t, i < j
               PROVE  t[i] < t[j]
    BY DEF Ascending
  <2>1. i \in DOMAIN s /\ t[i] = s[i] /\ s[i] \in ToSet(s)
    BY <1>1 DEF ToSet
  <2>2. CASE j \in DOMAIN s
    BY <1>1, <2>1, <2>2 DEF Account, Ascending
  <2>3. CASE j = Len(s) + 1
    BY <1>1, <1>3, <2>1, <2>3
  <2>4. QED
    BY <1>1, <2>2, <2>3
<1>5. 1..n = R \union ToSet(t) \union G
  <2>1. 1..n = 1..(n - 1) \union {n}
    OBVIOUS
  <2>2. QED
    BY <1>2, <2>1 DEF Account
<1>6. \A e \in ToSet(t) \ R : \A r \in R : r < e
  BY <1>2, <1>3 DEF Account
<1>7. QED
  BY <1>4, <1>5, <1>6 DEF Account, t
-----------------------------------------------------------------------------
\* Sequences of the emitter.
LEMMA EmitterSeqs ==
  ASSUME EmitterInv
  PROVE  /\ batch \in Seq(Nat) /\ buffer \in Seq(Nat) /\ next \in Nat \ {0}
         /\ Len(batch) \in Nat /\ Len(buffer) \in Nat
         /\ {MaxBuffer, BatchSize, Threshold, MaxRetries, MaxEvents} \subseteq Nat \ {0}
         /\ Event \subseteq Nat
<1>1. {MaxBuffer, BatchSize, Threshold, MaxRetries, MaxEvents} \subseteq Nat \ {0} /\ Event \subseteq Nat
  BY EmitterAssumption DEF Event
<1>2. batch \in Seq(Event) /\ buffer \in Seq(Event) /\ next \in Nat \ {0}
  BY <1>1 DEF EmitterInv, EmitterTypeOK
<1>3. QED
  BY <1>1, <1>2, SeqMonotonic, LenProperties

LEMMA UnlockedIsNobody == Unlocked \notin Flusher
BY EmitterAssumption DEF Flusher

\* A task that does not send goes to where it does not send either.
LEMMA Walks ==
  ASSUME EmitterInv, NEW f \in Flusher, flusher[f] # "sending",
         NEW l \in {"idle", "spawned", "waiting", "ended"}, Goto(f, l), UNCHANGED <<holder, batch>>
  PROVE  /\ flusher' \in [Flusher -> {"idle", "spawned", "waiting", "sending", "ended"}]
         /\ LockInv'
BY DEF EmitterInv, EmitterTypeOK, LockInv, Goto

LEMMA FlushBegins ==
  ASSUME EmitterInv, NEW f \in Flusher, flusher[f] # "sending", BeginFlush(f)
  PROVE  EmitterInv'
<1>1. PICK l \in {"idle", "waiting", "ended"} : Goto(f, l)
  BY DEF BeginFlush
<1>2. /\ flusher' \in [Flusher -> {"idle", "spawned", "waiting", "sending", "ended"}]
      /\ LockInv'
  BY <1>1, Walks DEF BeginFlush
<1>3. UNCHANGED <<buffer, holder, batch, tries, mode, next, received, overflowed, cut>>
  BY DEF BeginFlush
<1>4. EmitterTypeOK' /\ EventsAccounted'
  BY <1>2, <1>3 DEF EmitterInv, EmitterTypeOK, EventsAccounted
<1>5. QED
  BY <1>2, <1>4 DEF EmitterInv

\* emit: the oldest event is dropped if need be, and the new one is the youngest.
LEMMA EmitStep ==
  ASSUME EmitterInv, Emit
  PROVE  EmitterInv'
<1> DEFINE full == Len(buffer) = MaxBuffer
           kept == IF full THEN Tail(buffer) ELSE buffer
           gone == IF full THEN {Head(buffer)} ELSE {}
<1>1. /\ next <= MaxEvents /\ buffer' = Append(kept, next) /\ overflowed' = overflowed \union gone
      /\ next' = next + 1 /\ Spawn(Len(kept) + 1)
      /\ UNCHANGED <<holder, batch, tries, mode, received, cut>>
  BY DEF Emit
<1>2. /\ MaxBuffer \in Nat \ {0} /\ MaxEvents \in Nat \ {0} /\ next \in Event /\ next \in Nat \ {0}
      /\ batch \in Seq(Nat) /\ buffer \in Seq(Nat) /\ buffer \in Seq(Event) /\ batch \in Seq(Event)
      /\ Event \subseteq Nat /\ Len(buffer) \in Nat /\ Len(buffer) <= MaxBuffer
  BY <1>1, EmitterSeqs DEF EmitterInv, EmitterTypeOK, Event
<1>3. kept \in Seq(Event) /\ kept \in Seq(Nat) /\ Len(kept) < MaxBuffer /\ Len(kept) \in Nat /\ gone \subseteq Event
  <2>1. CASE full
    <3>1. buffer # <<>>
      BY <1>2, <2>1
    <3>2. Tail(buffer) \in Seq(Event) /\ Len(Tail(buffer)) = Len(buffer) - 1 /\ Head(buffer) \in Event
      BY <1>2, <3>1, HeadTailProperties
    <3>3. Tail(buffer) \in Seq(Nat)
      BY <1>2, <3>2, SeqMonotonic
    <3>4. QED
      BY <1>2, <2>1, <3>2, <3>3
  <2>2. CASE ~full
    BY <1>2, <2>2
  <2>3. QED
    BY <2>1, <2>2
<1>4. Account(batch \o kept, next, received, (overflowed \union gone) \union cut)
  <2>1. Account(batch \o buffer, next, received, overflowed \union cut)
    BY AccountsAgree DEF EmitterInv, Pending
  <2>2. CASE full
    <3>1. buffer # <<>>
      BY <1>2, <2>2
    <3>2. Account(batch \o Tail(buffer), next, received, (overflowed \union cut) \union {Head(buffer)})
      BY <1>2, <2>1, <3>1, AccountDrop
    <3>3. (overflowed \union cut) \union {Head(buffer)} = (overflowed \union gone) \union cut
      BY <2>2
    <3>4. QED
      BY <2>2, <3>2, <3>3
  <2>3. CASE ~full
    BY <2>1, <2>3
  <2>4. QED
    BY <2>2, <2>3
<1> HIDE DEF kept, gone
<1>5. Account(batch' \o buffer', next', received', overflowed' \union cut')
  <2>1. batch \o kept \in Seq(Nat)
    BY <1>2, <1>3, ConcatProperties
  <2>2. Account(Append(batch \o kept, next), next + 1, received, (overflowed \union gone) \union cut)
    BY <1>2, <1>4, <2>1, AccountNew
  <2>3. Append(batch \o kept, next) = batch \o Append(kept, next)
    <3>1. Append(batch \o kept, next) = (batch \o kept) \o <<next>>
      BY <1>2, <2>1, AppendIsConcat
    <3>2. Append(kept, next) = kept \o <<next>> /\ <<next>> \in Seq(Nat)
      BY <1>2, <1>3, AppendIsConcat
    <3>3. batch \in Seq(Nat) /\ kept \in Seq(Nat)
      BY <1>2, <1>3
    <3>4. (batch \o kept) \o <<next>> = batch \o (kept \o <<next>>)
      BY <3>2, <3>3, ConcatAssociative
    <3>5. QED
      BY <3>1, <3>2, <3>4
  <2>4. QED
    BY <1>1, <2>2, <2>3
<1>6. /\ flusher' \in [Flusher -> {"idle", "spawned", "waiting", "sending", "ended"}]
      /\ LockInv'
  <2>1. CASE UNCHANGED flusher
    BY <1>1, <2>1 DEF EmitterInv, EmitterTypeOK, LockInv
  <2>2. CASE ~UNCHANGED flusher
    <3>1. PICK f \in Spawned : flusher[f] = "idle" /\ Goto(f, "spawned")
      BY <1>1, <2>2 DEF Spawn, At
    <3>2. QED
      BY <1>1, <3>1, Walks DEF Flusher
  <2>3. QED
    BY <2>1, <2>2
<1>7. buffer' \in Seq(Event) /\ Len(buffer') <= MaxBuffer
  BY <1>1, <1>2, <1>3, AppendProperties
<1>8. overflowed' \subseteq Event /\ next' \in 1..(MaxEvents + 1)
  BY <1>1, <1>2, <1>3 DEF EmitterInv, EmitterTypeOK
<1>9. EmitterTypeOK'
  BY <1>1, <1>6, <1>7, <1>8 DEF EmitterInv, EmitterTypeOK
<1>10. EventsAccounted'
  <2>1. mode' = "running" => cut' = {}
    BY <1>1 DEF EmitterInv, EventsAccounted
  <2>2. QED
    BY <1>5, <2>1 DEF EventsAccounted, Account
<1>11. QED
  BY <1>6, <1>9, <1>10 DEF EmitterInv

\* The account of the state gives the events' account of the property.
LEMMA AccountSuffices ==
  ASSUME EmitterTypeOK', LockInv', Account(batch' \o buffer', next', received', overflowed' \union cut'),
         mode' = "running" => cut' = {}
  PROVE  EmitterInv'
<1>1. EventsAccounted'
  BY DEF EventsAccounted, Account
<1>2. QED
  BY <1>1 DEF EmitterInv

LEMMA StateAccount ==
  ASSUME EmitterInv
  PROVE  /\ Account(batch \o buffer, next, received, overflowed \union cut)
         /\ mode = "running" => cut = {}
BY AccountsAgree DEF EmitterInv, Pending

\* One task changes its place, and takes or gives back the lock.
LEMMA LockMoves ==
  ASSUME EmitterInv, NEW f \in Flusher, holder \in {Unlocked, f},
         NEW l \in {"idle", "waiting", "sending", "ended"}, Goto(f, l),
         IF l = "sending" THEN holder' = f ELSE holder' = Unlocked /\ batch' = <<>>
  PROVE  /\ flusher' \in [Flusher -> {"idle", "spawned", "waiting", "sending", "ended"}]
         /\ holder' \in Flusher \union {Unlocked} /\ LockInv'
<1>1. /\ flusher' \in [Flusher -> {"idle", "spawned", "waiting", "sending", "ended"}]
      /\ flusher'[f] = l /\ \A g \in Flusher \ {f} : flusher'[g] = flusher[g]
  BY DEF EmitterInv, EmitterTypeOK, Goto
<1>2. \A g \in Flusher \ {f} : flusher[g] # "sending" /\ g # Unlocked
  BY UnlockedIsNobody DEF EmitterInv, LockInv
<1>3. QED
  BY <1>1, <1>2, UnlockedIsNobody DEF LockInv

\* The next batch is the front of what waits; without one the lock is released.
LEMMA BatchStep ==
  ASSUME EmitterInv, NEW f \in Flusher, holder \in {Unlocked, f}, NextBatch(f),
         UNCHANGED <<mode, next, overflowed, cut>>, received' \subseteq Event,
         Account(buffer, next, received', overflowed \union cut)
  PROVE  EmitterInv'
<1> DEFINE n == Min({BatchSize, Len(buffer)})
<1>1. /\ buffer \in Seq(Event) /\ Len(buffer) \in Nat /\ Len(buffer) <= MaxBuffer /\ tries \in 1..MaxRetries
      /\ {MaxBuffer, BatchSize, MaxRetries} \subseteq Nat \ {0} /\ Event \subseteq Nat
  BY EmitterSeqs DEF EmitterInv, EmitterTypeOK
<1>2. n \in 0..Len(buffer) /\ n <= BatchSize
  BY <1>1, MinOfTwo
<1>3. mode' = "running" => cut' = {}
  BY StateAccount
<1> HIDE DEF n
<1>4. CASE n = 0
  <2>1. Leave(f) /\ batch' = <<>> /\ UNCHANGED <<buffer, tries>>
    BY <1>4 DEF NextBatch, n
  <2>2. PICK l \in {"idle", "ended"} : Goto(f, l)
    BY <2>1 DEF Leave
  <2>3. LockInv' /\ flusher' \in [Flusher -> {"idle", "spawned", "waiting", "sending", "ended"}]
        /\ holder' \in Flusher \union {Unlocked}
    BY <2>1, <2>2, LockMoves DEF Leave
  <2>4. EmitterTypeOK'
    BY <1>1, <2>1, <2>3 DEF EmitterInv, EmitterTypeOK
  <2>5. batch' \o buffer' = buffer
    BY <1>1, <2>1, ConcatEmptySeq
  <2>6. QED
    BY <1>3, <2>3, <2>4, <2>5, AccountSuffices
<1>5. CASE n # 0
  <2>1. /\ batch' = SubSeq(buffer, 1, n) /\ buffer' = SubSeq(buffer, n + 1, Len(buffer))
        /\ tries' = 1 /\ Goto(f, "sending") /\ holder' = f
    BY <1>5 DEF NextBatch, n
  <2>2. /\ batch' \in Seq(Event) /\ Len(batch') = n
        /\ buffer' \in Seq(Event) /\ Len(buffer') = Len(buffer) - n
        /\ batch' \o buffer' = buffer
    BY <1>1, <1>2, <2>1, Parted
  <2>3. LockInv' /\ flusher' \in [Flusher -> {"idle", "spawned", "waiting", "sending", "ended"}]
        /\ holder' \in Flusher \union {Unlocked}
    BY <2>1, LockMoves
  <2>4. Len(batch') <= BatchSize /\ Len(buffer') <= MaxBuffer /\ tries' \in 1..MaxRetries
    BY <1>1, <1>2, <2>1, <2>2
  <2>5. EmitterTypeOK'
    BY <2>2, <2>3, <2>4 DEF EmitterInv, EmitterTypeOK
  <2>6. QED
    BY <1>3, <2>2, <2>3, <2>5, AccountSuffices
<1>6. QED
  BY <1>4, <1>5

LEMMA AcquireStep ==
  ASSUME EmitterInv, NEW f \in Flusher, Acquire(f)
  PROVE  EmitterInv'
<1>1. batch = <<>> /\ holder = Unlocked
  BY DEF Acquire, EmitterInv, LockInv
<1>2. batch \o buffer = buffer
  BY <1>1, EmitterSeqs, ConcatEmptySeq
<1>3. Account(buffer, next, received', overflowed \union cut) /\ received' \subseteq Event
  BY <1>2, StateAccount DEF Acquire, EmitterInv, EmitterTypeOK
<1>4. QED
  BY <1>1, <1>3, BatchStep DEF Acquire

\* What the endpoint has received after an attempt.
LEMMA AfterArrival ==
  ASSUME EmitterInv
  PROVE  /\ Received \subseteq Event
         /\ Account(batch \o buffer, next, Received, overflowed \union cut)
<1>1. ToSet(batch) \subseteq Event
  BY DEF EmitterInv, EmitterTypeOK, ToSet
<1>2. batch \in Seq(Nat) /\ buffer \in Seq(Nat) /\ next \in Nat
  BY EmitterSeqs
<1>3. QED
  BY <1>1, <1>2, StateAccount, AccountArrival DEF Received, EmitterInv, EmitterTypeOK

LEMMA SendSucceedsStep ==
  ASSUME EmitterInv, NEW f \in Flusher, SendSucceeds(f)
  PROVE  EmitterInv'
<1>1. received' = Received /\ NextBatch(f) /\ UNCHANGED <<mode, next, overflowed, cut>> /\ holder = f
  BY DEF SendSucceeds, At, EmitterInv, LockInv
<1>2. batch \in Seq(Nat) /\ buffer \in Seq(Nat) /\ next \in Nat
  BY EmitterSeqs
<1>3. Account(buffer, next, Received, overflowed \union cut)
  BY <1>2, AfterArrival, AccountRest DEF Received
<1>4. QED
  BY <1>1, <1>3, AfterArrival, BatchStep

LEMMA SendFailsStep ==
  ASSUME EmitterInv, NEW f \in Flusher, NEW arrived \in BOOLEAN, SendFails(f, arrived)
  PROVE  EmitterInv'
<1>1. /\ holder = f /\ UNCHANGED <<mode, next, cut>>
      /\ batch \in Seq(Event) /\ buffer \in Seq(Event) /\ batch \in Seq(Nat) /\ buffer \in Seq(Nat)
      /\ next \in Nat /\ tries \in 1..MaxRetries /\ MaxRetries \in Nat \ {0} /\ MaxBuffer \in Nat \ {0}
      /\ Event \subseteq Nat
  BY EmitterSeqs DEF SendFails, At, EmitterInv, EmitterTypeOK, LockInv
<1>2. received' \subseteq Event /\ Account(batch \o buffer, next, received', overflowed \union cut)
  <2>1. received' = Received \/ received' = received
    BY DEF SendFails
  <2>2. received \subseteq Event
    BY DEF EmitterInv, EmitterTypeOK
  <2>3. QED
    BY <2>1, <2>2, AfterArrival, StateAccount
<1>3. mode' = "running" => cut' = {}
  BY <1>1, StateAccount
<1>4. CASE tries < MaxRetries
  <2>1. tries' = tries + 1 /\ UNCHANGED <<buffer, overflowed, batch, holder, flusher>>
    BY <1>4 DEF SendFails
  <2>2. tries' \in 1..MaxRetries
    BY <1>1, <1>4, <2>1
  <2>3. EmitterTypeOK' /\ LockInv'
    BY <1>1, <1>2, <2>1, <2>2 DEF EmitterInv, EmitterTypeOK, LockInv
  <2>4. QED
    BY <1>1, <1>2, <1>3, <2>1, <2>3, AccountSuffices
<1>5. CASE ~(tries < MaxRetries)
  <2> DEFINE all == batch \o buffer
             n == Min({MaxBuffer, Len(all)})
             front == SubSeq(all, 1, n)
             back == SubSeq(all, n + 1, Len(all))
             lost == {all[i] : i \in (n + 1)..Len(all)}
  <2>1. all \in Seq(Event) /\ Len(all) \in Nat /\ DOMAIN all = 1..Len(all)
    BY <1>1, ConcatProperties, LenProperties
  <2>2. n \in 0..Len(all) /\ n <= MaxBuffer
    BY <1>1, <2>1, MinOfTwo
  <2>3. ReturnBatch(f) /\ batch' = <<>> /\ Leave(f) /\ UNCHANGED tries
    BY <1>5 DEF SendFails
  <2>4. buffer' = front /\ overflowed' = overflowed \union lost
    BY <2>3 DEF ReturnBatch
  <2> HIDE DEF all, n
  <2>5. /\ front \in Seq(Event) /\ Len(front) = n /\ back \in Seq(Event) /\ Len(back) = Len(all) - n
        /\ front \o back = all
    BY <2>1, <2>2, Parted
  <2>6. lost = ToSet(back)
    <3>1. DOMAIN back = 1..(Len(all) - n)
      BY <2>5, LenProperties
    <3>2. \A i \in 1..(Len(all) - n) : back[i] = all[n + i] /\ n + i \in (n + 1)..Len(all)
      <4>1. /\ \A i \in (n + 1)..Len(all) : all[i] \in Event
            /\ n + 1 \in Int /\ Len(all) \in Int /\ Len(all) - (n + 1) + 1 = Len(all) - n
        BY <2>1, <2>2
      <4>2. \A i \in 1..(Len(all) - n) : back[i] = all[(n + 1) + i - 1]
        BY <4>1, SubSeqProperties
      <4>3. \A i \in 1..(Len(all) - n) : (n + 1) + i - 1 = n + i /\ n + i \in (n + 1)..Len(all)
        BY <2>1, <2>2
      <4>4. QED
        BY <4>2, <4>3
    <3>3. \A i \in (n + 1)..Len(all) : i - n \in 1..(Len(all) - n) /\ n + (i - n) = i
      BY <2>1, <2>2
    <3> HIDE DEF back
    <3>4. QED
      BY <3>1, <3>2, <3>3 DEF ToSet
  <2>7. lost \subseteq Event
    BY <2>1, <2>2
  <2> HIDE DEF front, back, lost
  <2>8. front \in Seq(Nat) /\ back \in Seq(Nat)
    BY <1>1, <2>5, SeqMonotonic
  <2>9. Account(front, next, received', (overflowed \union cut) \union lost)
    BY <1>1, <1>2, <2>5, <2>6, <2>8, AccountFront DEF all
  <2>10. PICK l \in {"idle", "ended"} : Goto(f, l)
    BY <2>3 DEF Leave
  <2>11. LockInv' /\ flusher' \in [Flusher -> {"idle", "spawned", "waiting", "sending", "ended"}]
         /\ holder' \in Flusher \union {Unlocked}
    BY <1>1, <2>3, <2>10, LockMoves DEF Leave
  <2>12. batch' \in Seq(Event) /\ Len(batch') = 0 /\ buffer' \in Seq(Event) /\ Len(buffer') <= MaxBuffer
    BY <2>2, <2>3, <2>4, <2>5
  <2>13. EmitterTypeOK'
    <3>1. BatchSize \in Nat
      BY EmitterAssumption
    <3>2. QED
      BY <1>1, <1>2, <2>3, <2>4, <2>7, <2>11, <2>12, <3>1 DEF EmitterInv, EmitterTypeOK
  <2>14. batch' \o buffer' = front
    BY <2>3, <2>4, <2>5, ConcatEmptySeq
  <2>15. overflowed' \union cut' = (overflowed \union cut) \union lost
    BY <1>1, <2>4
  <2>16. QED
    BY <1>1, <1>3, <2>9, <2>11, <2>13, <2>14, <2>15, AccountSuffices
<1>6. QED
  BY <1>4, <1>5

\* A batch is cut off: what of it has not arrived is lost, and known to be.
LEMMA CutOff ==
  ASSUME EmitterInv
  PROVE  Account(buffer, next, received, overflowed \union (cut \union (ToSet(batch) \ received)))
<1>1. batch \in Seq(Nat) /\ buffer \in Seq(Nat) /\ next \in Nat
  BY EmitterSeqs
<1>2. QED
  BY <1>1, StateAccount, AccountRest

LEMMA ShutdownSteps ==
  ASSUME EmitterInv, BeginShutdown \/ Exit
  PROVE  EmitterInv'
<1>1. /\ batch \in Seq(Event) /\ Len(batch) <= BatchSize /\ ToSet(batch) \subseteq Event
      /\ BatchSize \in Nat /\ buffer \in Seq(Nat)
  BY EmitterSeqs DEF EmitterInv, EmitterTypeOK, ToSet
<1>2. UNCHANGED <<buffer, tries, next, received, overflowed>> /\ mode' \in {"closing", "exited"}
  BY DEF BeginShutdown, Exit
<1>3. ASSUME batch' = <<>>, cut' = cut \union (ToSet(batch) \ received)
      PROVE  /\ batch' \in Seq(Event) /\ Len(batch') <= BatchSize /\ cut' \subseteq Event
             /\ Account(batch' \o buffer', next', received', overflowed' \union cut')
  <2>1. batch' \o buffer' = buffer
    BY <1>1, <1>2, <1>3, ConcatEmptySeq
  <2>2. batch' \in Seq(Event) /\ Len(batch') = 0
    BY <1>3
  <2>3. cut' \subseteq Event
    BY <1>1, <1>3 DEF EmitterInv, EmitterTypeOK
  <2>4. QED
    BY <1>1, <1>2, <1>3, <2>1, <2>2, <2>3, CutOff
<1>4. ASSUME batch' \in Seq(Event), Len(batch') <= BatchSize, cut' \subseteq Event,
             Account(batch' \o buffer', next', received', overflowed' \union cut'),
             flusher' \in [Flusher -> {"idle", "spawned", "waiting", "sending", "ended"}],
             holder' \in Flusher \union {Unlocked}, LockInv'
      PROVE  EmitterInv'
  <2>1. EmitterTypeOK'
    BY <1>2, <1>4 DEF EmitterInv, EmitterTypeOK
  <2>2. QED
    BY <1>2, <1>4, <2>1, AccountSuffices
<1>5. CASE Exit
  <2>1. /\ flusher' \in [Flusher -> {"idle", "spawned", "waiting", "sending", "ended"}]
        /\ holder' \in Flusher \union {Unlocked} /\ LockInv'
    BY <1>5, UnlockedIsNobody DEF Exit, LockInv
  <2>2. QED
    BY <1>3, <1>4, <1>5, <2>1 DEF Exit
<1>6. CASE BeginShutdown
  <2>1. "periodic" \in Flusher /\ Goto("periodic", "ended") /\ Cancelled("periodic")
    BY <1>6 DEF BeginShutdown, Flusher
  <2>2. CASE holder = "periodic"
    <3>1. batch' = <<>> /\ cut' = cut \union (ToSet(batch) \ received) /\ holder' = Unlocked
      BY <1>6, <2>2 DEF BeginShutdown, Cancelled
    <3>2. /\ flusher' \in [Flusher -> {"idle", "spawned", "waiting", "sending", "ended"}]
          /\ holder' \in Flusher \union {Unlocked} /\ LockInv'
      BY <2>1, <2>2, <3>1, LockMoves
    <3>3. QED
      BY <1>3, <1>4, <3>1, <3>2
  <2>3. CASE holder # "periodic"
    <3>1. UNCHANGED <<holder, batch, cut>> /\ flusher["periodic"] # "sending"
      BY <1>6, <2>1, <2>3 DEF BeginShutdown, Cancelled, EmitterInv, LockInv
    <3>2. /\ flusher' \in [Flusher -> {"idle", "spawned", "waiting", "sending", "ended"}]
          /\ LockInv'
      BY <2>1, <3>1, Walks
    <3>3. QED
      BY <1>1, <1>2, <1>4, <3>1, <3>2, StateAccount DEF EmitterInv, EmitterTypeOK
  <2>4. QED
    BY <2>2, <2>3
<1>7. QED
  BY <1>5, <1>6
-----------------------------------------------------------------------------
LEMMA InitEmitter == Init => EmitterInv
<1> SUFFICES ASSUME Init PROVE EmitterInv
  OBVIOUS
<1>1. /\ buffer = <<>> /\ holder = Unlocked /\ batch = <<>> /\ tries = 1
      /\ flusher = [f \in Flusher |-> "idle"] /\ mode = "running" /\ next = 1
      /\ received = {} /\ overflowed = {} /\ cut = {}
  BY DEF Init, EmitterInit
<1>2. EmitterTypeOK
  BY <1>1, EmitterAssumption DEF EmitterTypeOK
<1>3. LockInv
  BY <1>1, UnlockedIsNobody DEF LockInv
<1>4. batch \o buffer = <<>>
  BY <1>1, EmptySeq, ConcatEmptySeq
<1>5. EventsAccounted
  BY <1>1, <1>4 DEF EventsAccounted, Ascending, ToSet
<1>6. QED
  BY <1>2, <1>3, <1>5 DEF EmitterInv

LEMMA NextEmitter == EmitterInv /\ [Next]_vars => EmitterInv'
<1>1. EmitterInv /\ UNCHANGED emitterVars => EmitterInv'
  BY DEF emitterVars, EmitterInv, EmitterTypeOK, LockInv, EventsAccounted
<1>2. ASSUME EmitterInv, EmitterStep PROVE EmitterInv'
  <2>1. CASE Emit
    BY <1>2, <2>1, EmitStep
  <2>2. CASE Tick \/ RunSpawned \/ FinalFlush
    BY <1>2, <2>2, FlushBegins DEF Tick, RunSpawned, FinalFlush, At, Flusher
  <2>3. CASE BeginShutdown
    BY <1>2, <2>3, ShutdownSteps
  <2>4. ASSUME NEW f \in Flusher, FlushStep(f) PROVE EmitterInv'
    BY <1>2, <2>4, AcquireStep, SendSucceedsStep, SendFailsStep DEF FlushStep
  <2>5. QED
    BY <1>2, <2>1, <2>2, <2>3, <2>4 DEF EmitterStep
<1>3. ASSUME EmitterInv, Next PROVE EmitterInv'
  <2>1. CASE ExitProcess
    BY <1>3, <2>1, ShutdownSteps DEF ExitProcess
  <2>2. ASSUME NEW t \in Task, NEW outcome \in RowKind,
               HandleHere(t, outcome) \/ HandleElsewhere(t, outcome)
        PROVE  EmitterInv'
    BY <1>1, <1>3, <2>2, EmitStep DEF HandleHere, HandleElsewhere
  <2>3. QED
    BY <1>1, <1>2, <1>3, <2>1, <2>2 DEF Next
<1>4. EmitterInv /\ UNCHANGED vars => EmitterInv'
  BY <1>1 DEF vars
<1>5. QED
  BY <1>3, <1>4

\* Events wait in the order of their emission, in the batch and behind it in the buffer,
\* and leave it at the front, or at the end when a returned batch overfills the buffer:
\* none is lost without a cause, and none arrives after a younger one.
THEOREM EventsStayAccounted == Spec => []EventsAccounted
<1>1. EmitterInv => EventsAccounted
  BY DEF EmitterInv
<1>2. QED
  BY <1>1, InitEmitter, NextEmitter, PTL DEF Spec
=============================================================================
