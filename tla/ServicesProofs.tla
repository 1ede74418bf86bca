---------------------------- MODULE ServicesProofs ----------------------------
(* The activity log and the transactions of Rewards, for any number of users,  *)
(* requests and events.                                                       *)
EXTENDS ActivityLog, Rewards, FiniteSetTheorems, SequenceTheorems,
        WellFoundedInduction, TLAPS

-------------------------------------------------------------------------------
(* The activity log.                                                          *)

Distinct(s) == \A i, j \in DOMAIN s : s[i] = s[j] => i = j

OnceFrom(T, s) == \A i, j \in DOMAIN s : s[i] = s[j] /\ s[i] \in T => i = j
InBatches(batches) == UNION {Elements(b) : b \in batches}

\* The events of a mailbox, a buffer, the batches, the table and those given up: each
\* is in one place, and there once.
Apart(m, b, batches, rows, lost) ==
    /\ OnceFrom(Event, m)
    /\ Distinct(b) /\ Distinct(rows) /\ \A c \in batches : Distinct(c)
    /\ \A c, d \in batches : c # d => Elements(c) \cap Elements(d) = {}
    /\ Event \cap Elements(m) \cap
           (Elements(b) \cup InBatches(batches) \cup Elements(rows) \cup lost) = {}
    /\ Elements(b) \cap (InBatches(batches) \cup Elements(rows) \cup lost) = {}
    /\ InBatches(batches) \cap (Elements(rows) \cup lost) = {}
    /\ Elements(rows) \cap lost = {}

EventsAreApart == Apart(mailbox, buffer, flushing, logged, gone)

LogInv == LogTypeOK /\ EventsAreApart

LEMMA AppendElements ==
    ASSUME NEW S, NEW s \in Seq(S), NEW e \in S
    PROVE  LET all == Append(s, e) IN
           /\ all \in Seq(S) /\ all # <<>>
           /\ Elements(all) = Elements(s) \cup {e}
           /\ e \notin Elements(s) /\ Distinct(s) => Distinct(all)
           /\ \A T : (e \notin T \/ e \notin Elements(s)) /\ OnceFrom(T, s) => OnceFrom(T, all)
<1> DEFINE all == Append(s, e)
<1>1. /\ all \in Seq(S) /\ Len(s) \in Nat /\ Len(all) = Len(s) + 1
      /\ \A i \in 1..Len(s) : all[i] = s[i]
      /\ all[Len(s) + 1] = e
      /\ DOMAIN s = 1..Len(s) /\ DOMAIN all = 1..Len(all)
  BY AppendProperties, LenProperties
<1> HIDE DEF all
<1>2. \A i \in 1..Len(all) : i \in 1..Len(s) \/ i = Len(s) + 1
  BY <1>1
<1>3. 1..Len(s) \subseteq 1..Len(all) /\ Len(s) + 1 \in 1..Len(all)
  BY <1>1
<1>4. Elements(all) = Elements(s) \cup {e}
  BY <1>1, <1>2, <1>3 DEF Elements
<1>5. e \notin Elements(s) /\ Distinct(s) => Distinct(all)
  BY <1>1, <1>2, <1>3 DEF Elements, Distinct
<1>6. ASSUME NEW T, e \notin T \/ e \notin Elements(s), OnceFrom(T, s)
      PROVE  OnceFrom(T, all)
  BY <1>1, <1>2, <1>3, <1>6 DEF Elements, OnceFrom
<1>7. all # <<>>
  BY <1>1, EmptySeq
<1>8. QED
  BY <1>1, <1>4, <1>5, <1>6, <1>7 DEF all

LEMMA TailElements ==
    ASSUME NEW S, NEW s \in Seq(S), s # <<>>
    PROVE  LET rest == Tail(s) IN
           /\ rest \in Seq(S) /\ Head(s) \in S
           /\ Elements(s) = Elements(rest) \cup {Head(s)}
           /\ \A T : OnceFrom(T, s) =>
                OnceFrom(T, rest) /\ (Head(s) \in T => Head(s) \notin Elements(rest))
<1> DEFINE rest == Tail(s)
<1>1. /\ rest \in Seq(S) /\ Head(s) \in S /\ Head(s) = s[1]
      /\ Len(s) \in Nat /\ Len(s) >= 1 /\ Len(rest) = Len(s) - 1
      /\ \A i \in 1..Len(rest) : rest[i] = s[i + 1]
      /\ DOMAIN s = 1..Len(s) /\ DOMAIN rest = 1..Len(rest)
  BY HeadTailProperties, LenProperties, EmptySeq
<1> HIDE DEF rest
<1>2. /\ \A i \in 1..Len(rest) : i + 1 \in 1..Len(s)
      /\ 1 \in 1..Len(s)
  BY <1>1
<1>3. ASSUME NEW i \in 1..Len(s), i # 1
      PROVE  i - 1 \in 1..Len(rest) /\ s[i] = rest[i - 1]
  <2>1. i - 1 \in 1..Len(rest) /\ (i - 1) + 1 = i
    BY <1>1, <1>3
  <2>2. QED
    BY <1>1, <2>1
<1>4. Elements(s) = Elements(rest) \cup {Head(s)}
  <2>1. ASSUME NEW x \in Elements(s)
        PROVE  x \in Elements(rest) \cup {Head(s)}
    <3>1. PICK i \in 1..Len(s) : s[i] = x
      BY <1>1, <2>1 DEF Elements
    <3>2. CASE i = 1
      BY <1>1, <3>1, <3>2
    <3>3. CASE i # 1
      BY <1>1, <1>3, <3>1, <3>3 DEF Elements
    <3>4. QED
      BY <3>2, <3>3
  <2>2. \A x \in Elements(rest) : x \in Elements(s)
    BY <1>1, <1>2 DEF Elements
  <2>3. Head(s) \in Elements(s)
    BY <1>1, <1>2 DEF Elements
  <2>4. QED
    BY <2>1, <2>2, <2>3
<1>5. ASSUME NEW T, OnceFrom(T, s)
      PROVE  OnceFrom(T, rest) /\ (Head(s) \in T => Head(s) \notin Elements(rest))
  <2>1. ASSUME NEW i \in 1..Len(rest), NEW j \in 1..Len(rest), rest[i] = rest[j], rest[i] \in T
        PROVE  i = j
    <3>1. i + 1 = j + 1
      BY <1>1, <1>2, <1>5, <2>1 DEF OnceFrom
    <3>2. QED
      BY <3>1
  <2>2. ASSUME Head(s) \in T, NEW i \in 1..Len(rest), rest[i] = Head(s)
        PROVE  FALSE
    <3>1. 1 = i + 1
      BY <1>1, <1>2, <1>5, <2>2 DEF OnceFrom
    <3>2. QED
      BY <3>1
  <2>3. QED
    BY <1>1, <2>1, <2>2 DEF Elements, OnceFrom
<1>6. QED
  BY <1>1, <1>4, <1>5 DEF rest

LEMMA ConcatElements ==
    ASSUME NEW S, NEW s \in Seq(S), NEW t \in Seq(S)
    PROVE  /\ s \o t \in Seq(S)
           /\ Elements(s \o t) = Elements(s) \cup Elements(t)
           /\ Distinct(s) /\ Distinct(t) /\ Elements(s) \cap Elements(t) = {} => Distinct(s \o t)
<1> DEFINE all == s \o t
<1>1. /\ all \in Seq(S) /\ Len(s) \in Nat /\ Len(t) \in Nat /\ Len(all) = Len(s) + Len(t)
      /\ \A i \in 1..Len(s) : all[i] = s[i]
      /\ \A i \in 1..Len(t) : all[Len(s) + i] = t[i]
      /\ DOMAIN s = 1..Len(s) /\ DOMAIN t = 1..Len(t) /\ DOMAIN all = 1..Len(all)
  <2>1. all \in Seq(S) /\ Len(s) \in Nat /\ Len(t) \in Nat /\ Len(all) = Len(s) + Len(t)
    BY ConcatProperties, LenProperties
  <2>2. \A i \in 1..(Len(s) + Len(t)) : all[i] = IF i <= Len(s) THEN s[i] ELSE t[i - Len(s)]
    BY ConcatProperties
  <2>3. ASSUME NEW i \in 1..Len(t)
        PROVE  all[Len(s) + i] = t[i]
    <3>1. Len(s) + i \in 1..(Len(s) + Len(t)) /\ ~(Len(s) + i <= Len(s)) /\ (Len(s) + i) - Len(s) = i
      BY <2>1
    <3>2. QED
      BY <2>2, <3>1
  <2>4. \A i \in 1..Len(s) : all[i] = s[i]
    BY <2>1, <2>2
  <2>5. QED
    BY <2>1, <2>3, <2>4, LenProperties
<1> HIDE DEF all
<1>2. ASSUME NEW i \in 1..Len(all), i \notin 1..Len(s)
      PROVE  i - Len(s) \in 1..Len(t) /\ all[i] = t[i - Len(s)]
  <2>1. i - Len(s) \in 1..Len(t) /\ Len(s) + (i - Len(s)) = i
    BY <1>1, <1>2
  <2>2. QED
    BY <1>1, <2>1
<1>3. /\ 1..Len(s) \subseteq 1..Len(all)
      /\ \A i \in 1..Len(t) : Len(s) + i \in 1..Len(all)
  BY <1>1
<1>4. Elements(all) = Elements(s) \cup Elements(t)
  <2>1. \A x \in Elements(all) : x \in Elements(s) \cup Elements(t)
    BY <1>1, <1>2 DEF Elements
  <2>2. \A x \in Elements(s) \cup Elements(t) : x \in Elements(all)
    BY <1>1, <1>3 DEF Elements
  <2>3. QED
    BY <2>1, <2>2
<1>5. ASSUME Distinct(s), Distinct(t), Elements(s) \cap Elements(t) = {},
             NEW i \in 1..Len(all), NEW j \in 1..Len(all), all[i] = all[j]
      PROVE  i = j
  <2>1. CASE i \in 1..Len(s) /\ j \in 1..Len(s)
    BY <1>1, <1>5, <2>1 DEF Distinct
  <2>2. CASE i \notin 1..Len(s) /\ j \notin 1..Len(s)
    <3>1. PICK k \in 1..Len(t) : k = i - Len(s) /\ all[i] = t[k]
      BY <1>2, <2>2
    <3>2. PICK l \in 1..Len(t) : l = j - Len(s) /\ all[j] = t[l]
      BY <1>2, <2>2
    <3>3. k = l
      BY <1>1, <1>5, <3>1, <3>2 DEF Distinct
    <3>4. QED
      BY <1>1, <3>1, <3>2, <3>3
  <2>3. CASE i \in 1..Len(s) /\ j \notin 1..Len(s)
    <3>1. all[i] \in Elements(s)
      BY <1>1, <2>3 DEF Elements
    <3>2. all[j] \in Elements(t)
      BY <1>2, <2>3 DEF Elements
    <3>3. QED
      BY <1>5, <3>1, <3>2
  <2>4. CASE i \notin 1..Len(s) /\ j \in 1..Len(s)
    <3>1. all[i] \in Elements(t)
      BY <1>2, <2>4 DEF Elements
    <3>2. all[j] \in Elements(s)
      BY <1>1, <2>4 DEF Elements
    <3>3. QED
      BY <1>5, <3>1, <3>2
  <2>5. QED
    BY <2>1, <2>2, <2>3, <2>4
<1>6. QED
  BY <1>1, <1>4, <1>5 DEF all, Distinct

\* What the steps of the log do to its places, one at a time.
LEMMA NothingThere ==
    /\ Elements(<<>>) = {} /\ Distinct(<<>>) /\ InBatches({}) = {}
    /\ \A T : OnceFrom(T, <<>>)
    /\ \A F, b : InBatches(F \cup {b}) = InBatches(F) \cup Elements(b)
    /\ \A F, b : b \in F => Elements(b) \subseteq InBatches(F)
  BY DEF Elements, Distinct, InBatches, OnceFrom

LEMMA MailArrives ==
    ASSUME NEW m \in Seq(Messages), NEW b, NEW F, NEW L, NEW G, Apart(m, b, F, L, G),
           NEW e \in Messages,
           e \in Event => e \notin Elements(m) \cup Elements(b) \cup InBatches(F)
                                    \cup Elements(L) \cup G
    PROVE  Append(m, e) \in Seq(Messages) /\ Apart(Append(m, e), b, F, L, G)
<1> DEFINE all == Append(m, e)
<1>1. /\ all \in Seq(Messages) /\ Elements(all) = Elements(m) \cup {e}
      /\ OnceFrom(Event, m) => OnceFrom(Event, all)
  BY AppendElements
<1> HIDE DEF all
<1>2. QED
  BY <1>1 DEF Apart, all

LEMMA MailIsTaken ==
    ASSUME NEW m \in Seq(Messages), m # <<>>, NEW b \in Seq(Event), NEW F, NEW L, NEW G,
           Apart(m, b, F, L, G)
    PROVE  /\ Tail(m) \in Seq(Messages) /\ Head(m) \in Messages
           /\ Apart(Tail(m), b, F, L, G)
           /\ Head(m) \in Event =>
                /\ Append(b, Head(m)) \in Seq(Event) /\ Append(b, Head(m)) # <<>>
                /\ Apart(Tail(m), Append(b, Head(m)), F, L, G)
<1> DEFINE rest == Tail(m)
           e == Head(m)
           all == Append(b, e)
<1>1. /\ rest \in Seq(Messages) /\ e \in Messages /\ Elements(m) = Elements(rest) \cup {e}
      /\ OnceFrom(Event, m) =>
           OnceFrom(Event, rest) /\ (e \in Event => e \notin Elements(rest))
  BY TailElements
<1>2. e \in Event => /\ all \in Seq(Event) /\ all # <<>> /\ Elements(all) = Elements(b) \cup {e}
                     /\ e \notin Elements(b) /\ Distinct(b) => Distinct(all)
  BY AppendElements
<1> HIDE DEF rest, e, all
<1>3. Apart(rest, b, F, L, G)
  BY <1>1 DEF Apart
<1>4. e \in Event => Apart(rest, all, F, L, G)
  BY <1>1, <1>2 DEF Apart
<1>5. QED
  BY <1>1, <1>2, <1>3, <1>4 DEF rest, e, all

LEMMA BufferIsFlushed ==
    ASSUME NEW m, NEW b, NEW F, NEW L, NEW G, Apart(m, b, F, L, G)
    PROVE  /\ Apart(m, <<>>, F \cup {b}, L, G)
           /\ b = <<>> => Apart(m, <<>>, F, L, G)
<1>1. Apart(m, <<>>, F \cup {b}, L, G)
  <2>1. \A c, d \in F \cup {b} : c # d => Elements(c) \cap Elements(d) = {}
    BY NothingThere DEF Apart
  <2>2. QED
    BY <2>1, NothingThere DEF Apart
<1>2. QED
  BY <1>1

\* A batch that is done: its events are in the table, or given up.
LEMMA BatchIsDone ==
    ASSUME NEW m, NEW b, NEW F, NEW L \in Seq(Event), NEW G, Apart(m, b, F, L, G),
           NEW c \in F, c \in Seq(Event)
    PROVE  /\ Apart(m, b, F \ {c}, L \o c, G) /\ L \o c \in Seq(Event)
           /\ Apart(m, b, F \ {c}, L, G \cup Elements(c))
<1>1. /\ InBatches(F) = InBatches(F \ {c}) \cup Elements(c)
      /\ InBatches(F \ {c}) \cap Elements(c) = {}
  BY DEF Apart, InBatches
<1>2. /\ L \o c \in Seq(Event) /\ Elements(L \o c) = Elements(L) \cup Elements(c)
      /\ Distinct(L) /\ Distinct(c) /\ Elements(L) \cap Elements(c) = {} => Distinct(L \o c)
  BY ConcatElements
<1>3. Apart(m, b, F \ {c}, L \o c, G)
  BY <1>1, <1>2 DEF Apart
<1>4. Apart(m, b, F \ {c}, L, G \cup Elements(c))
  BY <1>1 DEF Apart
<1>5. QED
  BY <1>2, <1>3, <1>4

LEMMA LogInitMeetsInv == LogInit => LogInv
<1> SUFFICES ASSUME LogInit PROVE LogInv
  OBVIOUS
<1>1. LogTypeOK
  BY DEF LogInit, LogTypeOK
<1>2. EventsAreApart
  BY NothingThere DEF LogInit, EventsAreApart, Apart
<1>3. QED
  BY <1>1, <1>2 DEF LogInv

LEMMA FlushKeepsLog ==
    ASSUME NEW b \in Seq(Event), FlushBuffer(b), LogTypeOK,
           mailbox' \in Seq(Messages), Apart(mailbox', b, flushing, logged, gone),
           UNCHANGED <<logged, gone, shutdown>>
    PROVE  LogInv'
<1>1. buffer' = <<>> /\ (flushing' = flushing \cup {b} \/ (b = <<>> /\ flushing' = flushing))
  BY DEF FlushBuffer
<1>2. LogTypeOK'
  BY <1>1 DEF LogTypeOK
<1>3. Apart(mailbox', <<>>, flushing', logged, gone)
  BY <1>1, BufferIsFlushed
<1>4. EventsAreApart'
  BY <1>1, <1>3 DEF EventsAreApart
<1>5. QED
  BY <1>2, <1>4 DEF LogInv

LEMMA HandleKeepsLog == LogInv /\ Handle => LogInv'
<1> SUFFICES ASSUME LogInv, Handle PROVE LogInv'
  OBVIOUS
<1> DEFINE events == Append(buffer, Head(mailbox))
<1>1. LogTypeOK /\ Apart(mailbox, buffer, flushing, logged, gone)
  BY DEF LogInv, EventsAreApart
<1>2. /\ mailbox # <<>> /\ mailbox' = Tail(mailbox) /\ UNCHANGED <<logged, gone, shutdown>>
      /\ IF Head(mailbox) \in Event
         THEN IF Len(events) >= BATCH_SIZE THEN FlushBuffer(events)
              ELSE buffer' = events /\ UNCHANGED flushing
         ELSE FlushBuffer(buffer)
  BY DEF Handle
<1>3. /\ mailbox' \in Seq(Messages)
      /\ Apart(mailbox', buffer, flushing, logged, gone)
      /\ Head(mailbox) \in Event =>
           events \in Seq(Event) /\ Apart(mailbox', events, flushing, logged, gone)
  <2>1. mailbox \in Seq(Messages) /\ buffer \in Seq(Event)
    BY <1>1 DEF LogTypeOK
  <2>2. QED
    BY <1>1, <1>2, <2>1, MailIsTaken
<1> HIDE DEF events
<1>4. CASE Head(mailbox) \notin Event
  <2>1. FlushBuffer(buffer) /\ buffer \in Seq(Event)
    BY <1>1, <1>2, <1>4 DEF LogTypeOK
  <2>2. QED
    BY <1>1, <1>2, <1>3, <2>1, FlushKeepsLog
<1>5. CASE Head(mailbox) \in Event /\ Len(events) >= BATCH_SIZE
  BY <1>1, <1>2, <1>3, <1>5, FlushKeepsLog
<1>6. CASE Head(mailbox) \in Event /\ ~(Len(events) >= BATCH_SIZE)
  <2>1. buffer' = events /\ flushing' = flushing
    BY <1>2, <1>6
  <2>2. LogTypeOK'
    BY <1>1, <1>2, <1>3, <1>6, <2>1 DEF LogTypeOK
  <2>3. EventsAreApart'
    BY <1>2, <1>3, <1>6, <2>1 DEF EventsAreApart
  <2>4. QED
    BY <2>2, <2>3 DEF LogInv
<1>7. QED
  BY <1>4, <1>5, <1>6

\* The inductive invariant: each event is in one place, and there once.
THEOREM LogInvariant == LogSpec => []LogInv
<1>1. LogInv /\ [LogNext]_logVars => LogInv'
  <2> SUFFICES ASSUME LogInv, [LogNext]_logVars PROVE LogInv'
    OBVIOUS
  <2>1. LogTypeOK /\ Apart(mailbox, buffer, flushing, logged, gone)
    BY DEF LogInv, EventsAreApart
  <2>2. InFlush = InBatches(flushing)
    BY DEF InFlush, InBatches
  <2>3. ASSUME NEW e \in Event, Record(e)
        PROVE  LogInv'
    <3>1. /\ e \notin Recorded /\ UNCHANGED <<buffer, flushing, logged, shutdown>>
          /\ \/ gone' = gone \cup {e} /\ mailbox' = mailbox
             \/ mailbox' = Append(mailbox, e) /\ gone' = gone
      BY <2>3 DEF Record
    <3>2. e \notin Elements(mailbox) \cup Elements(buffer) \cup InBatches(flushing)
                       \cup Elements(logged) \cup gone
      BY <2>2, <3>1 DEF Recorded
    <3>3. CASE gone' = gone \cup {e} /\ mailbox' = mailbox
      <4>1. Apart(mailbox, buffer, flushing, logged, gone \cup {e})
        BY <2>1, <3>2 DEF Apart
      <4>2. LogTypeOK'
        BY <2>1, <3>1, <3>3 DEF LogTypeOK
      <4>3. QED
        BY <3>1, <3>3, <4>1, <4>2 DEF LogInv, EventsAreApart
    <3>4. CASE mailbox' = Append(mailbox, e) /\ gone' = gone
      <4>1. mailbox \in Seq(Messages) /\ e \in Messages
        BY <2>1 DEF LogTypeOK, Messages
      <4>2. mailbox' \in Seq(Messages) /\ Apart(mailbox', buffer, flushing, logged, gone)
        BY <2>1, <3>2, <3>4, <4>1, MailArrives
      <4>3. LogTypeOK'
        BY <2>1, <3>1, <3>4, <4>2 DEF LogTypeOK
      <4>4. QED
        BY <3>1, <3>4, <4>2, <4>3 DEF LogInv, EventsAreApart
    <3>5. QED
      BY <3>1, <3>3, <3>4
  <2>4. CASE Handle
    BY <2>4, HandleKeepsLog
  <2>5. CASE Tick
    <3>1. /\ FlushBuffer(buffer) /\ mailbox' = mailbox /\ UNCHANGED <<logged, gone, shutdown>>
          /\ buffer \in Seq(Event) /\ mailbox \in Seq(Messages)
      BY <2>1, <2>5 DEF Tick, LogTypeOK
    <3>2. QED
      BY <2>1, <3>1, FlushKeepsLog
  <2>6. ASSUME NEW b \in flushing, BatchCommits(b) \/ BatchFails(b)
        PROVE  LogInv'
    <3>1. b \in Seq(Event) /\ logged \in Seq(Event)
      BY <2>1 DEF LogTypeOK
    <3>2. /\ Apart(mailbox, buffer, flushing \ {b}, logged \o b, gone)
          /\ logged \o b \in Seq(Event)
          /\ Apart(mailbox, buffer, flushing \ {b}, logged, gone \cup Elements(b))
      BY <2>1, <3>1, BatchIsDone
    <3>3. CASE BatchCommits(b)
      BY <2>1, <3>2, <3>3 DEF BatchCommits, LogInv, LogTypeOK, EventsAreApart
    <3>4. CASE BatchFails(b)
      <4>1. Elements(b) \subseteq Event
        BY <3>1 DEF Elements
      <4>2. QED
        BY <2>1, <3>2, <3>4, <4>1 DEF BatchFails, LogInv, LogTypeOK, EventsAreApart
    <3>5. QED
      BY <2>6, <3>3, <3>4
  <2>7. CASE ForceFlush
    <3>1. /\ mailbox' = Append(mailbox, "ForceFlush") /\ shutdown' = "flushed"
          /\ UNCHANGED <<buffer, flushing, logged, gone>>
      BY <2>7 DEF ForceFlush
    <3>2. mailbox \in Seq(Messages) /\ "ForceFlush" \in Messages
      BY <2>1 DEF LogTypeOK, Messages
    <3>3. mailbox' \in Seq(Messages) /\ Apart(mailbox', buffer, flushing, logged, gone)
      BY <2>1, <3>1, <3>2, MailArrives, ForceFlushIsNoEvent
    <3>4. QED
      BY <2>1, <3>1, <3>3 DEF LogInv, LogTypeOK, EventsAreApart
  <2>8. CASE Exit
    <3>1. /\ mailbox' = <<>> /\ buffer' = <<>> /\ flushing' = {} /\ logged' = logged
          /\ gone' = gone \cup ((Elements(mailbox) \ {"ForceFlush"}) \cup Elements(buffer)
                                    \cup InBatches(flushing))
          /\ shutdown' = "exited"
      BY <2>2, <2>8 DEF Exit
    <3>2. /\ Elements(mailbox) \ {"ForceFlush"} \subseteq Event
          /\ Elements(buffer) \cup InBatches(flushing) \cup Elements(logged) \subseteq Event
      <4>1. \A S : \A s \in Seq(S) : Elements(s) \subseteq S
        BY DEF Elements
      <4>2. QED
        BY <2>1, <4>1 DEF LogTypeOK, Messages, InBatches
    <3>3. LogTypeOK'
      BY <2>1, <3>1, <3>2 DEF LogTypeOK
    <3>4. Apart(<<>>, <<>>, {}, logged, gone')
      BY <2>1, <3>1, <3>2, NothingThere DEF Apart
    <3>5. QED
      BY <3>1, <3>3, <3>4 DEF LogInv, EventsAreApart
  <2>9. CASE UNCHANGED logVars
    BY <2>1, <2>9 DEF logVars, LogInv, LogTypeOK, EventsAreApart
  <2>10. QED
    BY <2>3, <2>4, <2>5, <2>6, <2>7, <2>8, <2>9 DEF LogNext
<1>2. QED
  BY <1>1, LogInitMeetsInv, PTL DEF LogSpec

\* No event is logged twice, or logged and given up, or logged and still on its way,
\* for any sizes of batches and mailbox, with flushes that overlap, fail or are cut
\* short by the exit.
THEOREM EventsAreLoggedOnce == LogSpec => []LoggedOnce
<1>1. LogInv => LoggedOnce
  <2> SUFFICES ASSUME LogInv PROVE LoggedOnce
    OBVIOUS
  <2>1. LogTypeOK /\ Apart(mailbox, buffer, flushing, logged, gone)
    BY DEF LogInv, EventsAreApart
  <2>2. Elements(logged) \subseteq Event
    BY <2>1 DEF LogTypeOK, Elements
  <2>3. InFlush = InBatches(flushing)
    BY DEF InFlush, InBatches
  <2>4. QED
    BY <2>1, <2>2, <2>3 DEF LoggedOnce, Apart, Distinct
<1>2. QED
  BY <1>1, LogInvariant, PTL

-------------------------------------------------------------------------------
(* The transactions of Rewards: what a transaction has read holds until it     *)
(* ends, as it has locked what it stands on.                                   *)

RewardTypes ==
    /\ inventory \in [UserId -> [Item -> Int]]
    /\ stock \in Int /\ uses \in Int
    /\ level \in [UserId -> Nat]
    /\ milestone \in [UserId -> Nat]
    /\ mail \in [UserId -> [1..MaxLevel -> MailState]]
    /\ tx = [r \in Request |-> tx[r]]
    /\ \A r \in Request : tx[r] # None => tx[r].user \in UserId

LocksAreExclusive == \A r, s \in Request :
    r # s /\ tx[r] # None /\ tx[s] # None => tx[r].locks \cap tx[s].locks = {}

Keyed == {"purchase", "invite", "quest", "level"}

\* An operation that has a key has locked it, and nobody has used it.
KeysAreFree ==
    /\ \A k \in op_keys : k[1] \in Keyed
    /\ \A r \in Request : tx[r] # None /\ tx[r].op \in Keyed =>
           Key(r) \in tx[r].locks /\ Key(r) \notin op_keys

PurchasesCanBePaid == \A r \in Request : TxIs(r, "purchase") =>
    /\ <<"shop">> \in tx[r].locks /\ stock > 0
    /\ <<"coin", tx[r].user>> \in tx[r].locks /\ inventory[tx[r].user]["coin"] >= PRICE

InvitesHaveUses == \A r \in Request : TxIs(r, "invite") =>
    <<"code">> \in tx[r].locks /\ uses < MAX_USES

LevelsAreNext == \A r \in Request : TxIs(r, "level") =>
    <<"mode", tx[r].user>> \in tx[r].locks /\ tx[r].arg = level[tx[r].user] + 1

ClaimsAreFirst == \A r \in Request : TxIs(r, "inbox_claim") =>
    /\ tx[r].arg \in 1..MaxLevel
    /\ <<"mail", tx[r].user, tx[r].arg>> \in tx[r].locks
    /\ mail[tx[r].user][tx[r].arg] = "unclaimed"

DeletesAreLast == \A r \in Request : TxIs(r, "delete") =>
    tx[r].arg \in 1..MaxLevel /\ mail[tx[r].user][tx[r].arg] \in {"claimed", "deleted"}

\* The level at which milestone n + 1 is reached, and the milestones a player has
\* reached: those whose reward was sent.
Threshold(n) == (MilestoneInit + n) * MilestoneGap
MilestonesDue == \A u \in UserId :
    /\ level[u] < Threshold(milestone[u])
    /\ milestone[u] > 0 => level[u] >= Threshold(milestone[u] - 1)
    /\ \A i \in 1..MaxLevel : mail[u][i] # "none" <=> i <= milestone[u]

\* An entry of the ledger has the key of an operation, or that of a reward that has
\* been claimed.
ClaimOf(u, i) == <<"inbox_claim", u, i>>
PaidOut == \A u \in UserId, i \in 1..MaxLevel :
    mail[u][i] \in {"claimed", "deleted"} <=> \E e \in ledger : e.key = ClaimOf(u, i)
EntriesHaveKeys == \A e \in ledger :
    \/ e.key \in op_keys
    \/ \E u \in UserId, i \in 1..MaxLevel : e.key = ClaimOf(u, i)

Limits ==
    /\ IsFiniteSet(op_keys)
    /\ LimitsHold

RewardsInv ==
    /\ RewardTypes /\ LocksAreExclusive /\ KeysAreFree
    /\ PurchasesCanBePaid /\ InvitesHaveUses /\ LevelsAreNext /\ ClaimsAreFirst
    /\ DeletesAreLast /\ MilestonesDue /\ PaidOut /\ EntriesHaveKeys /\ Limits

-------------------------------------------------------------------------------
(* Beginning and ending.                                                      *)

LEMMA Quantities ==
    /\ PRICE \in Nat /\ STOCK \in Nat /\ MAX_USES \in Nat /\ MilestoneInit \in Nat \ {0}
    /\ MilestoneGap \in Nat \ {0} /\ Coins \in Nat /\ MaxLevel \in Nat
  BY QuantitiesAreNumbers

dataVars == <<inventory, ledger, op_keys, stock, uses, level, milestone, mail>>

\* Transaction r has begun, and the others are as they were.
Started(r, op, u, arg, locks) ==
    /\ tx[r] = None
    /\ UNCHANGED dataVars
    /\ tx' = [q \in Request |-> tx'[q]]
    /\ \A q \in Request : q # r => tx'[q] = tx[q]
    /\ tx'[r].op = op /\ tx'[r].user = u /\ tx'[r].arg = arg /\ locks \subseteq tx'[r].locks
    /\ \A q \in Request : q # r /\ tx[q] # None => tx'[r].locks \cap tx[q].locks = {}

LEMMA BeginsMeansStarted ==
    ASSUME RewardTypes, NEW r \in Request, NEW op, NEW u, NEW arg, NEW event, NEW locks,
           Begins(r, op, u, arg, event, locks)
    PROVE  Started(r, op, u, arg, locks)
<1> DEFINE rows    == QuestRows(u, event)
           moves   == {q \in QuestsOf(event) : rows[q] # None}
           all     == locks \cup {<<"quest", u, q>> : q \in {p \in moves : quest_row[u][p] # None}}
           quests  == [q \in moves |-> rows[q]]
           lacking == {q \in moves : quest_row[u][q] = None}
           new     == [op |-> op, user |-> u, arg |-> arg, locks |-> all,
                      quests |-> quests, missing |-> lacking]
<1>0. all \cap Locked = {} /\ tx' = [tx EXCEPT ![r] = new]
  BY DEF Begins
<1>a. locks \subseteq all
  OBVIOUS
<1> HIDE DEF rows, moves, all, quests, lacking
<1>1. /\ tx' = [tx EXCEPT ![r] = new]
      /\ new.op = op /\ new.user = u /\ new.arg = arg /\ locks \subseteq new.locks
      /\ new.locks \cap Locked = {}
  BY <1>0, <1>a
<1> HIDE DEF new
<1>2. tx[r] = None /\ UNCHANGED dataVars
  BY DEF Begins, dataVars
<1>3. tx' = [q \in Request |-> IF q = r THEN new ELSE tx[q]]
  BY <1>1 DEF RewardTypes
<1>4. \A q \in Request : tx[q] # None => tx[q].locks \subseteq Locked
  BY DEF Locked
<1>5. QED
  BY <1>1, <1>2, <1>3, <1>4 DEF Started

Ended(r) ==
    /\ tx' = [q \in Request |-> tx'[q]]
    /\ tx'[r] = None
    /\ \A q \in Request : q # r => tx'[q] = tx[q]

LEMMA TxEndsMeansEnded ==
    ASSUME RewardTypes, NEW r \in Request, TxEnds(r)
    PROVE  Ended(r)
<1>1. tx' = [q \in Request |-> IF q = r THEN None ELSE tx[q]]
  BY DEF RewardTypes, TxEnds
<1>2. QED
  BY <1>1 DEF Ended

\* What an operation has found when it begins, and what it has locked.
MayBegin(op, u, arg, locks) ==
    \/ op = "purchase" /\ stock > 0 /\ inventory[u]["coin"] >= PRICE
         /\ {<<"shop">>, <<"coin", u>>, <<op, u, arg>>} \subseteq locks /\ <<op, u, arg>> \notin op_keys
    \/ op = "invite" /\ uses < MAX_USES
         /\ {<<"code">>, <<op, u, arg>>} \subseteq locks /\ <<op, u, arg>> \notin op_keys
    \/ op = "quest" /\ <<op, u, arg>> \in locks /\ <<op, u, arg>> \notin op_keys
    \/ op = "event"
    \/ op = "level" /\ arg = level[u] + 1
         /\ {<<"mode", u>>, <<op, u, arg>>} \subseteq locks /\ <<op, u, arg>> \notin op_keys
    \/ op = "inbox_claim" /\ arg \in 1..MaxLevel /\ <<"mail", u, arg>> \in locks
         /\ mail[u][arg] = "unclaimed"
    \/ op = "delete" /\ arg \in 1..MaxLevel /\ mail[u][arg] \in {"claimed", "deleted"}

LEMMA BeginKeepsRewards ==
    ASSUME RewardsInv, NEW r \in Request, NEW op, NEW u \in UserId, NEW arg, NEW locks,
           Started(r, op, u, arg, locks), MayBegin(op, u, arg, locks)
    PROVE  RewardsInv'
<1>1. /\ tx' = [q \in Request |-> tx'[q]]
      /\ \A q \in Request : q # r => tx'[q] = tx[q]
      /\ tx'[r].op = op /\ tx'[r].user = u /\ tx'[r].arg = arg /\ locks \subseteq tx'[r].locks
      /\ \A q \in Request : q # r /\ tx[q] # None => tx'[r].locks \cap tx[q].locks = {}
  BY DEF Started
<1>2. UNCHANGED <<inventory, ledger, op_keys, stock, uses, level, milestone, mail>>
  BY DEF Started, dataVars
<1>3. RewardTypes'
  BY <1>1, <1>2 DEF RewardsInv, RewardTypes
<1>4. LocksAreExclusive'
  BY <1>1 DEF RewardsInv, LocksAreExclusive
<1>5. KeysAreFree'
  <2>1. ASSUME NEW q \in Request, tx'[q] # None, tx'[q].op \in Keyed
        PROVE  Key(q)' \in tx'[q].locks /\ Key(q)' \notin op_keys'
    <3>1. CASE q = r
      BY <1>1, <1>2, <2>1, <3>1 DEF MayBegin, Keyed, Key
    <3>2. CASE q # r
      BY <1>1, <1>2, <2>1, <3>2 DEF RewardsInv, KeysAreFree, Key
    <3>3. QED
      BY <3>1, <3>2
  <2>2. QED
    BY <1>2, <2>1 DEF RewardsInv, KeysAreFree
<1>6. PurchasesCanBePaid'
  <2>1. ASSUME NEW q \in Request, TxIs(q, "purchase")'
        PROVE  /\ <<"shop">> \in tx'[q].locks /\ stock' > 0
               /\ <<"coin", tx'[q].user>> \in tx'[q].locks
               /\ inventory'[tx'[q].user]["coin"] >= PRICE
    <3>1. CASE q = r
      BY <1>1, <1>2, <2>1, <3>1 DEF MayBegin, TxIs
    <3>2. CASE q # r
      BY <1>1, <1>2, <2>1, <3>2 DEF RewardsInv, PurchasesCanBePaid, TxIs
    <3>3. QED
      BY <3>1, <3>2
  <2>2. QED
    BY <2>1 DEF PurchasesCanBePaid
<1>7. InvitesHaveUses'
  BY <1>1, <1>2 DEF RewardsInv, InvitesHaveUses, TxIs, MayBegin
<1>8. LevelsAreNext'
  BY <1>1, <1>2 DEF RewardsInv, LevelsAreNext, TxIs, MayBegin
<1>9. ClaimsAreFirst'
  BY <1>1, <1>2 DEF RewardsInv, ClaimsAreFirst, TxIs, MayBegin
<1>10. DeletesAreLast'
  BY <1>1, <1>2 DEF RewardsInv, DeletesAreLast, TxIs, MayBegin
<1>11. MilestonesDue' /\ PaidOut' /\ EntriesHaveKeys' /\ Limits'
  BY <1>2 DEF RewardsInv, MilestonesDue, PaidOut, EntriesHaveKeys, Limits, LimitsHold
<1>12. QED
  BY <1>3, <1>4, <1>5, <1>6, <1>7, <1>8, <1>9, <1>10, <1>11 DEF RewardsInv

\* What the other transactions have found does not change when one ends that leaves
\* what they have locked.
LEMMA EndKeepsLocks ==
    ASSUME RewardsInv, NEW r \in Request, Ended(r)
    PROVE  /\ LocksAreExclusive' /\ tx' = [q \in Request |-> tx'[q]]
           /\ \A q \in Request : tx'[q] # None =>
                tx[q] # None /\ q # r /\ tx'[q] = tx[q] /\ tx[q].user \in UserId
           /\ \A op : \A q \in Request : TxIs(q, op)' =>
                TxIs(q, op) /\ q # r /\ tx'[q] = tx[q] /\ tx[q].user \in UserId
<1>1. \A q \in Request : tx'[q] # None =>
          tx[q] # None /\ q # r /\ tx'[q] = tx[q] /\ tx[q].user \in UserId
  BY DEF Ended, RewardsInv, RewardTypes
<1>2. LocksAreExclusive'
  BY <1>1 DEF RewardsInv, LocksAreExclusive
<1>3. \A op : \A q \in Request : TxIs(q, op)' =>
          TxIs(q, op) /\ q # r /\ tx'[q] = tx[q] /\ tx[q].user \in UserId
  BY <1>1 DEF TxIs
<1>4. QED
  BY <1>1, <1>2, <1>3 DEF Ended

\* Rollback, and the commit of an event: nothing but quests may change.
LEMMA EndKeepsRewards ==
    ASSUME RewardsInv, NEW r \in Request, Ended(r), UNCHANGED dataVars
    PROVE  RewardsInv'
<1>1. UNCHANGED <<inventory, ledger, op_keys, stock, uses, level, milestone, mail>>
  BY DEF dataVars
<1>2. /\ LocksAreExclusive' /\ tx' = [q \in Request |-> tx'[q]]
      /\ \A q \in Request : tx'[q] # None =>
           tx[q] # None /\ q # r /\ tx'[q] = tx[q] /\ tx[q].user \in UserId
  BY EndKeepsLocks
<1>3. RewardTypes'
  BY <1>1, <1>2 DEF RewardsInv, RewardTypes
<1>4. KeysAreFree'
  BY <1>1, <1>2 DEF RewardsInv, KeysAreFree, Key
<1>5. PurchasesCanBePaid' /\ InvitesHaveUses' /\ LevelsAreNext'
  BY <1>1, <1>2 DEF RewardsInv, PurchasesCanBePaid, InvitesHaveUses, LevelsAreNext, TxIs
<1>6. ClaimsAreFirst' /\ DeletesAreLast'
  BY <1>1, <1>2 DEF RewardsInv, ClaimsAreFirst, DeletesAreLast, TxIs
<1>7. MilestonesDue' /\ PaidOut' /\ EntriesHaveKeys' /\ Limits'
  BY <1>1 DEF RewardsInv, MilestonesDue, PaidOut, EntriesHaveKeys, Limits, LimitsHold
<1>8. QED
  BY <1>2, <1>3, <1>4, <1>5, <1>6, <1>7 DEF RewardsInv

-------------------------------------------------------------------------------
(* What a commit changes is what its transaction has locked, or what nobody    *)
(* stands on.                                                                 *)

ChangesOwn(r) ==
    /\ stock' = stock \/ <<"shop">> \in tx[r].locks
    /\ uses' = uses \/ <<"code">> \in tx[r].locks
    /\ op_keys' = op_keys \/ (tx[r].op \in Keyed /\ op_keys' = op_keys \cup {Key(r)})
    /\ \A u \in UserId :
         /\ inventory'[u]["coin"] >= inventory[u]["coin"] \/ <<"coin", u>> \in tx[r].locks
         /\ level'[u] = level[u] \/ <<"mode", u>> \in tx[r].locks
         /\ \A i \in 1..MaxLevel : mail'[u][i] # mail[u][i] =>
              \/ mail[u][i] = "none"
              \/ mail[u][i] = "unclaimed" /\ <<"mail", u, i>> \in tx[r].locks
              \/ mail[u][i] \in {"claimed", "deleted"} /\ mail'[u][i] = "deleted"

\* What the transactions under way have found, and their keys and locks.
ReadsHold ==
    /\ tx = [r \in Request |-> tx[r]]
    /\ \A r \in Request : tx[r] # None => tx[r].user \in UserId
    /\ LocksAreExclusive /\ KeysAreFree
    /\ PurchasesCanBePaid /\ InvitesHaveUses /\ LevelsAreNext /\ ClaimsAreFirst
    /\ DeletesAreLast

LEMMA CommitKeepsReads ==
    ASSUME RewardsInv, NEW r \in Request, tx[r] # None, Ended(r), ChangesOwn(r),
           inventory' \in [UserId -> [Item -> Int]]
    PROVE  ReadsHold'
<1>1. /\ LocksAreExclusive' /\ tx' = [q \in Request |-> tx'[q]]
      /\ \A q \in Request : tx'[q] # None =>
           tx[q] # None /\ q # r /\ tx'[q] = tx[q] /\ tx[q].user \in UserId
      /\ \A op : \A q \in Request : TxIs(q, op)' =>
           TxIs(q, op) /\ q # r /\ tx'[q] = tx[q] /\ tx[q].user \in UserId
  BY EndKeepsLocks
<1>2. ASSUME NEW q \in Request, tx'[q] # None, NEW row, row \in tx[q].locks
      PROVE  row \notin tx[r].locks
  BY <1>1, <1>2 DEF RewardsInv, LocksAreExclusive
<1>3. KeysAreFree'
  <2>1. \A k \in op_keys' : k[1] \in Keyed
    BY DEF RewardsInv, KeysAreFree, ChangesOwn, Key
  <2>2. ASSUME NEW q \in Request, tx'[q] # None, tx'[q].op \in Keyed
        PROVE  Key(q)' \in tx'[q].locks /\ Key(q)' \notin op_keys'
    <3>1. Key(q)' = Key(q) /\ Key(q) \in tx[q].locks /\ Key(q) \notin op_keys
      BY <1>1, <2>2 DEF RewardsInv, KeysAreFree, Key
    <3>2. CASE op_keys' = op_keys
      BY <1>1, <2>2, <3>1, <3>2
    <3>3. CASE tx[r].op \in Keyed /\ op_keys' = op_keys \cup {Key(r)}
      <4>1. Key(r) \in tx[r].locks
        BY <3>3 DEF RewardsInv, KeysAreFree
      <4>2. Key(q) # Key(r)
        BY <1>2, <2>2, <3>1, <4>1
      <4>3. QED
        BY <1>1, <2>2, <3>1, <3>3, <4>2
    <3>4. QED
      BY <3>2, <3>3 DEF ChangesOwn
  <2>3. QED
    BY <2>1, <2>2 DEF KeysAreFree
<1>4. PurchasesCanBePaid'
  <2>1. ASSUME NEW q \in Request, TxIs(q, "purchase")'
        PROVE  /\ <<"shop">> \in tx'[q].locks /\ stock' > 0
               /\ <<"coin", tx'[q].user>> \in tx'[q].locks
               /\ inventory'[tx'[q].user]["coin"] >= PRICE
    <3>1. /\ tx'[q] = tx[q] /\ tx[q].user \in UserId /\ tx'[q] # None
          /\ <<"shop">> \in tx[q].locks /\ stock > 0
          /\ <<"coin", tx[q].user>> \in tx[q].locks
          /\ inventory[tx[q].user]["coin"] >= PRICE
      BY <1>1, <2>1 DEF RewardsInv, PurchasesCanBePaid, TxIs
    <3>2. stock' = stock /\ inventory'[tx[q].user]["coin"] >= inventory[tx[q].user]["coin"]
      BY <1>2, <3>1 DEF ChangesOwn
    <3>3. /\ inventory[tx[q].user]["coin"] \in Int /\ inventory'[tx[q].user]["coin"] \in Int
          /\ PRICE \in Int
      BY <3>1, Quantities DEF RewardsInv, RewardTypes, Item
    <3>4. QED
      BY <3>1, <3>2, <3>3
  <2>2. QED
    BY <2>1 DEF PurchasesCanBePaid
<1>5. InvitesHaveUses'
  <2>1. ASSUME NEW q \in Request, TxIs(q, "invite")'
        PROVE  <<"code">> \in tx'[q].locks /\ uses' < MAX_USES
    <3>1. tx'[q] = tx[q] /\ tx'[q] # None /\ <<"code">> \in tx[q].locks /\ uses < MAX_USES
      BY <1>1, <2>1 DEF RewardsInv, InvitesHaveUses, TxIs
    <3>2. QED
      BY <1>2, <3>1 DEF ChangesOwn
  <2>2. QED
    BY <2>1 DEF InvitesHaveUses
<1>6. LevelsAreNext'
  <2>1. ASSUME NEW q \in Request, TxIs(q, "level")'
        PROVE  <<"mode", tx'[q].user>> \in tx'[q].locks /\ tx'[q].arg = level'[tx'[q].user] + 1
    <3>1. /\ tx'[q] = tx[q] /\ tx[q].user \in UserId /\ tx'[q] # None
          /\ <<"mode", tx[q].user>> \in tx[q].locks /\ tx[q].arg = level[tx[q].user] + 1
      BY <1>1, <2>1 DEF RewardsInv, LevelsAreNext, TxIs
    <3>2. level'[tx[q].user] = level[tx[q].user]
      BY <1>2, <3>1 DEF ChangesOwn
    <3>3. QED
      BY <3>1, <3>2
  <2>2. QED
    BY <2>1 DEF LevelsAreNext
<1>7. ClaimsAreFirst'
  <2>1. ASSUME NEW q \in Request, TxIs(q, "inbox_claim")'
        PROVE  /\ tx'[q].arg \in 1..MaxLevel
               /\ <<"mail", tx'[q].user, tx'[q].arg>> \in tx'[q].locks
               /\ mail'[tx'[q].user][tx'[q].arg] = "unclaimed"
    <3>1. /\ tx'[q] = tx[q] /\ tx[q].user \in UserId /\ tx'[q] # None
          /\ tx[q].arg \in 1..MaxLevel
          /\ <<"mail", tx[q].user, tx[q].arg>> \in tx[q].locks
          /\ mail[tx[q].user][tx[q].arg] = "unclaimed"
      BY <1>1, <2>1 DEF RewardsInv, ClaimsAreFirst, TxIs
    <3>2. <<"mail", tx[q].user, tx[q].arg>> \notin tx[r].locks
      BY <1>2, <3>1
    <3>3. mail'[tx[q].user][tx[q].arg] = mail[tx[q].user][tx[q].arg]
      BY <3>1, <3>2 DEF ChangesOwn
    <3>4. QED
      BY <3>1, <3>3
  <2>2. QED
    BY <2>1 DEF ClaimsAreFirst
<1>8. DeletesAreLast'
  <2>1. ASSUME NEW q \in Request, TxIs(q, "delete")'
        PROVE  /\ tx'[q].arg \in 1..MaxLevel
               /\ mail'[tx'[q].user][tx'[q].arg] \in {"claimed", "deleted"}
    <3>1. /\ tx'[q] = tx[q] /\ tx[q].user \in UserId /\ tx[q].arg \in 1..MaxLevel
          /\ mail[tx[q].user][tx[q].arg] \in {"claimed", "deleted"}
      BY <1>1, <2>1 DEF RewardsInv, DeletesAreLast
    <3>2. mail'[tx[q].user][tx[q].arg] \in {"claimed", "deleted"}
      BY <3>1 DEF ChangesOwn
    <3>3. QED
      BY <3>1, <3>2
  <2>2. QED
    BY <2>1 DEF DeletesAreLast
<1>9. \A q \in Request : tx'[q] # None => tx'[q].user \in UserId
  BY <1>1
<1>10. QED
  BY <1>1, <1>3, <1>4, <1>5, <1>6, <1>7, <1>8, <1>9 DEF ReadsHold

\* One more key, in its kind.
LEMMA KeyIsCounted ==
    ASSUME IsFiniteSet(op_keys), NEW k, k \notin op_keys, NEW c
    PROVE  /\ IsFiniteSet(op_keys \cup {k})
           /\ Cardinality({x \in op_keys : x[1] = c}) \in Nat
           /\ Cardinality({x \in op_keys \cup {k} : x[1] = c})
                = IF k[1] = c THEN Cardinality({x \in op_keys : x[1] = c}) + 1
                              ELSE Cardinality({x \in op_keys : x[1] = c})
<1> DEFINE S == {x \in op_keys : x[1] = c}
<1>1. IsFiniteSet(S) /\ k \notin S
  BY FS_Subset, S \subseteq op_keys
<1>2. Cardinality(S) \in Nat /\ Cardinality(S \cup {k}) = Cardinality(S) + 1
  BY <1>1, FS_AddElement, FS_CardinalityType
<1>3. {x \in op_keys \cup {k} : x[1] = c} = IF k[1] = c THEN S \cup {k} ELSE S
  OBVIOUS
<1>4. IsFiniteSet(op_keys \cup {k})
  BY FS_AddElement
<1> HIDE DEF S
<1>5. Cardinality({x \in op_keys \cup {k} : x[1] = c})
        = IF k[1] = c THEN Cardinality(S) + 1 ELSE Cardinality(S)
  BY <1>2, <1>3
<1>6. QED
  BY <1>2, <1>4, <1>5 DEF S

-------------------------------------------------------------------------------
(* The commits, one by one.                                                   *)

LEMMA ReadsAreKept ==
    ASSUME RewardTypes', ReadsHold', MilestonesDue', PaidOut', EntriesHaveKeys', Limits'
    PROVE  RewardsInv'
  BY DEF RewardsInv, ReadsHold

\* What n coins and m tickets more make of the inventory.
Moved(inv, u, n, m) ==
    /\ inv \in [UserId -> [Item -> Int]]
    /\ inv[u]["coin"] = inventory[u]["coin"] + n
    /\ inv[u]["ticket"] = inventory[u]["ticket"] + m
    /\ \A v \in UserId : v # u => inv[v] = inventory[v]
    /\ \A v \in UserId, i \in Item : inventory[v][i] \in Int

LEMMA DepositMoves ==
    ASSUME RewardTypes, NEW u \in UserId, NEW n \in Int, NEW key, Deposit(u, "coin", n, key)
    PROVE  Moved(inventory', u, n, 0)
  BY DEF RewardTypes, Item, Moved, Deposit

LEMMA ATicketIsBought ==
    ASSUME RewardTypes, NEW u \in UserId,
           inventory' = [inventory EXCEPT ![u]["coin"] = @ - PRICE, ![u]["ticket"] = @ + 1]
    PROVE  Moved(inventory', u, -PRICE, 1)
<1>1. /\ inventory'[u] = [inventory[u] EXCEPT !["coin"] = @ - PRICE, !["ticket"] = @ + 1]
      /\ \A v \in UserId : v # u => inventory'[v] = inventory[v]
      /\ inventory' = [v \in UserId |-> inventory'[v]]
  BY DEF RewardTypes
<1>2. \A v \in UserId : inventory[v] \in [Item -> Int]
  BY DEF RewardTypes
<1>3. /\ inventory'[u] \in [Item -> Int]
      /\ inventory'[u]["coin"] = inventory[u]["coin"] + (-PRICE)
      /\ inventory'[u]["ticket"] = inventory[u]["ticket"] + 1
  BY <1>1, <1>2, Quantities DEF Item
<1>4. inventory' \in [UserId -> [Item -> Int]]
  BY <1>1, <1>2, <1>3
<1>5. \A v \in UserId, i \in Item : inventory[v][i] \in Int
  BY <1>2
<1>6. /\ inventory'[u]["coin"] = inventory[u]["coin"] + (-PRICE)
      /\ inventory'[u]["ticket"] = inventory[u]["ticket"] + 1
      /\ \A v \in UserId : v # u => inventory'[v] = inventory[v]
  BY <1>1, <1>3
<1>7. QED
  BY  <1>4, <1>5, <1>6 DEF Moved

\* One more operation, of a kind that is counted or of another.
LEMMA OneMoreKey ==
    ASSUME Limits, NEW k, k \notin op_keys, op_keys' = op_keys \cup {k},
           stock' = IF k[1] = "purchase" THEN stock - 1 ELSE stock,
           uses' = IF k[1] = "invite" THEN uses + 1 ELSE uses,
           stock \in Int, uses \in Int,
           k[1] = "purchase" => stock > 0,
           k[1] = "invite" => uses < MAX_USES
    PROVE  Limits'
<1> DEFINE Of(keys, c) == Cardinality({x \in keys : x[1] = c})
<1>1. \A c : /\ IsFiniteSet(op_keys') /\ Of(op_keys, c) \in Nat
             /\ Of(op_keys', c) = IF k[1] = c THEN Of(op_keys, c) + 1 ELSE Of(op_keys, c)
  BY KeyIsCounted DEF Limits
<1>2. /\ stock >= 0 /\ STOCK - stock = Of(op_keys, "purchase")
      /\ uses <= MAX_USES /\ uses = Of(op_keys, "invite")
  BY DEF Limits, LimitsHold
<1> HIDE DEF Of
<1>3. /\ stock' >= 0 /\ STOCK - stock' = Of(op_keys', "purchase")
      /\ uses' <= MAX_USES /\ uses' = Of(op_keys', "invite")
  <2>1. STOCK - stock' = Of(op_keys', "purchase") /\ stock' >= 0
    BY <1>1, <1>2, Quantities
  <2>2. uses' <= MAX_USES /\ uses' = Of(op_keys', "invite")
    BY <1>1, <1>2, Quantities
  <2>3. QED
    BY <2>1, <2>2
<1>4. QED
  BY <1>1, <1>3 DEF Limits, LimitsHold, Of

\* A new entry whose key is none of a reward's.
LEMMA OneMoreEntry ==
    ASSUME PaidOut, EntriesHaveKeys, NEW k, \A u \in UserId, i \in 1..MaxLevel : k # ClaimOf(u, i),
           ledger \subseteq ledger', \A e \in ledger' : e \in ledger \/ e.key = k,
           op_keys' = op_keys \cup {k}, mail' = mail
    PROVE  PaidOut' /\ EntriesHaveKeys'
<1>1. PaidOut'
  BY DEF PaidOut, ClaimOf
<1>2. EntriesHaveKeys'
  BY DEF EntriesHaveKeys
<1>3. QED
  BY <1>1, <1>2

LEMMA CommitPurchaseKeepsRewards ==
    ASSUME RewardsInv, NEW r \in Request, CommitPurchase(r)
    PROVE  RewardsInv'
<1> DEFINE u == tx[r].user
<1>1. tx[r] # None /\ tx[r].op = "purchase" /\ u \in UserId
  BY DEF CommitPurchase, TxIs, RewardsInv, RewardTypes
<1>2. /\ op_keys' = op_keys \cup {Key(r)} /\ stock' = stock - 1
      /\ UNCHANGED <<uses, level, milestone, mail>>
  BY DEF CommitPurchase
<1>3. ledger \subseteq ledger' /\ \A e \in ledger' : e \in ledger \/ e.key = Key(r)
  BY DEF CommitPurchase
<1>4. Ended(r)
  BY TxEndsMeansEnded DEF CommitPurchase, RewardsInv
<1>5. /\ Key(r) \in tx[r].locks /\ Key(r) \notin op_keys /\ Key(r)[1] = "purchase"
      /\ <<"shop">> \in tx[r].locks /\ stock > 0 /\ <<"coin", u>> \in tx[r].locks
  BY <1>1 DEF RewardsInv, KeysAreFree, PurchasesCanBePaid, TxIs, Keyed, Key
<1>6. Moved(inventory', u, -PRICE, 1)
  BY <1>1, ATicketIsBought DEF CommitPurchase, RewardsInv
<1>7. ReadsHold'
  <2>1. ChangesOwn(r)
    <3>1. ASSUME NEW v \in UserId
          PROVE  inventory'[v]["coin"] >= inventory[v]["coin"] \/ <<"coin", v>> \in tx[r].locks
      BY <1>5, <1>6 DEF Moved, Item
    <3>2. QED
      BY <1>1, <1>2, <1>5, <3>1 DEF ChangesOwn, Keyed
  <2>2. QED
    BY <1>1, <1>4, <1>6, <2>1, CommitKeepsReads DEF Moved
<1>8. RewardTypes'
  BY <1>2, <1>6, <1>7 DEF RewardsInv, RewardTypes, ReadsHold, Moved
<1>9. MilestonesDue'
  BY <1>2 DEF RewardsInv, MilestonesDue
<1>10. PaidOut' /\ EntriesHaveKeys'
  <2>1. \A v \in UserId, i \in 1..MaxLevel : Key(r) # ClaimOf(v, i)
    BY <1>5 DEF ClaimOf
  <2>2. QED
    BY <1>2, <1>3, <2>1, OneMoreEntry DEF RewardsInv
<1>11. Limits'
  BY <1>2, <1>5, OneMoreKey DEF RewardsInv, RewardTypes
<1>12. QED
  BY <1>7, <1>8, <1>9, <1>10, <1>11, ReadsAreKept

\* A deposit with the key of the operation, as of an invite or of a quest.
LEMMA DepositKeepsRewards ==
    ASSUME RewardsInv, NEW r \in Request, tx[r] # None, tx[r].op \in {"invite", "quest"},
           Ended(r), Deposit(tx[r].user, "coin", 1, Key(r)), op_keys' = op_keys \cup {Key(r)},
           UNCHANGED <<stock, level, milestone, mail>>,
           uses' = IF tx[r].op = "invite" THEN uses + 1 ELSE uses
    PROVE  RewardsInv'
<1> DEFINE u == tx[r].user
<1>1. u \in UserId
  BY DEF RewardsInv, RewardTypes
<1>2. ledger \subseteq ledger' /\ \A e \in ledger' : e \in ledger \/ e.key = Key(r)
  BY DEF Deposit
<1>3. /\ Key(r) \in tx[r].locks /\ Key(r) \notin op_keys /\ Key(r)[1] = tx[r].op
      /\ tx[r].op = "invite" => <<"code">> \in tx[r].locks /\ uses < MAX_USES
  BY DEF RewardsInv, KeysAreFree, InvitesHaveUses, TxIs, Keyed, Key
<1>4. Moved(inventory', u, 1, 0)
  BY <1>1, DepositMoves DEF RewardsInv
<1>5. ReadsHold'
  <2>1. \A v \in UserId : inventory'[v]["coin"] >= inventory[v]["coin"]
    BY <1>4 DEF Moved, Item
  <2>2. ChangesOwn(r)
    BY <1>3, <2>1 DEF ChangesOwn, Keyed
  <2>3. QED
    BY <1>4, <2>2, CommitKeepsReads DEF Moved
<1>6. RewardTypes'
  BY <1>4, <1>5 DEF RewardsInv, RewardTypes, ReadsHold, Moved
<1>7. MilestonesDue'
  BY DEF RewardsInv, MilestonesDue
<1>8. PaidOut' /\ EntriesHaveKeys'
  <2>1. \A v \in UserId, i \in 1..MaxLevel : Key(r) # ClaimOf(v, i)
    BY <1>3 DEF ClaimOf
  <2>2. QED
    BY <1>2, <2>1, OneMoreEntry DEF RewardsInv
<1>9. Limits'
  <2>1. /\ stock' = IF Key(r)[1] = "purchase" THEN stock - 1 ELSE stock
        /\ uses' = IF Key(r)[1] = "invite" THEN uses + 1 ELSE uses
        /\ Key(r)[1] # "purchase"
    BY <1>3
  <2>2. QED
    BY <1>3, <2>1, OneMoreKey DEF RewardsInv, RewardTypes
<1>10. QED
  BY <1>5, <1>6, <1>7, <1>8, <1>9, ReadsAreKept

\* The reward of a message is paid out.
LEMMA CommitInboxKeepsRewards ==
    ASSUME RewardsInv, NEW r \in Request, CommitInbox(r)
    PROVE  RewardsInv'
<1> DEFINE u == tx[r].user
           i == tx[r].arg
<1>1. /\ tx[r] # None /\ tx[r].op = "inbox_claim" /\ u \in UserId /\ i \in 1..MaxLevel
      /\ <<"mail", u, i>> \in tx[r].locks /\ mail[u][i] = "unclaimed" /\ Key(r) = ClaimOf(u, i)
  BY DEF CommitInbox, TxIs, RewardsInv, RewardTypes, ClaimsAreFirst, Key, ClaimOf
<1>2. /\ mail' = [mail EXCEPT ![u][i] = "claimed"]
      /\ UNCHANGED <<op_keys, stock, uses, level, milestone>>
  BY DEF CommitInbox
<1>a. /\ ledger \subseteq ledger' /\ \A e \in ledger' : e \in ledger \/ e.key = ClaimOf(u, i)
      /\ \E e \in ledger' : e.key = ClaimOf(u, i)
  <2> DEFINE entry == [user |-> u, item |-> "coin", delta |-> i, key |-> ClaimOf(u, i)]
  <2>1. ledger' = ledger \cup {entry}
    BY <1>1 DEF CommitInbox, Deposit
  <2>2. entry.key = ClaimOf(u, i)
    OBVIOUS
  <2> HIDE DEF entry
  <2>3. QED
    BY <2>1, <2>2
<1>3. Ended(r)
  BY TxEndsMeansEnded DEF CommitInbox, RewardsInv
<1>4. Moved(inventory', u, i, 0) /\ i \in Nat
  <2>1. Deposit(u, "coin", i, Key(r))
    BY DEF CommitInbox
  <2>2. i \in Nat
    BY <1>1, Quantities
  <2>3. QED
    BY <1>1, <2>1, <2>2, DepositMoves DEF RewardsInv
<1>5. /\ mail'[u][i] = "claimed" /\ mail' \in [UserId -> [1..MaxLevel -> MailState]]
      /\ \A v \in UserId, j \in 1..MaxLevel : <<v, j>> # <<u, i>> => mail'[v][j] = mail[v][j]
  BY <1>1, <1>2 DEF RewardsInv, RewardTypes, MailState
<1>6. ReadsHold'
  <2>1. \A v \in UserId : inventory'[v]["coin"] >= inventory[v]["coin"]
    BY <1>4 DEF Moved, Item
  <2>2. ASSUME NEW v \in UserId, NEW j \in 1..MaxLevel, mail'[v][j] # mail[v][j]
        PROVE  mail[v][j] = "unclaimed" /\ <<"mail", v, j>> \in tx[r].locks
    <3>1. v = u /\ j = i
      BY <1>5, <2>2
    <3>2. QED
      BY <1>1, <3>1
  <2>3. ChangesOwn(r)
    BY <1>2, <2>1, <2>2 DEF ChangesOwn
  <2>4. QED
    BY <1>1, <1>3, <1>4, <2>3, CommitKeepsReads DEF Moved
<1>7. RewardTypes'
  BY <1>2, <1>4, <1>5, <1>6 DEF RewardsInv, RewardTypes, ReadsHold, Moved
<1>8. MilestonesDue'
  <2>1. ASSUME NEW v \in UserId, NEW j \in 1..MaxLevel
        PROVE  mail'[v][j] # "none" <=> j <= milestone[v]
    <3>1. mail[v][j] # "none" <=> j <= milestone[v]
      BY DEF RewardsInv, MilestonesDue
    <3>2. CASE v = u /\ j = i
      BY <1>1, <1>5, <3>1, <3>2
    <3>3. CASE ~(v = u /\ j = i)
      BY <1>5, <3>1, <3>3
    <3>4. QED
      BY <3>2, <3>3
  <2>2. QED
    BY <1>2, <2>1 DEF RewardsInv, MilestonesDue
<1>9. PaidOut' /\ EntriesHaveKeys'
  <2>1. \A e \in ledger' : e \in ledger \/ e.key = ClaimOf(u, i)
    BY <1>a
  <2>2. ledger \subseteq ledger' /\ \E e \in ledger' : e.key = ClaimOf(u, i)
    BY <1>a
  <2>3. PaidOut'
    <3>1. ASSUME NEW v \in UserId, NEW j \in 1..MaxLevel
          PROVE  mail'[v][j] \in {"claimed", "deleted"}
                   <=> \E e \in ledger' : e.key = ClaimOf(v, j)
      <4>1. CASE v = u /\ j = i
        BY <1>5, <2>2, <4>1
      <4>2. CASE ~(v = u /\ j = i)
        <5>1. ClaimOf(v, j) # ClaimOf(u, i)
          BY <4>2 DEF ClaimOf
        <5>2. mail'[v][j] = mail[v][j]
          BY <1>5, <4>2
        <5>3. mail[v][j] \in {"claimed", "deleted"}
                <=> \E e \in ledger : e.key = ClaimOf(v, j)
          BY DEF RewardsInv, PaidOut
        <5>4. QED
          BY <2>1, <2>2, <5>1, <5>2, <5>3
      <4>3. QED
        BY <4>1, <4>2
    <3>2. QED
      BY <3>1 DEF PaidOut, ClaimOf
  <2>4. EntriesHaveKeys'
    BY <1>1, <1>2, <2>1 DEF RewardsInv, EntriesHaveKeys
  <2>5. QED
    BY <2>3, <2>4
<1>10. Limits'
  BY <1>2 DEF RewardsInv, Limits, LimitsHold
<1>11. QED
  BY <1>6, <1>7, <1>8, <1>9, <1>10, ReadsAreKept

\* A message is deleted whose reward has been paid out.
LEMMA DeleteRunsKeepsRewards ==
    ASSUME RewardsInv, NEW r \in Request, DeleteRuns(r)
    PROVE  RewardsInv'
<1> DEFINE u == tx[r].user
           i == tx[r].arg
<1>1. /\ tx[r] # None /\ u \in UserId /\ i \in 1..MaxLevel
      /\ mail[u][i] \in {"claimed", "deleted"}
  BY DEF DeleteRuns, TxIs, RewardsInv, RewardTypes, DeletesAreLast
<1>2. /\ mail' = [mail EXCEPT ![u][i] = "deleted"]
      /\ UNCHANGED <<inventory, ledger, op_keys, stock, uses, level, milestone>>
  BY DEF DeleteRuns
<1>3. Ended(r)
  BY TxEndsMeansEnded DEF DeleteRuns, RewardsInv
<1>4. /\ mail'[u][i] = "deleted" /\ mail' \in [UserId -> [1..MaxLevel -> MailState]]
      /\ \A v \in UserId, j \in 1..MaxLevel : <<v, j>> # <<u, i>> => mail'[v][j] = mail[v][j]
  BY <1>1, <1>2 DEF RewardsInv, RewardTypes, MailState
<1>5. \A v \in UserId, j \in 1..MaxLevel :
        /\ mail'[v][j] # "none" <=> mail[v][j] # "none"
        /\ mail'[v][j] \in {"claimed", "deleted"} <=> mail[v][j] \in {"claimed", "deleted"}
        /\ mail'[v][j] # mail[v][j] =>
             mail[v][j] \in {"claimed", "deleted"} /\ mail'[v][j] = "deleted"
  <2>1. ASSUME NEW v \in UserId, NEW j \in 1..MaxLevel, <<v, j>> = <<u, i>>
        PROVE  v = u /\ j = i
    BY <2>1
  <2>2. QED
    BY <1>1, <1>4, <2>1
<1>6. ReadsHold'
  <2>1. \A v \in UserId : inventory[v]["coin"] \in Int
    BY DEF RewardsInv, RewardTypes, Item
  <2>2. ChangesOwn(r)
    BY <1>2, <1>5, <2>1 DEF ChangesOwn
  <2>3. QED
    BY <1>1, <1>2, <1>3, <2>2, CommitKeepsReads DEF RewardsInv, RewardTypes
<1>7. RewardTypes'
  BY <1>2, <1>4, <1>6 DEF RewardsInv, RewardTypes, ReadsHold
<1>8. MilestonesDue' /\ PaidOut'
  BY <1>2, <1>5 DEF RewardsInv, MilestonesDue, PaidOut
<1>9. EntriesHaveKeys' /\ Limits'
  BY <1>2 DEF RewardsInv, EntriesHaveKeys, Limits, LimitsHold
<1>10. QED
  BY <1>6, <1>7, <1>8, <1>9, ReadsAreKept

LEMMA ThresholdsGrow ==
    /\ \A n \in Nat : Threshold(n) \in Nat /\ Threshold(n + 1) = Threshold(n) + MilestoneGap
    /\ \A m, n \in Nat : m <= n => Threshold(m) <= Threshold(n)
<1>1. \A a \in Nat : a * MilestoneGap \in Nat /\ (a + 1) * MilestoneGap = a * MilestoneGap + MilestoneGap
  BY Quantities
<1>2. \A a, b \in Nat : a <= b => a * MilestoneGap <= b * MilestoneGap
  BY Quantities
<1>3. ASSUME NEW n \in Nat
      PROVE  Threshold(n) \in Nat /\ Threshold(n + 1) = Threshold(n) + MilestoneGap
  <2>1. MilestoneInit + n \in Nat /\ MilestoneInit + (n + 1) = (MilestoneInit + n) + 1
    BY Quantities
  <2>2. QED
    BY <1>1, <2>1 DEF Threshold
<1>4. ASSUME NEW m \in Nat, NEW n \in Nat, m <= n
      PROVE  Threshold(m) <= Threshold(n)
  <2>1. MilestoneInit + m \in Nat /\ MilestoneInit + n \in Nat
        /\ MilestoneInit + m <= MilestoneInit + n
    BY <1>4, Quantities
  <2>2. QED
    BY <1>2, <2>1 DEF Threshold
<1>5. QED
  BY <1>3, <1>4

\* The next level reaches at most one milestone more, and all that it reaches.
LEMMA OneMilestoneAtMost ==
    ASSUME RewardTypes, MilestonesDue, NEW u \in UserId, NEW l, l = level[u] + 1
    PROVE  LET n == MilestoneAfter(u, l)
           IN  /\ n \in {milestone[u], milestone[u] + 1}
               /\ l < Threshold(n)
               /\ n > 0 => l >= Threshold(n - 1)
<1> DEFINE m == milestone[u]
           P(n) == l < Threshold(n) /\ \A s \in m..(n - 1) : l >= Threshold(s)
<1>1. /\ m \in Nat /\ l \in Nat /\ l = level[u] + 1 /\ level[u] \in Nat
      /\ level[u] < Threshold(m) /\ (m > 0 => level[u] >= Threshold(m - 1))
  BY DEF RewardTypes, MilestonesDue
<1>2. /\ Threshold(m) \in Nat /\ Threshold(m + 1) = Threshold(m) + MilestoneGap
      /\ MilestoneGap \in Nat /\ MilestoneGap > 0
  <2>1. m \in Nat
    BY <1>1
  <2>2. Threshold(m) \in Nat /\ Threshold(m + 1) = Threshold(m) + MilestoneGap
    BY <2>1, ThresholdsGrow
  <2>3. QED
    BY <2>2, Quantities
<1>3. MilestoneAfter(u, l) = CHOOSE n \in m..(m + l + 1) : P(n)
  BY DEF MilestoneAfter, Threshold
<1>4. \E n \in m..(m + l + 1) : P(n)
  <2>1. CASE l < Threshold(m)
    <3>1. P(m) /\ m \in m..(m + l + 1)
      BY <1>1, <2>1
    <3>2. QED
      BY <3>1
  <2>2. CASE ~(l < Threshold(m))
    <3>1. l < Threshold(m + 1) /\ l >= Threshold(m)
      BY <1>1, <1>2, <2>2
    <3>2. \A s \in m..((m + 1) - 1) : s = m
      BY <1>1
    <3>3. P(m + 1) /\ m + 1 \in m..(m + l + 1)
      BY <1>1, <3>1, <3>2
    <3>4. QED
      BY <3>3
  <2>3. QED
    BY <2>1, <2>2
<1>5. ASSUME NEW n \in m..(m + l + 1), P(n)
      PROVE  n \in {m, m + 1} /\ l < Threshold(n) /\ (n > 0 => l >= Threshold(n - 1))
  <2>1. n \in Nat /\ n >= m
    BY <1>1
  <2>2. ~(n > m + 1)
    <3>1. SUFFICES ASSUME n > m + 1 PROVE FALSE
      OBVIOUS
    <3>2. m + 1 \in m..(n - 1)
      BY <1>1, <2>1, <3>1
    <3>3. l >= Threshold(m + 1)
      BY <1>5, <3>2
    <3>4. QED
      BY <1>1, <1>2, <3>3
  <2>3. n = m \/ n = m + 1
    BY <1>1, <2>1, <2>2
  <2>4. CASE n = m
    <3>1. ASSUME m > 0 PROVE Threshold(m - 1) \in Nat
      <4>1. m - 1 \in Nat
        BY <1>1, <3>1
      <4>2. QED
        BY <4>1, ThresholdsGrow
    <3>2. QED
      BY <1>1, <1>5, <2>4, <3>1
  <2>5. CASE n = m + 1
    <3>1. m \in m..(n - 1) /\ n - 1 = m
      BY <1>1, <2>5
    <3>2. QED
      BY <1>5, <2>5, <3>1
  <2>6. QED
    BY <2>3, <2>4, <2>5
<1> HIDE DEF P
<1>6. LET n == CHOOSE n \in m..(m + l + 1) : P(n)
      IN  n \in m..(m + l + 1) /\ P(n)
  BY <1>4
<1>7. QED
  BY <1>3, <1>5, <1>6

LEMMA CommitLevelKeepsRewards ==
    ASSUME RewardsInv, NEW r \in Request, CommitLevel(r)
    PROVE  RewardsInv'
<1> DEFINE u == tx[r].user
           l == tx[r].arg
           n == MilestoneAfter(u, l)
<1>1. /\ tx[r] # None /\ tx[r].op = "level" /\ u \in UserId
      /\ <<"mode", u>> \in tx[r].locks /\ l = level[u] + 1 /\ l \in Nat
  <2>1. TxIs(r, "level")
    BY DEF CommitLevel
  <2>2. u \in UserId /\ level[u] \in Nat
    BY <2>1 DEF TxIs, RewardsInv, RewardTypes
  <2>3. <<"mode", u>> \in tx[r].locks /\ l = level[u] + 1
    BY <2>1 DEF RewardsInv, LevelsAreNext
  <2>4. QED
    BY <2>1, <2>2, <2>3 DEF TxIs
<1>2. /\ op_keys' = op_keys \cup {Key(r)} /\ level' = [level EXCEPT ![u] = l]
      /\ milestone' = [milestone EXCEPT ![u] = n]
      /\ mail' = [mail EXCEPT ![u] = [i \in 1..MaxLevel |->
             IF i \in (milestone[u] + 1)..n THEN "unclaimed" ELSE mail[u][i]]]
      /\ UNCHANGED <<inventory, ledger, stock, uses>>
  BY DEF CommitLevel
<1>3. Ended(r)
  BY TxEndsMeansEnded DEF CommitLevel, RewardsInv
<1>4. /\ milestone[u] \in Nat /\ n \in {milestone[u], milestone[u] + 1}
      /\ l < Threshold(n) /\ (n > 0 => l >= Threshold(n - 1))
  BY <1>1, OneMilestoneAtMost DEF RewardsInv, RewardTypes
<1> HIDE DEF n
<1>5. /\ level'[u] = l /\ milestone'[u] = n
      /\ \A v \in UserId : v # u => level'[v] = level[v] /\ milestone'[v] = milestone[v]
                                     /\ mail'[v] = mail[v]
      /\ \A i \in 1..MaxLevel :
           mail'[u][i] = IF i \in (milestone[u] + 1)..n THEN "unclaimed" ELSE mail[u][i]
      /\ level' \in [UserId -> Nat] /\ milestone' \in [UserId -> Nat]
      /\ mail' \in [UserId -> [1..MaxLevel -> MailState]]
  <2>1. /\ level \in [UserId -> Nat] /\ milestone \in [UserId -> Nat]
        /\ mail \in [UserId -> [1..MaxLevel -> MailState]]
    BY DEF RewardsInv, RewardTypes
  <2>2. n \in Nat
    BY <1>4
  <2>3. /\ level'[u] = l /\ level' \in [UserId -> Nat]
        /\ \A v \in UserId : v # u => level'[v] = level[v]
    BY <1>1, <1>2, <2>1
  <2>4. /\ milestone'[u] = n /\ milestone' \in [UserId -> Nat]
        /\ \A v \in UserId : v # u => milestone'[v] = milestone[v]
    BY <1>1, <1>2, <2>1, <2>2
  <2>5. "unclaimed" \in MailState
    BY DEF MailState
  <2>6. /\ \A v \in UserId : v # u => mail'[v] = mail[v]
        /\ \A i \in 1..MaxLevel :
             mail'[u][i] = IF i \in (milestone[u] + 1)..n THEN "unclaimed" ELSE mail[u][i]
        /\ mail' \in [UserId -> [1..MaxLevel -> MailState]]
    BY <1>1, <1>2, <2>1, <2>5
  <2>7. QED
    BY <2>3, <2>4, <2>6
<1>6. \A i \in 1..MaxLevel :
        /\ mail[u][i] # "none" <=> i <= milestone[u]
        /\ mail'[u][i] # "none" <=> i <= n
        /\ mail'[u][i] # mail[u][i] => mail[u][i] = "none" /\ mail'[u][i] = "unclaimed"
  <2>1. ASSUME NEW i \in 1..MaxLevel
        PROVE  mail[u][i] # "none" <=> i <= milestone[u]
    BY <1>1 DEF RewardsInv, MilestonesDue
  <2>2. ASSUME NEW i \in 1..MaxLevel
        PROVE  i \in (milestone[u] + 1)..n <=> (i <= n /\ ~(i <= milestone[u]))
    BY <1>4, Quantities
  <2>3. milestone[u] <= n
    BY <1>4
  <2>4. ASSUME NEW i \in 1..MaxLevel
        PROVE  i <= milestone[u] => i <= n
    BY <1>4, <2>3, Quantities
  <2>5. QED
    BY <1>5, <2>1, <2>2, <2>4
<1>7. ReadsHold'
  <2>1. \A v \in UserId : inventory[v]["coin"] \in Int
    BY DEF RewardsInv, RewardTypes, Item
  <2>2. ASSUME NEW v \in UserId, NEW i \in 1..MaxLevel, mail'[v][i] # mail[v][i]
        PROVE  mail[v][i] = "none"
    BY <1>5, <1>6, <2>2
  <2>3. ASSUME NEW v \in UserId
        PROVE  level'[v] = level[v] \/ <<"mode", v>> \in tx[r].locks
    BY <1>1, <1>5
  <2>4. ChangesOwn(r)
    BY <1>1, <1>2, <2>1, <2>2, <2>3 DEF ChangesOwn, Keyed
  <2>5. QED
    BY <1>1, <1>2, <1>3, <2>4, CommitKeepsReads DEF RewardsInv, RewardTypes
<1>8. RewardTypes'
  BY <1>2, <1>5, <1>7 DEF RewardsInv, RewardTypes, ReadsHold
<1>9. MilestonesDue'
  <2>1. ASSUME NEW v \in UserId
        PROVE  /\ level'[v] < Threshold(milestone'[v])
               /\ milestone'[v] > 0 => level'[v] >= Threshold(milestone'[v] - 1)
               /\ \A i \in 1..MaxLevel : mail'[v][i] # "none" <=> i <= milestone'[v]
    <3>1. CASE v = u
      BY <1>4, <1>5, <1>6, <3>1
    <3>2. CASE v # u
      <4>1. level'[v] = level[v] /\ milestone'[v] = milestone[v] /\ mail'[v] = mail[v]
        BY <1>5, <3>2
      <4>2. QED
        BY <4>1 DEF RewardsInv, MilestonesDue
    <3>3. QED
      BY <3>1, <3>2
  <2>2. QED
    BY <2>1 DEF MilestonesDue
<1>10. PaidOut'
  <2>1. ASSUME NEW v \in UserId, NEW i \in 1..MaxLevel
        PROVE  mail'[v][i] \in {"claimed", "deleted"} <=> mail[v][i] \in {"claimed", "deleted"}
    BY <1>5, <1>6
  <2>2. QED
    BY <1>2, <2>1 DEF RewardsInv, PaidOut
<1>11. EntriesHaveKeys'
  BY <1>2 DEF RewardsInv, EntriesHaveKeys
<1>12. Limits'
  <2>1. Key(r) \notin op_keys /\ Key(r)[1] = "level"
    BY <1>1 DEF RewardsInv, KeysAreFree, Keyed, Key
  <2>2. QED
    BY <1>2, <2>1, OneMoreKey DEF RewardsInv, RewardTypes
<1>13. QED
  BY <1>7, <1>8, <1>9, <1>10, <1>11, <1>12, ReadsAreKept

-------------------------------------------------------------------------------
(* Every step of Rewards.                                                     *)

LEMMA CommitsKeepRewards ==
    ASSUME RewardsInv, NEW r \in Request, Commits(r)
    PROVE  RewardsInv'
<1>1. CASE CommitPurchase(r)
  BY <1>1, CommitPurchaseKeepsRewards
<1>2. CASE CommitInvite(r)
  <2>1. /\ tx[r] # None /\ tx[r].op = "invite"
        /\ Deposit(tx[r].user, "coin", 1, Key(r)) /\ op_keys' = op_keys \cup {Key(r)}
        /\ uses' = uses + 1 /\ TxEnds(r) /\ UNCHANGED <<stock, level, milestone, mail>>
    BY <1>2 DEF CommitInvite, TxIs
  <2>2. Ended(r)
    BY <2>1, TxEndsMeansEnded DEF RewardsInv
  <2>3. uses' = IF tx[r].op = "invite" THEN uses + 1 ELSE uses
    BY <2>1
  <2>4. QED
    BY <2>1, <2>2, <2>3, DepositKeepsRewards
<1>3. CASE CommitQuestReward(r)
  <2>1. /\ tx[r] # None /\ tx[r].op = "quest"
        /\ Deposit(tx[r].user, "coin", 1, Key(r)) /\ op_keys' = op_keys \cup {Key(r)}
        /\ uses' = uses /\ TxEnds(r) /\ UNCHANGED <<stock, level, milestone, mail>>
    BY <1>3 DEF CommitQuestReward, TxIs
  <2>2. Ended(r)
    BY <2>1, TxEndsMeansEnded DEF RewardsInv
  <2>3. uses' = IF tx[r].op = "invite" THEN uses + 1 ELSE uses
    BY <2>1
  <2>4. QED
    BY <2>1, <2>2, <2>3, DepositKeepsRewards
<1>4. CASE CommitQuestEvent(r)
  <2>1. Ended(r)
    BY <1>4, TxEndsMeansEnded DEF CommitQuestEvent, RewardsInv
  <2>2. UNCHANGED dataVars
    BY <1>4 DEF CommitQuestEvent, dataVars
  <2>3. QED
    BY <2>1, <2>2, EndKeepsRewards
<1>5. CASE CommitLevel(r)
  BY <1>5, CommitLevelKeepsRewards
<1>6. CASE CommitInbox(r)
  BY <1>6, CommitInboxKeepsRewards
<1>7. CASE DeleteRuns(r)
  BY <1>7, DeleteRunsKeepsRewards
<1>8. QED
  BY <1>1, <1>2, <1>3, <1>4, <1>5, <1>6, <1>7 DEF Commits

\* An operation by which player u begins the transaction of r.
BeginsOne(r, u) ==
    \/ \E id \in OperationId : Purchase(r, u, id)
    \/ RedeemInvite(r, u)
    \/ \E q \in Quest : ClaimQuestReward(r, u, q)
    \/ TriggerQuestEvent(r, u)
    \/ \E l \in 1..MaxLevel : CompleteLevel(r, u, l)
    \/ \E i \in 1..MaxLevel : ClaimInbox(r, u, i) \/ DeleteInbox(r, u, i)

LEMMA BeginsOneMayBegin ==
    ASSUME RewardTypes, NEW r \in Request, NEW u \in UserId, BeginsOne(r, u)
    PROVE  \E op, arg, locks : Started(r, op, u, arg, locks) /\ MayBegin(op, u, arg, locks)
<1>1. ASSUME NEW id \in OperationId, Purchase(r, u, id)
      PROVE  \E op, arg, locks : Started(r, op, u, arg, locks) /\ MayBegin(op, u, arg, locks)
  <2> DEFINE locks == {<<"purchase", u, id>>, <<"shop">>, <<"coin", u>>}
  <2>1. Started(r, "purchase", u, id, locks)
    BY <1>1, BeginsMeansStarted DEF Purchase
  <2>2. MayBegin("purchase", u, id, locks)
    BY <1>1 DEF Purchase, MayBegin
  <2>3. QED
    BY <2>1, <2>2
<1>2. CASE RedeemInvite(r, u)
  <2> DEFINE locks == {<<"code">>, <<"invite", u, None>>, <<"coin", u>>}
  <2>1. Started(r, "invite", u, None, locks)
    BY <1>2, BeginsMeansStarted DEF RedeemInvite
  <2>2. MayBegin("invite", u, None, locks)
    BY <1>2 DEF RedeemInvite, MayBegin
  <2>3. QED
    BY <2>1, <2>2
<1>3. ASSUME NEW q \in Quest, ClaimQuestReward(r, u, q)
      PROVE  \E op, arg, locks : Started(r, op, u, arg, locks) /\ MayBegin(op, u, arg, locks)
  <2> DEFINE locks == {<<"quest", u, q>>, <<"coin", u>>}
  <2>1. Started(r, "quest", u, q, locks)
    BY <1>3, BeginsMeansStarted DEF ClaimQuestReward
  <2>2. MayBegin("quest", u, q, locks)
    BY <1>3 DEF ClaimQuestReward, MayBegin
  <2>3. QED
    BY <2>1, <2>2
<1>4. CASE TriggerQuestEvent(r, u)
  <2>1. Started(r, "event", u, None, {})
    BY <1>4, BeginsMeansStarted DEF TriggerQuestEvent
  <2>2. MayBegin("event", u, None, {})
    BY DEF MayBegin
  <2>3. QED
    BY <2>1, <2>2
<1>5. ASSUME NEW l \in 1..MaxLevel, CompleteLevel(r, u, l)
      PROVE  \E op, arg, locks : Started(r, op, u, arg, locks) /\ MayBegin(op, u, arg, locks)
  <2> DEFINE locks == {<<"level", u, l>>, <<"mode", u>>}
  <2>1. Started(r, "level", u, l, locks)
    BY <1>5, BeginsMeansStarted DEF CompleteLevel
  <2>2. MayBegin("level", u, l, locks)
    BY <1>5 DEF CompleteLevel, MayBegin
  <2>3. QED
    BY <2>1, <2>2
<1>6. ASSUME NEW i \in 1..MaxLevel, ClaimInbox(r, u, i)
      PROVE  \E op, arg, locks : Started(r, op, u, arg, locks) /\ MayBegin(op, u, arg, locks)
  <2> DEFINE locks == {<<"mail", u, i>>, <<"coin", u>>}
  <2>1. Started(r, "inbox_claim", u, i, locks)
    BY <1>6, BeginsMeansStarted DEF ClaimInbox
  <2>2. MayBegin("inbox_claim", u, i, locks)
    BY <1>6 DEF ClaimInbox, MayBegin
  <2>3. QED
    BY <2>1, <2>2
<1>7. ASSUME NEW i \in 1..MaxLevel, DeleteInbox(r, u, i)
      PROVE  \E op, arg, locks : Started(r, op, u, arg, locks) /\ MayBegin(op, u, arg, locks)
  <2>1. Started(r, "delete", u, i, {})
    BY <1>7, BeginsMeansStarted DEF DeleteInbox
  <2>2. MayBegin("delete", u, i, {})
    BY <1>7 DEF DeleteInbox, MayBegin
  <2>3. QED
    BY <2>1, <2>2
<1>8. QED
  BY <1>1, <1>2, <1>3, <1>4, <1>5, <1>6, <1>7 DEF BeginsOne

LEMMA RewardsInitMeetsInv == RewardsInit => RewardsInv
<1> SUFFICES ASSUME RewardsInit PROVE RewardsInv
  OBVIOUS
<1>1. /\ inventory = [u \in UserId |-> [i \in Item |-> IF i = "coin" THEN Coins ELSE 0]]
      /\ ledger = {} /\ op_keys = {} /\ stock = STOCK /\ uses = 0
      /\ level = [u \in UserId |-> 0] /\ milestone = [u \in UserId |-> 0]
      /\ mail = [u \in UserId |-> [n \in 1..MaxLevel |-> "none"]]
      /\ tx = [r \in Request |-> None]
  BY DEF RewardsInit
<1>2. RewardTypes
  BY <1>1, Quantities DEF RewardTypes, MailState
<1>3. LocksAreExclusive /\ KeysAreFree /\ PurchasesCanBePaid /\ InvitesHaveUses
      /\ LevelsAreNext /\ ClaimsAreFirst /\ DeletesAreLast
  BY <1>1 DEF LocksAreExclusive, KeysAreFree, PurchasesCanBePaid, InvitesHaveUses,
       LevelsAreNext, ClaimsAreFirst, DeletesAreLast, TxIs
<1>4. MilestonesDue
  <2>1. 0 < Threshold(0)
    BY Quantities DEF Threshold
  <2>2. QED
    <3>1. ASSUME NEW u \in UserId
          PROVE  level[u] = 0 /\ milestone[u] = 0 /\ mail[u] = [n \in 1..MaxLevel |-> "none"]
      BY <1>1
    <3>2. ASSUME NEW u \in UserId, NEW i \in 1..MaxLevel
          PROVE  mail[u][i] = "none" /\ ~(i <= 0)
      BY <3>1, Quantities
    <3>3. ASSUME NEW u \in UserId
          PROVE  /\ level[u] < Threshold(milestone[u])
                 /\ milestone[u] > 0 => level[u] >= Threshold(milestone[u] - 1)
                 /\ \A i \in 1..MaxLevel : mail[u][i] # "none" <=> i <= milestone[u]
      BY <2>1, <3>1, <3>2
    <3>4. QED
      BY <3>3 DEF MilestonesDue
<1>5. PaidOut /\ EntriesHaveKeys
  BY <1>1 DEF PaidOut, EntriesHaveKeys
<1>6. Limits
  <2>1. \A c : {k \in op_keys : k[1] = c} = {}
    BY <1>1
  <2>2. IsFiniteSet(op_keys) /\ Cardinality({}) = 0
    BY <1>1, FS_EmptySet
  <2>3. QED
    BY <1>1, <2>1, <2>2, Quantities DEF Limits, LimitsHold
<1>7. QED
  BY <1>2, <1>3, <1>4, <1>5, <1>6 DEF RewardsInv

LEMMA RewardsStepKeepsInv ==
    ASSUME RewardsInv, [RewardsNext]_rewardVars
    PROVE  RewardsInv'
<1>1. ASSUME NEW r \in Request, NEW u \in UserId, BeginsOne(r, u)
      PROVE  RewardsInv'
  <2>1. PICK op, arg, locks : Started(r, op, u, arg, locks) /\ MayBegin(op, u, arg, locks)
    BY <1>1, BeginsOneMayBegin DEF RewardsInv
  <2>2. QED
    BY <2>1, BeginKeepsRewards
<1>2. ASSUME NEW r \in Request, Rollback(r)
      PROVE  RewardsInv'
  <2>1. Ended(r) /\ UNCHANGED dataVars
    BY <1>2, TxEndsMeansEnded DEF Rollback, dataVars, RewardsInv
  <2>2. QED
    BY <2>1, EndKeepsRewards
<1>3. CASE UNCHANGED rewardVars
  <2>1. UNCHANGED <<inventory, ledger, op_keys, stock, uses, level, milestone, mail, tx>>
    BY <1>3 DEF rewardVars
  <2>2. RewardTypes' /\ LocksAreExclusive' /\ KeysAreFree'
    BY <2>1 DEF RewardsInv, RewardTypes, LocksAreExclusive, KeysAreFree, Key
  <2>3. PurchasesCanBePaid' /\ InvitesHaveUses' /\ LevelsAreNext'
    BY <2>1 DEF RewardsInv, PurchasesCanBePaid, InvitesHaveUses, LevelsAreNext, TxIs
  <2>4. ClaimsAreFirst' /\ DeletesAreLast'
    BY <2>1 DEF RewardsInv, ClaimsAreFirst, DeletesAreLast, TxIs
  <2>5. MilestonesDue' /\ PaidOut' /\ EntriesHaveKeys' /\ Limits'
    BY <2>1 DEF RewardsInv, MilestonesDue, PaidOut, EntriesHaveKeys, Limits, LimitsHold
  <2>6. QED
    BY <2>2, <2>3, <2>4, <2>5 DEF RewardsInv
<1>4. QED
  BY <1>1, <1>2, <1>3, CommitsKeepRewards DEF RewardsNext, BeginsOne

\* What a transaction has read holds until it ends: nobody else has its locks, its key is
\* unused, the stock, the price, the uses, the level and the message are as it found
\* them; and each milestone reached has its message, each claim its entry.
THEOREM RewardsInvariant == RewardsSpec => []RewardsInv
<1>1. RewardsInit => RewardsInv
  BY RewardsInitMeetsInv
<1>2. RewardsInv /\ [RewardsNext]_rewardVars => RewardsInv'
  BY RewardsStepKeepsInv
<1>3. QED
  BY <1>1, <1>2, PTL DEF RewardsSpec

\* No more is sold than there was and no code is used more often than it may be, however
\* many requests compete.
THEOREM NothingIsOversold == RewardsSpec => []LimitsHold
<1>1. RewardsInv => LimitsHold
  BY DEF RewardsInv, Limits
<1>2. QED
  BY <1>1, RewardsInvariant, PTL

\* Each milestone up to the player's level has sent its reward, once, and no other has;
\* a reward is only deleted after it has been paid out.
THEOREM EachMilestoneIsMailed == RewardsSpec => []MilestonesAreMailed
<1>1. RewardsInv => MilestonesAreMailed
  <2> SUFFICES ASSUME RewardsInv, NEW u \in UserId, NEW i \in 1..MaxLevel
               PROVE  /\ mail[u][i] # "none" <=> level[u] >= (MilestoneInit + i - 1) * MilestoneGap
                      /\ mail[u][i] \in {"claimed", "deleted"} <=>
                           \E e \in ledger : e.key = <<"inbox_claim", u, i>>
    BY DEF MilestonesAreMailed
  <2>1. mail[u][i] \in {"claimed", "deleted"} <=>
          \E e \in ledger : e.key = <<"inbox_claim", u, i>>
    BY DEF RewardsInv, PaidOut, ClaimOf
  <2>2. /\ level[u] \in Nat /\ milestone[u] \in Nat /\ level[u] < Threshold(milestone[u])
        /\ milestone[u] > 0 => level[u] >= Threshold(milestone[u] - 1)
        /\ mail[u][i] # "none" <=> i <= milestone[u]
    BY DEF RewardsInv, RewardTypes, MilestonesDue
  <2>3. i - 1 \in Nat /\ (MilestoneInit + i - 1) * MilestoneGap = Threshold(i - 1)
    <3>1. i - 1 \in Nat /\ MilestoneInit + i - 1 = MilestoneInit + (i - 1)
      BY Quantities
    <3>2. QED
      BY <3>1 DEF Threshold
  <2>4. mail[u][i] # "none" <=> level[u] >= Threshold(i - 1)
    <3>1. CASE i <= milestone[u]
      <4>1. milestone[u] - 1 \in Nat /\ i - 1 <= milestone[u] - 1 /\ milestone[u] > 0
        BY <2>2, <2>3, <3>1, Quantities
      <4>2. Threshold(i - 1) <= Threshold(milestone[u] - 1)
        BY <2>3, <4>1, ThresholdsGrow
      <4>3. Threshold(i - 1) \in Nat /\ Threshold(milestone[u] - 1) \in Nat
        BY <2>3, <4>1, ThresholdsGrow
      <4>4. QED
        BY <2>2, <3>1, <4>1, <4>2, <4>3
    <3>2. CASE ~(i <= milestone[u])
      <4>1. milestone[u] <= i - 1
        BY <2>2, <3>2, Quantities
      <4>2. Threshold(milestone[u]) <= Threshold(i - 1)
        BY <2>2, <2>3, <4>1, ThresholdsGrow
      <4>3. Threshold(milestone[u]) \in Nat /\ Threshold(i - 1) \in Nat
        BY <2>2, <2>3, ThresholdsGrow
      <4>4. QED
        BY <2>2, <3>2, <4>2, <4>3
    <3>3. QED
      BY <3>1, <3>2
  <2>5. QED
    BY <2>1, <2>3, <2>4
<1>2. QED
  BY <1>1, RewardsInvariant, PTL

-------------------------------------------------------------------------------
(* The sum of the ledger.  It is a fold, which takes the entries out one by    *)
(* one in an order of its own: the sum does not depend on it.  The induction   *)
(* is over the subsets of a finite set.                                       *)

\* Induction over the subsets of a finite set, for a set G of those that are good.
LEMMA SubsetInduction ==
    ASSUME NEW U, IsFiniteSet(U), NEW G,
           \A s \in SUBSET U : (\A t \in SUBSET s : t # s => t \in G) => s \in G
    PROVE  \A s \in SUBSET U : s \in G
<1> DEFINE Bad == {s \in SUBSET U : s \notin G}
<1>1. SUFFICES ASSUME Bad # {} PROVE FALSE
  OBVIOUS
<1>2. /\ Bad \subseteq FiniteSubsetsOf(U)
      /\ IsWellFoundedOn(StrictSubsetOrdering(U), FiniteSubsetsOf(U))
  BY FS_FiniteSubsetsOfFinite, FS_StrictSubsetOrderingWellFounded
<1> HIDE DEF Bad
<1>3. PICK s \in Bad : \A t \in Bad : ~(<<t, s>> \in StrictSubsetOrdering(U))
  BY <1>1, <1>2, WFMin
<1>4. \A t \in SUBSET s : t # s => t \in G
  BY <1>3 DEF StrictSubsetOrdering, Bad
<1>5. QED
  BY <1>3, <1>4 DEF Bad

First(s) == CHOOSE x \in s : TRUE
SumOf(S) == MapThenSumSet(LAMBDA e : e.delta, S)
FoldAt(g, s) == IF s = {} THEN 0 ELSE First(s).delta + g[s \ {First(s)}]
IsFold(g, S) == g = [s \in SUBSET S |-> FoldAt(g, s)]
HasFold(S) == IsFold(CHOOSE g : IsFold(g, S), S)

LEMMA SumIsFold == \A S : SumOf(S) = (CHOOSE g : IsFold(g, S))[S]
  BY DEF SumOf, MapThenSumSet, MapThenFoldSet, IsFold, FoldAt, First

LEMMA FirstIsIn == \A s : s # {} => First(s) \in s
  BY DEF First

\* Two folds agree where both are defined.
LEMMA FoldsAgree ==
    ASSUME NEW U, IsFiniteSet(U), NEW S, NEW T, U \subseteq S, U \subseteq T, NEW g, NEW h,
           IsFold(g, S), IsFold(h, T)
    PROVE  g[U] = h[U]
<1> DEFINE G == {s \in SUBSET U : g[s] = h[s]}
<1>1. ASSUME NEW s \in SUBSET U, \A t \in SUBSET s : t # s => t \in G
      PROVE  s \in G
  <2>1. g[s] = FoldAt(g, s) /\ h[s] = FoldAt(h, s)
    <3>1. s \in SUBSET S /\ s \in SUBSET T
      OBVIOUS
    <3>2. QED
      BY <3>1 DEF IsFold
  <2>2. CASE s = {}
    BY <2>1, <2>2 DEF FoldAt
  <2>3. CASE s # {}
    <3>1. s \ {First(s)} \in SUBSET s /\ s \ {First(s)} # s
      BY <2>3, FirstIsIn
    <3>2. g[s \ {First(s)}] = h[s \ {First(s)}]
      BY <1>1, <3>1
    <3>3. QED
      BY <2>1, <3>2 DEF FoldAt
  <2>4. QED
    BY <2>2, <2>3
<1> HIDE DEF G
<1>2. \A s \in SUBSET U : s \in G
  BY <1>1, SubsetInduction
<1>3. QED
  BY <1>2, U \in SUBSET U DEF G

\* The sum is the fold, and it is defined.
LEMMA EveryFiniteSetHasFold ==
    ASSUME NEW U, IsFiniteSet(U)
    PROVE  HasFold(U)
<1> DEFINE G == {s \in SUBSET U : HasFold(s)}
<1>1. ASSUME NEW s \in SUBSET U, \A t \in SUBSET s : t # s => t \in G
      PROVE  s \in G
  <2> DEFINE g == [t \in SUBSET s |-> IF t = {} THEN 0 ELSE First(t).delta + SumOf(t \ {First(t)})]
  <2>1. ASSUME NEW t \in SUBSET s, t # {}
        PROVE  g[t \ {First(t)}] = SumOf(t \ {First(t)})
    <3> DEFINE r == t \ {First(t)}
    <3>1. First(t) \in t /\ r \in SUBSET s /\ r # s /\ r \in SUBSET U
      BY <2>1, FirstIsIn
    <3>2. HasFold(r)
      BY <1>1, <3>1
    <3>3. SumOf(r) = FoldAt(CHOOSE f : IsFold(f, r), r)
      BY <3>2, SumIsFold DEF HasFold, IsFold
    <3>4. CASE r = {}
      BY <3>1, <3>3, <3>4 DEF FoldAt
    <3>5. CASE r # {}
      <4> DEFINE q == r \ {First(r)}
      <4>1. First(r) \in r /\ q \in SUBSET s /\ q # s /\ q \in SUBSET r /\ q \in SUBSET U
        BY <3>1, <3>5, FirstIsIn
      <4>2. HasFold(q) /\ IsFiniteSet(q)
        BY <1>1, <4>1, FS_Subset
      <4>3. (CHOOSE f : IsFold(f, r))[q] = (CHOOSE f : IsFold(f, q))[q]
        BY <3>2, <4>1, <4>2, FoldsAgree DEF HasFold
      <4>4. SumOf(r) = First(r).delta + SumOf(q)
        BY <3>3, <3>5, <4>3, SumIsFold DEF FoldAt
      <4>5. g[r] = First(r).delta + SumOf(q)
        BY <3>1, <3>5
      <4>6. QED
        BY <4>4, <4>5
    <3>6. QED
      BY <3>4, <3>5
  <2>2. \A t \in SUBSET s : g[t] = FoldAt(g, t)
    BY <2>1 DEF FoldAt
  <2>3. g = [t \in SUBSET s |-> FoldAt(g, t)]
    BY <2>2
  <2> HIDE DEF g
  <2>4. IsFold(g, s)
    BY <2>3 DEF IsFold
  <2>5. HasFold(s)
    BY <2>4 DEF HasFold
  <2>6. QED
    BY <2>5
<1> HIDE DEF G
<1>2. \A s \in SUBSET U : s \in G
  BY <1>1, SubsetInduction
<1>3. QED
  BY <1>2, U \in SUBSET U DEF G

LEMMA SumUnfolds ==
    ASSUME NEW S, IsFiniteSet(S)
    PROVE  SumOf(S) = IF S = {} THEN 0 ELSE First(S).delta + SumOf(S \ {First(S)})
<1> DEFINE g == CHOOSE f : IsFold(f, S)
<1>1. IsFold(g, S)
  BY EveryFiniteSetHasFold DEF HasFold
<1> HIDE DEF g
<1>2. SumOf(S) = FoldAt(g, S)
  <2>1. SumOf(S) = g[S]
    BY SumIsFold DEF g
  <2>2. QED
    BY <1>1, <2>1 DEF IsFold
<1>3. CASE S # {}
  <2> DEFINE r == S \ {First(S)}
             h == CHOOSE f : IsFold(f, r)
  <2>1. r \in SUBSET S /\ IsFiniteSet(r)
    BY FS_Subset
  <2>2. IsFold(h, r)
    BY <2>1, EveryFiniteSetHasFold DEF HasFold
  <2> HIDE DEF r, h
  <2>3. g[r] = h[r]
    BY <1>1, <2>1, <2>2, FoldsAgree
  <2>4. SumOf(r) = h[r]
    BY SumIsFold DEF h
  <2>5. QED
    BY <1>2, <1>3, <2>3, <2>4 DEF FoldAt, r
<1>4. QED
  BY <1>2, <1>3 DEF FoldAt

\* The sum of integers is one, and any element can be taken out first.
LEMMA SumIsInt ==
    ASSUME NEW U, IsFiniteSet(U), \A e \in U : e.delta \in Int
    PROVE  SumOf(U) \in Int
<1> DEFINE G == {s \in SUBSET U : SumOf(s) \in Int}
<1>1. ASSUME NEW s \in SUBSET U, \A t \in SUBSET s : t # s => t \in G
      PROVE  s \in G
  <2>1. IsFiniteSet(s)
    BY FS_Subset
  <2>2. SumOf(s) = IF s = {} THEN 0 ELSE First(s).delta + SumOf(s \ {First(s)})
    BY <2>1, SumUnfolds
  <2>3. CASE s = {}
    BY <2>2, <2>3
  <2>4. CASE s # {}
    <3>1. First(s) \in s /\ s \ {First(s)} \in SUBSET s /\ s \ {First(s)} # s
      BY <2>4, FirstIsIn
    <3>2. SumOf(s \ {First(s)}) \in Int /\ First(s).delta \in Int
      BY <1>1, <3>1
    <3>3. SumOf(s) = First(s).delta + SumOf(s \ {First(s)})
      BY <2>2, <2>4
    <3>4. SumOf(s) \in Int
      BY <3>2, <3>3
    <3>5. QED
      BY <3>4
  <2>5. QED
    BY <2>3, <2>4
<1> HIDE DEF G
<1>2. \A s \in SUBSET U : s \in G
  BY <1>1, SubsetInduction
<1>3. QED
  BY <1>2, U \in SUBSET U DEF G

LEMMA SumTakesAny ==
    ASSUME NEW U, IsFiniteSet(U), \A e \in U : e.delta \in Int, NEW x \in U
    PROVE  SumOf(U) = x.delta + SumOf(U \ {x})
<1> DEFINE G == {s \in SUBSET U : \A z \in s : SumOf(s) = z.delta + SumOf(s \ {z})}
<1>1. ASSUME NEW s \in SUBSET U, \A t \in SUBSET s : t # s => t \in G
      PROVE  s \in G
  <2> SUFFICES ASSUME NEW z \in s PROVE SumOf(s) = z.delta + SumOf(s \ {z})
    OBVIOUS
  <2> DEFINE y == First(s)
             rest == s \ {z, y}
  <2>1. y \in s /\ IsFiniteSet(s)
    BY FirstIsIn, FS_Subset
  <2>2. SumOf(s) = y.delta + SumOf(s \ {y})
    BY <2>1, SumUnfolds
  <2>3. CASE y = z
    BY <2>2, <2>3
  <2>4. CASE y # z
    <3> HIDE DEF y
    <3>1. /\ s \ {y} \in SUBSET s /\ s \ {y} # s /\ z \in s \ {y} /\ (s \ {y}) \ {z} = rest
          /\ s \ {z} \in SUBSET s /\ s \ {z} # s /\ y \in s \ {z} /\ (s \ {z}) \ {y} = rest
      BY <2>1, <2>4
    <3>2. SumOf(s \ {y}) = z.delta + SumOf(rest)
      BY <1>1, <3>1
    <3>3. SumOf(s \ {z}) = y.delta + SumOf(rest)
      BY <1>1, <3>1
    <3>4. SumOf(rest) \in Int /\ y.delta \in Int /\ z.delta \in Int
      <4>1. rest \in SUBSET U
        OBVIOUS
      <4>2. IsFiniteSet(rest) /\ \A e \in rest : e.delta \in Int
        BY <4>1, FS_Subset
      <4>3. QED
        BY <2>1, <4>2, SumIsInt
    <3> HIDE DEF rest
    <3>5. QED
      BY <2>2, <3>2, <3>3, <3>4
  <2>5. QED
    BY <2>3, <2>4
<1> HIDE DEF G
<1>2. \A s \in SUBSET U : s \in G
  BY <1>1, SubsetInduction
<1>3. QED
  BY <1>2, U \in SUBSET U DEF G

\* One more entry adds its delta.
LEMMA SumAddsOne ==
    ASSUME NEW S, IsFiniteSet(S), \A e \in S : e.delta \in Int,
           NEW x, x \notin S, x.delta \in Int
    PROVE  SumOf(S \cup {x}) = SumOf(S) + x.delta
<1>1. IsFiniteSet(S \cup {x}) /\ \A e \in S \cup {x} : e.delta \in Int
  BY FS_AddElement
<1>2. (S \cup {x}) \ {x} = S /\ x \in S \cup {x}
  OBVIOUS
<1>3. SumOf(S \cup {x}) = x.delta + SumOf(S)
  BY <1>1, <1>2, SumTakesAny
<1>4. SumOf(S) \in Int
  BY SumIsInt
<1>5. x.delta + SumOf(S) = SumOf(S) + x.delta
  BY <1>4
<1>6. QED
  BY <1>3, <1>5
Of(L, u, i) == {e \in L : e.user = u /\ e.item = i}
EntryTypes(L) == IsFiniteSet(L) /\ \A e \in L : e.delta \in Int

\* What a player has of an item, as the ledger has it.
LedgerInv ==
    /\ EntryTypes(ledger)
    /\ \A u \in UserId, i \in Item :
         /\ inventory[u][i] = (IF i = "coin" THEN Coins ELSE 0) + SumOf(Of(ledger, u, i))
         /\ inventory[u][i] >= 0

\* A new entry changes the one balance it is about.
Booked(L, x) ==
    /\ EntryTypes(L \cup {x})
    /\ \A u, i : /\ SumOf(Of(L, u, i)) \in Int
                 /\ SumOf(Of(L \cup {x}, u, i)) = SumOf(Of(L, u, i))
                      + IF x.user = u /\ x.item = i THEN x.delta ELSE 0

LEMMA EntryIsBooked ==
    ASSUME NEW L, EntryTypes(L), NEW x, x \notin L, x.delta \in Int
    PROVE  Booked(L, x)
<1>1. EntryTypes(L \cup {x})
  BY FS_AddElement DEF EntryTypes
<1>2. ASSUME NEW u, NEW i
      PROVE  /\ SumOf(Of(L, u, i)) \in Int
             /\ SumOf(Of(L \cup {x}, u, i)) = SumOf(Of(L, u, i))
                  + IF x.user = u /\ x.item = i THEN x.delta ELSE 0
  <2>1. Of(L, u, i) \in SUBSET L
    BY DEF Of
  <2>2. IsFiniteSet(Of(L, u, i)) /\ (\A e \in Of(L, u, i) : e.delta \in Int) /\ x \notin Of(L, u, i)
    BY <2>1, FS_Subset DEF EntryTypes
  <2>3. SumOf(Of(L, u, i)) \in Int
    BY <2>2, SumIsInt
  <2>4. CASE x.user = u /\ x.item = i
    <3>1. Of(L \cup {x}, u, i) = Of(L, u, i) \cup {x}
      BY <2>4 DEF Of
    <3>2. SumOf(Of(L, u, i) \cup {x}) = SumOf(Of(L, u, i)) + x.delta
      BY <2>2, SumAddsOne
    <3>3. QED
      BY <2>3, <2>4, <3>1, <3>2
  <2>5. CASE ~(x.user = u /\ x.item = i)
    <3>1. Of(L \cup {x}, u, i) = Of(L, u, i)
      BY <2>5 DEF Of
    <3>2. QED
      BY <2>3, <2>5, <3>1
  <2>6. QED
    BY <2>3, <2>4, <2>5
<1>3. QED
  BY <1>1, <1>2 DEF Booked

\* A deposit is entered once: no entry has its key yet.
LEMMA DepositBalances ==
    ASSUME RewardsInv, LedgerInv, NEW u \in UserId, NEW n \in Nat, NEW key,
           Deposit(u, "coin", n, key), \A e \in ledger : e.key # key
    PROVE  LedgerInv'
<1> DEFINE x == [user |-> u, item |-> "coin", delta |-> n, key |-> key]
<1>1. ledger' = ledger \cup {x} /\ x \notin ledger
  BY DEF Deposit
<1>2. x.user = u /\ x.item = "coin" /\ x.delta = n
  OBVIOUS
<1>3. Moved(inventory', u, n, 0)
  BY DepositMoves DEF RewardsInv
<1> HIDE DEF x
<1>4. /\ EntryTypes(ledger')
      /\ \A v, i : /\ SumOf(Of(ledger, v, i)) \in Int
                   /\ SumOf(Of(ledger', v, i)) = SumOf(Of(ledger, v, i))
                        + IF u = v /\ "coin" = i THEN n ELSE 0
  <2>1. Booked(ledger, x)
    BY <1>1, <1>2, EntryIsBooked DEF LedgerInv
  <2>2. QED
    BY <1>1, <1>2, <2>1 DEF Booked
<1>5. ASSUME NEW v \in UserId, NEW i \in Item
      PROVE  /\ inventory'[v][i] = (IF i = "coin" THEN Coins ELSE 0) + SumOf(Of(ledger', v, i))
             /\ inventory'[v][i] >= 0
  <2>1. /\ inventory[v][i] = (IF i = "coin" THEN Coins ELSE 0) + SumOf(Of(ledger, v, i))
        /\ inventory[v][i] >= 0 /\ inventory[v][i] \in Int /\ inventory[u][i] \in Int
    BY <1>3 DEF LedgerInv, Moved
  <2>2. inventory'[v][i] = inventory[v][i] + IF u = v /\ "coin" = i THEN n ELSE 0
    <3>1. CASE v = u
      BY <1>3, <2>1, <3>1 DEF Moved, Item
    <3>2. CASE v # u
      BY <1>3, <2>1, <3>2 DEF Moved
    <3>3. QED
      BY <3>1, <3>2
  <2>3. /\ SumOf(Of(ledger, v, i)) \in Int
        /\ SumOf(Of(ledger', v, i)) = SumOf(Of(ledger, v, i)) + IF u = v /\ "coin" = i THEN n ELSE 0
    BY <1>4
  <2>4. QED
    BY <2>1, <2>2, <2>3, Quantities
<1>6. QED
  BY <1>4, <1>5 DEF LedgerInv

\* The key of an operation under way has no entry.
LEMMA KeyHasNoEntry ==
    ASSUME RewardsInv, NEW r \in Request, tx[r] # None, tx[r].op \in Keyed
    PROVE  \A e \in ledger : e.key # Key(r)
<1>1. Key(r) \notin op_keys /\ \A u, i : Key(r) # ClaimOf(u, i)
  BY DEF RewardsInv, KeysAreFree, Keyed, Key, ClaimOf
<1>2. QED
  BY <1>1 DEF RewardsInv, EntriesHaveKeys

\* A purchase is entered twice: the coins paid and the ticket bought.
LEMMA PurchaseBalances ==
    ASSUME RewardsInv, LedgerInv, NEW r \in Request, CommitPurchase(r)
    PROVE  LedgerInv'
<1> DEFINE u == tx[r].user
           x == [user |-> u, item |-> "coin", delta |-> -PRICE, key |-> Key(r)]
           y == [user |-> u, item |-> "ticket", delta |-> 1, key |-> Key(r)]
<1>1. /\ tx[r] # None /\ tx[r].op = "purchase" /\ u \in UserId
      /\ inventory[u]["coin"] >= PRICE
  BY DEF CommitPurchase, TxIs, RewardsInv, RewardTypes, PurchasesCanBePaid
<1>2. ledger' = (ledger \cup {x}) \cup {y}
  BY DEF CommitPurchase
<1>3. x \notin ledger /\ y \notin ledger \cup {x}
  <2>1. \A e \in ledger : e.key # Key(r)
    BY <1>1, KeyHasNoEntry DEF Keyed
  <2>2. x.key = Key(r) /\ y.key = Key(r) /\ x.item # y.item
    OBVIOUS
  <2> HIDE DEF x, y
  <2>3. QED
    BY <2>1, <2>2
<1>4. /\ x.user = u /\ x.item = "coin" /\ x.delta = -PRICE /\ x.delta \in Int
      /\ y.user = u /\ y.item = "ticket" /\ y.delta = 1 /\ y.delta \in Int
  BY Quantities
<1>5. Moved(inventory', u, -PRICE, 1)
  BY <1>1, ATicketIsBought DEF CommitPurchase, RewardsInv
<1> HIDE DEF x, y
<1>6. /\ EntryTypes(ledger \cup {x})
      /\ \A v, i : /\ SumOf(Of(ledger, v, i)) \in Int
                   /\ SumOf(Of(ledger \cup {x}, v, i)) = SumOf(Of(ledger, v, i))
                        + IF x.user = v /\ x.item = i THEN x.delta ELSE 0
  <2>1. Booked(ledger, x)
    BY <1>3, <1>4, EntryIsBooked DEF LedgerInv
  <2>2. QED
    BY <2>1 DEF Booked
<1>7. /\ EntryTypes(ledger')
      /\ \A v, i : /\ SumOf(Of(ledger \cup {x}, v, i)) \in Int
                   /\ SumOf(Of(ledger', v, i)) = SumOf(Of(ledger \cup {x}, v, i))
                        + IF y.user = v /\ y.item = i THEN y.delta ELSE 0
  <2>1. Booked(ledger \cup {x}, y)
    BY <1>3, <1>4, <1>6, EntryIsBooked
  <2>2. QED
    BY <1>2, <2>1 DEF Booked
<1>8. ASSUME NEW v \in UserId, NEW i \in Item
      PROVE  /\ inventory'[v][i] = (IF i = "coin" THEN Coins ELSE 0) + SumOf(Of(ledger', v, i))
             /\ inventory'[v][i] >= 0
  <2> DEFINE paid == IF u = v /\ "coin" = i THEN -PRICE ELSE 0
             got  == IF u = v /\ "ticket" = i THEN 1 ELSE 0
  <2>1. /\ inventory[v][i] = (IF i = "coin" THEN Coins ELSE 0) + SumOf(Of(ledger, v, i))
        /\ inventory[v][i] >= 0 /\ inventory[v][i] \in Int
    BY <1>5 DEF LedgerInv, Moved
  <2>2. inventory'[v][i] = inventory[v][i] + paid + got
    <3>1. CASE v = u /\ i = "coin"
      BY <1>5, <2>1, <3>1, Quantities DEF Moved
    <3>2. CASE v = u /\ i = "ticket"
      BY <1>5, <2>1, <3>2, Quantities DEF Moved
    <3>3. CASE v # u
      BY <1>5, <2>1, <3>3 DEF Moved
    <3>4. QED
      BY <3>1, <3>2, <3>3 DEF Item
  <2>3. SumOf(Of(ledger, v, i)) \in Int /\ SumOf(Of(ledger \cup {x}, v, i)) \in Int
    BY <1>6, <1>7
  <2>4. SumOf(Of(ledger \cup {x}, v, i)) = SumOf(Of(ledger, v, i)) + paid
    BY <1>4, <1>6
  <2>5. SumOf(Of(ledger', v, i)) = SumOf(Of(ledger \cup {x}, v, i)) + got
    BY <1>4, <1>7
  <2>6. paid \in Int /\ got \in Int
    BY Quantities
  <2>7. inventory'[v][i] >= 0
    BY <1>1, <2>1, <2>2, Quantities
  <2> HIDE DEF paid, got
  <2>8. SumOf(Of(ledger', v, i)) = SumOf(Of(ledger, v, i)) + paid + got
    BY <2>3, <2>4, <2>5, <2>6
  <2>9. QED
    BY <2>1, <2>2, <2>3, <2>6, <2>7, <2>8, Quantities
<1>9. QED
  BY <1>7, <1>8 DEF LedgerInv

LEMMA LedgerStepBalances ==
    ASSUME RewardsInv, LedgerInv, [RewardsNext]_rewardVars
    PROVE  LedgerInv'
<1>1. ASSUME NEW r \in Request, CommitPurchase(r)
      PROVE  LedgerInv'
  BY <1>1, PurchaseBalances
<1>2. ASSUME NEW r \in Request, CommitInvite(r) \/ CommitQuestReward(r)
      PROVE  LedgerInv'
  <2>1. /\ tx[r] # None /\ tx[r].op \in Keyed /\ tx[r].user \in UserId
        /\ Deposit(tx[r].user, "coin", 1, Key(r))
    BY <1>2 DEF CommitInvite, CommitQuestReward, TxIs, Keyed, RewardsInv, RewardTypes
  <2>2. QED
    BY <2>1, KeyHasNoEntry, DepositBalances
<1>3. ASSUME NEW r \in Request, CommitInbox(r)
      PROVE  LedgerInv'
  <2> DEFINE u == tx[r].user
             i == tx[r].arg
  <2>1. /\ u \in UserId /\ i \in 1..MaxLevel /\ mail[u][i] = "unclaimed"
        /\ Key(r) = ClaimOf(u, i) /\ Deposit(u, "coin", i, Key(r))
    BY <1>3 DEF CommitInbox, TxIs, RewardsInv, RewardTypes, ClaimsAreFirst, Key, ClaimOf
  <2>2. \A e \in ledger : e.key # ClaimOf(u, i)
    BY <2>1 DEF RewardsInv, PaidOut
  <2>3. i \in Nat
    BY <2>1, Quantities
  <2>4. QED
    BY <2>1, <2>2, <2>3, DepositBalances
<1>4. ASSUME UNCHANGED <<inventory, ledger>>
      PROVE  LedgerInv'
  BY <1>4 DEF LedgerInv
<1>5. ASSUME NEW r \in Request, NEW u \in UserId, BeginsOne(r, u)
      PROVE  UNCHANGED <<inventory, ledger>>
  BY <1>5 DEF BeginsOne, Purchase, RedeemInvite, ClaimQuestReward, TriggerQuestEvent,
       CompleteLevel, ClaimInbox, DeleteInbox, Begins
<1>6. ASSUME NEW r \in Request,
             CommitQuestEvent(r) \/ CommitLevel(r) \/ DeleteRuns(r) \/ Rollback(r)
      PROVE  UNCHANGED <<inventory, ledger>>
  BY <1>6 DEF CommitQuestEvent, CommitLevel, DeleteRuns, Rollback
<1>7. CASE UNCHANGED rewardVars
  BY <1>4, <1>7 DEF rewardVars
<1>8. QED
  BY <1>1, <1>2, <1>3, <1>4, <1>5, <1>6, <1>7 DEF RewardsNext, Commits, BeginsOne

\* What a player has is what he began with and what the ledger says he was given and
\* paid, and it is never less than nothing, for any number of entries.
THEOREM EveryEntryIsBooked == RewardsSpec => []LedgerBalances
<1>1. RewardsInit => LedgerInv
  <2> SUFFICES ASSUME RewardsInit PROVE LedgerInv
    OBVIOUS
  <2>1. ledger = {} /\ IsFiniteSet({}) /\ \A u, i : Of({}, u, i) = {}
    BY FS_EmptySet DEF RewardsInit, Of
  <2>2. SumOf({}) = 0
    BY FS_EmptySet, SumUnfolds
  <2>3. \A u \in UserId, i \in Item : inventory[u][i] = IF i = "coin" THEN Coins ELSE 0
    BY DEF RewardsInit
  <2>4. QED
    BY <2>1, <2>2, <2>3, Quantities DEF LedgerInv, EntryTypes
<1>2. RewardsInv /\ LedgerInv /\ [RewardsNext]_rewardVars => LedgerInv'
  BY LedgerStepBalances
<1>3. LedgerInv => LedgerBalances
  BY DEF LedgerInv, LedgerBalances, SumOf, Of
<1>4. QED
  BY <1>1, <1>2, <1>3, RewardsInvariant, PTL DEF RewardsSpec

-------------------------------------------------------------------------------
(* What an event makes of the quests.  QuestRows is defined by itself, from the *)
(* quest before each quest; sort_order makes that a definition.                *)

LEMMA LeastNumber ==
    ASSUME NEW T, T \subseteq Nat, T # {}
    PROVE  \E n \in T : \A m \in T : ~(m < n)
<1>1. PICK n \in T : \A m \in T : ~(<<m, n>> \in OpToRel(<, Nat))
  BY NatLessThanWellFounded, WFMin
<1>2. QED
  BY <1>1 DEF OpToRel

\* What an event makes of the row of one quest, given what it makes of the others.
AfterOf(u, event, f, q) ==
    LET row == quest_row[u][q]
    IN  IF ConditionType[q] # event \/ Completed(row) THEN row
        ELSE IF row # None THEN Counted(q, row.value + 1)
        ELSE IF q \in DailyQuest \/ Previous[q] = None \/ Completed(f[Previous[q]])
             THEN Counted(q, 1) ELSE None
IsAfter(u, event, f, D) == f = [q \in D |-> AfterOf(u, event, f, q)]

LEMMA RowsAreChosen ==
    \A u, event : QuestRows(u, event) = CHOOSE f : IsAfter(u, event, f, Quest)
  BY DEF QuestRows, IsAfter, AfterOf

\* D holds the quest before each of its own.
Closed(D) == D \subseteq Quest /\ \A q \in D : Previous[q] # None => Previous[q] \in D
Before(n) == {q \in Quest : SortOrder[q] < n}

LEMMA PreviousIsBefore ==
    \A q \in Quest :
        /\ SortOrder[q] \in Nat
        /\ Previous[q] # None => /\ Previous[q] \in Quest /\ Previous[q] \notin DailyQuest
                                /\ SortOrder[Previous[q]] < SortOrder[q]
  BY QuestsAreDefined

\* By induction over sort_order: the first quest on which two results differ.
LEMMA AfterIsUnique ==
    ASSUME NEW u, NEW event, NEW D, NEW E, Closed(D), Closed(E), NEW f, NEW g,
           IsAfter(u, event, f, D), IsAfter(u, event, g, E)
    PROVE  \A q \in D \cap E : f[q] = g[q]
<1> DEFINE T == {n \in Nat : \E q \in D \cap E : SortOrder[q] = n /\ f[q] # g[q]}
<1>1. SUFFICES ASSUME NEW p \in D \cap E, f[p] # g[p] PROVE FALSE
  OBVIOUS
<1>2. T \subseteq Nat /\ SortOrder[p] \in T
  BY <1>1, PreviousIsBefore DEF Closed
<1>3. PICK n \in T : \A m \in T : ~(m < n)
  <2> HIDE DEF T
  <2>1. QED
    BY <1>2, LeastNumber
<1>4. PICK q \in D \cap E : SortOrder[q] = n /\ f[q] # g[q]
  BY <1>3
<1>5. Previous[q] # None => f[Previous[q]] = g[Previous[q]]
  <2>1. SUFFICES ASSUME Previous[q] # None, f[Previous[q]] # g[Previous[q]] PROVE FALSE
    OBVIOUS
  <2>2. /\ Previous[q] \in D \cap E /\ SortOrder[Previous[q]] \in Nat
        /\ SortOrder[Previous[q]] < SortOrder[q]
    BY <2>1, PreviousIsBefore DEF Closed
  <2>3. SortOrder[Previous[q]] \in T
    BY <2>1, <2>2
  <2>4. QED
    BY <1>3, <1>4, <2>2, <2>3
<1>6. AfterOf(u, event, f, q) = AfterOf(u, event, g, q)
  BY <1>5 DEF AfterOf
<1>7. f[q] = AfterOf(u, event, f, q) /\ g[q] = AfterOf(u, event, g, q)
  BY DEF IsAfter
<1>8. QED
  BY <1>4, <1>6, <1>7

LEMMA AfterExistsBefore ==
    ASSUME NEW u, NEW event
    PROVE  \A n \in Nat : \E f : IsAfter(u, event, f, Before(n))
<1> DEFINE T == {n \in Nat : ~\E f : IsAfter(u, event, f, Before(n))}
<1>1. SUFFICES ASSUME T # {} PROVE FALSE
  OBVIOUS
<1>2. T \subseteq Nat
  OBVIOUS
<1>3. PICK n \in T : \A m \in T : ~(m < n)
  <2> HIDE DEF T
  <2>1. QED
    BY <1>1, <1>2, LeastNumber
<1>4. n # 0
  <2>1. Before(0) = {}
    BY PreviousIsBefore DEF Before
  <2>2. IsAfter(u, event, [q \in {} |-> None], {})
    BY DEF IsAfter
  <2>3. QED
    BY <1>3, <2>1, <2>2
<1>5. PICK g : IsAfter(u, event, g, Before(n - 1))
  BY <1>3, <1>4
<1> DEFINE f == [q \in Before(n) |-> AfterOf(u, event, g, q)]
<1>6. ASSUME NEW q \in Before(n)
      PROVE  AfterOf(u, event, f, q) = AfterOf(u, event, g, q)
  <2>1. CASE Previous[q] # None
    <3> DEFINE p == Previous[q]
    <3>1. p \in Before(n - 1) /\ p \in Before(n)
      BY <1>3, <1>4, <2>1, PreviousIsBefore DEF Before
    <3>2. f[p] = AfterOf(u, event, g, p) /\ g[p] = AfterOf(u, event, g, p)
      BY <1>5, <3>1 DEF IsAfter
    <3>3. QED
      BY <3>2 DEF AfterOf
  <2>2. CASE Previous[q] = None
    BY <2>2 DEF AfterOf
  <2>3. QED
    BY <2>1, <2>2
<1>7. f = [q \in Before(n) |-> AfterOf(u, event, f, q)]
  BY <1>6
<1> HIDE DEF f
<1>8. IsAfter(u, event, f, Before(n))
  BY <1>7 DEF IsAfter
<1>9. QED
  BY <1>3, <1>8

\* The rows an event is about to make are those of the definition.
LEMMA RowsUnfold ==
    ASSUME NEW u, NEW event
    PROVE  IsAfter(u, event, QuestRows(u, event), Quest)
<1> DEFINE F(n) == CHOOSE f : IsAfter(u, event, f, Before(n))
           h == [q \in Quest |-> AfterOf(u, event, F(SortOrder[q]), q)]
<1>1. \A n \in Nat : IsAfter(u, event, F(n), Before(n)) /\ Closed(Before(n))
  <2>1. \A n \in Nat : IsAfter(u, event, F(n), Before(n))
    BY AfterExistsBefore
  <2>2. ASSUME NEW n \in Nat
        PROVE  Closed(Before(n))
    BY PreviousIsBefore DEF Closed, Before
  <2>3. QED
    BY <2>1, <2>2
<1> HIDE DEF F
<1>2. ASSUME NEW q \in Quest
      PROVE  AfterOf(u, event, h, q) = AfterOf(u, event, F(SortOrder[q]), q)
  <2>1. CASE Previous[q] # None
    <3> DEFINE p == Previous[q]
               g == F(SortOrder[q])
               k == F(SortOrder[p])
    <3>1. /\ p \in Quest /\ SortOrder[p] \in Nat /\ SortOrder[q] \in Nat
          /\ p \in Before(SortOrder[q])
      BY <2>1, PreviousIsBefore DEF Before
    <3>2. g[p] = AfterOf(u, event, g, p)
      BY <1>1, <3>1 DEF IsAfter
    <3>3. h[p] = AfterOf(u, event, k, p)
      BY <3>1
    <3>4. AfterOf(u, event, g, p) = AfterOf(u, event, k, p)
      <4>1. CASE Previous[p] # None
        <5>1. /\ Previous[p] \in Before(SortOrder[p])
              /\ Previous[p] \in Before(SortOrder[q])
          BY <2>1, <3>1, <4>1, PreviousIsBefore DEF Before
        <5>2. g[Previous[p]] = k[Previous[p]]
          BY <1>1, <3>1, <5>1, AfterIsUnique
        <5>3. QED
          BY <5>2 DEF AfterOf
      <4>2. CASE Previous[p] = None
        BY <4>2 DEF AfterOf
      <4>3. QED
        BY <4>1, <4>2
    <3>5. h[p] = g[p]
      BY <3>2, <3>3, <3>4
    <3> HIDE DEF h
    <3>6. QED
      BY <3>5 DEF AfterOf
  <2>2. CASE Previous[q] = None
    BY <2>2 DEF AfterOf
  <2>3. QED
    BY <2>1, <2>2
<1>3. h = [q \in Quest |-> AfterOf(u, event, h, q)]
  BY <1>2
<1> HIDE DEF h
<1>4. IsAfter(u, event, h, Quest)
  BY <1>3 DEF IsAfter
<1>5. QED
  BY <1>4, RowsAreChosen

-------------------------------------------------------------------------------
(* The quests.                                                               *)

Due(q, n) == IF n < ConditionValue[q] THEN n ELSE ConditionValue[q]

\* Row of quest q, when n events have found it open.
RowIsSound(q, row, n) ==
    IF row = None THEN n = 0
    ELSE /\ row.completed <=> row.value >= ConditionValue[q]
         /\ row.value <= Due(q, n)
         /\ q \notin DailyQuest => row.value = Due(q, n)

Follows(q) == q \notin DailyQuest /\ Previous[q] # None

QuestsSound ==
    /\ quest_row \in [UserId -> [Quest -> QuestRow \cup {None}]]
    /\ counted \in [UserId -> [Quest -> Nat]]
    /\ \A u \in UserId, q \in Quest :
         /\ RowIsSound(q, quest_row[u][q], counted[u][q])
         /\ quest_row[u][q] # None /\ Follows(q) => Completed(quest_row[u][Previous[q]])

\* What a transaction has read of the quests: a row it is to write is locked, as it was
\* when it was read, or was missing; then the quest before is completed, now or by
\* this transaction.
ReadsQuests(r) ==
    LET u     == tx[r].user
        moves == DOMAIN tx[r].quests
    IN  /\ moves \subseteq Quest /\ tx[r].missing \subseteq moves
        /\ \A q \in moves \ tx[r].missing :
             /\ <<"quest", u, q>> \in tx[r].locks /\ quest_row[u][q] # None
             /\ tx[r].quests[q] = IF Completed(quest_row[u][q]) THEN quest_row[u][q]
                                  ELSE Counted(q, quest_row[u][q].value + 1)
        /\ \A q \in tx[r].missing :
             /\ tx[r].quests[q] = Counted(q, 1)
             /\ Follows(q) => \/ Completed(quest_row[u][Previous[q]])
                              \/ Previous[q] \in moves /\ Completed(tx[r].quests[Previous[q]])

\* The row of a reward is there, and locked.
ReadsReward(r) == tx[r].op = "quest" =>
    /\ tx[r].arg \in Quest /\ <<"quest", tx[r].user, tx[r].arg>> \in tx[r].locks
    /\ quest_row[tx[r].user][tx[r].arg] # None

QuestReadsHold == \A r \in Request : tx[r] # None => ReadsQuests(r) /\ ReadsReward(r)

QuestInv == QuestsSound /\ QuestReadsHold

LEMMA RowsAreRecords ==
    /\ None \notin QuestRow
    /\ \A q \in Quest, n \in Nat : Counted(q, n) \in QuestRow
    /\ \A q \in Quest : ConditionValue[q] \in Nat \ {0}
<1>1. \A q \in Quest : ConditionValue[q] \in Nat \ {0}
  BY QuestsAreDefined
<1>2. None \notin QuestRow
  BY QuestsAreDefined DEF QuestRow
<1>3. \A q \in Quest, n \in Nat : Counted(q, n) \in QuestRow
  BY <1>1 DEF Counted, QuestRow
<1>4. QED
  BY <1>1, <1>2, <1>3

\* A transaction that begins has read the quests as it says.
LEMMA BeginReadsQuests ==
    ASSUME RewardTypes, NEW r \in Request, NEW op, NEW u, NEW arg, NEW event,
           NEW locks, Begins(r, op, u, arg, event, locks)
    PROVE  ReadsQuests(r)' /\ UNCHANGED <<quest_row, counted>>
<1> DEFINE rows    == QuestRows(u, event)
           moves   == {q \in QuestsOf(event) : rows[q] # None}
           all     == locks \cup {<<"quest", u, q>> : q \in {p \in moves : quest_row[u][p] # None}}
           quests  == [q \in moves |-> rows[q]]
           lacking == {q \in moves : quest_row[u][q] = None}
           new     == [op |-> op, user |-> u, arg |-> arg, locks |-> all,
                      quests |-> quests, missing |-> lacking]
<1>1. tx' = [tx EXCEPT ![r] = new] /\ UNCHANGED <<quest_row, counted>>
  BY DEF Begins
<1>2. \A q \in Quest : rows[q] = AfterOf(u, event, rows, q)
  <2> HIDE DEF rows
  <2>1. IsAfter(u, event, rows, Quest)
    BY RowsUnfold DEF rows
  <2>2. QED
    BY <2>1 DEF IsAfter
<1> HIDE DEF rows
<1>3. moves \subseteq Quest /\ lacking \subseteq moves /\ \A q \in moves : ConditionType[q] = event
  BY DEF QuestsOf
<1>4. ASSUME NEW q \in moves \ lacking
      PROVE  /\ <<"quest", u, q>> \in all /\ quest_row[u][q] # None
             /\ quests[q] = IF Completed(quest_row[u][q]) THEN quest_row[u][q]
                            ELSE Counted(q, quest_row[u][q].value + 1)
  <2>1. q \in moves /\ q \in Quest /\ quest_row[u][q] # None /\ ConditionType[q] = event
    BY <1>3
  <2>2. rows[q] = AfterOf(u, event, rows, q)
    BY <1>2, <2>1
  <2>3. quests[q] = rows[q]
    BY <2>1
  <2>4. <<"quest", u, q>> \in all
    BY <2>1
  <2> HIDE DEF moves, all, quests
  <2>5. QED
    BY <2>1, <2>2, <2>3, <2>4 DEF AfterOf
<1>5. ASSUME NEW q \in lacking
      PROVE  /\ quests[q] = Counted(q, 1)
             /\ Follows(q) => \/ Completed(quest_row[u][Previous[q]])
                              \/ Previous[q] \in moves /\ Completed(quests[Previous[q]])
  <2>1. /\ q \in moves /\ q \in Quest /\ quest_row[u][q] = None /\ ConditionType[q] = event
        /\ rows[q] # None /\ quests[q] = rows[q]
    BY <1>3
  <2>2. rows[q] = AfterOf(u, event, rows, q)
    BY <1>2, <2>1
  <2>3. /\ rows[q] = Counted(q, 1)
        /\ q \in DailyQuest \/ Previous[q] = None \/ Completed(rows[Previous[q]])
    BY <2>1, <2>2 DEF AfterOf, Completed
  <2>4. ASSUME Follows(q)
        PROVE  \/ Completed(quest_row[u][Previous[q]])
               \/ Previous[q] \in moves /\ Completed(quests[Previous[q]])
    <3> DEFINE p == Previous[q]
    <3>1. p \in Quest /\ Completed(rows[p])
      BY <2>1, <2>3, <2>4, PreviousIsBefore DEF Follows
    <3>2. rows[p] = AfterOf(u, event, rows, p)
      BY <1>2, <3>1
    <3>3. CASE ConditionType[p] # event
      <4>1. rows[p] = quest_row[u][p]
        BY <3>2, <3>3 DEF AfterOf
      <4>2. QED
        BY <3>1, <4>1
    <3>4. CASE ConditionType[p] = event
      <4>1. p \in moves
        BY <3>1, <3>4 DEF QuestsOf, Completed
      <4>2. quests[p] = rows[p]
        BY <4>1
      <4>3. QED
        BY <3>1, <4>1, <4>2
    <3>5. QED
      BY <3>3, <3>4
  <2>5. QED
    BY <2>1, <2>3, <2>4
<1>6. DOMAIN quests = moves
  OBVIOUS
<1> HIDE DEF moves, all, quests, lacking
<1>7. /\ new.user = u /\ new.quests = quests /\ new.missing = lacking /\ new.locks = all
  OBVIOUS
<1> HIDE DEF new
<1>8. tx'[r] = new
  BY <1>1 DEF RewardTypes
<1>9. ReadsQuests(r)'
  BY <1>1, <1>3, <1>4, <1>5, <1>6, <1>7, <1>8 DEF ReadsQuests
<1>10. QED
  BY <1>1, <1>9

\* What a transaction that ends does to the rows: none goes, none that is completed is
\* so no more, and none changes that it has not locked.
RowsHold(r) ==
    \A u \in UserId, q \in Quest :
        /\ quest_row[u][q] # None => quest_row'[u][q] # None
        /\ Completed(quest_row[u][q]) => Completed(quest_row'[u][q])
        /\ quest_row[u][q] # None /\ <<"quest", u, q>> \notin tx[r].locks =>
             quest_row'[u][q] = quest_row[u][q]

LEMMA OthersStillRead ==
    ASSUME RewardsInv, QuestReadsHold, NEW r \in Request, tx[r] # None, Ended(r), RowsHold(r)
    PROVE  QuestReadsHold'
<1>1. \A q \in Request : tx'[q] # None =>
          tx[q] # None /\ q # r /\ tx'[q] = tx[q] /\ tx[q].user \in UserId
  BY EndKeepsLocks
<1>2. ASSUME NEW s \in Request, tx'[s] # None
      PROVE  ReadsQuests(s)' /\ ReadsReward(s)'
  <2> DEFINE u     == tx[s].user
             moves == DOMAIN tx[s].quests
  <2>1. /\ tx[s] # None /\ s # r /\ tx'[s] = tx[s] /\ u \in UserId
        /\ ReadsQuests(s) /\ ReadsReward(s)
    BY <1>1, <1>2 DEF QuestReadsHold
  <2>2. \A k \in tx[s].locks : k \notin tx[r].locks
    BY <2>1 DEF RewardsInv, LocksAreExclusive
  <2>3. moves \subseteq Quest /\ tx[s].missing \subseteq moves
    BY <2>1 DEF ReadsQuests
  <2>4. ASSUME NEW q \in moves \ tx[s].missing
        PROVE  /\ <<"quest", u, q>> \in tx[s].locks /\ quest_row'[u][q] # None
               /\ tx[s].quests[q] = IF Completed(quest_row'[u][q]) THEN quest_row'[u][q]
                                    ELSE Counted(q, quest_row'[u][q].value + 1)
    <3>1. /\ <<"quest", u, q>> \in tx[s].locks /\ quest_row[u][q] # None /\ q \in Quest
          /\ tx[s].quests[q] = IF Completed(quest_row[u][q]) THEN quest_row[u][q]
                               ELSE Counted(q, quest_row[u][q].value + 1)
      BY <2>1, <2>3 DEF ReadsQuests
    <3>2. quest_row'[u][q] = quest_row[u][q]
      BY <2>1, <2>2, <3>1 DEF RowsHold
    <3>3. QED
      BY <3>1, <3>2
  <2>5. ASSUME NEW q \in tx[s].missing
        PROVE  /\ tx[s].quests[q] = Counted(q, 1)
               /\ Follows(q) => \/ Completed(quest_row'[u][Previous[q]])
                                \/ Previous[q] \in moves /\ Completed(tx[s].quests[Previous[q]])
    <3>1. /\ q \in Quest /\ tx[s].quests[q] = Counted(q, 1)
          /\ Follows(q) => \/ Completed(quest_row[u][Previous[q]])
                           \/ Previous[q] \in moves /\ Completed(tx[s].quests[Previous[q]])
      BY <2>1, <2>3 DEF ReadsQuests
    <3>2. Follows(q) => Previous[q] \in Quest
      BY <3>1, PreviousIsBefore DEF Follows
    <3>3. QED
      BY <2>1, <3>1, <3>2 DEF RowsHold
  <2>6. ReadsQuests(s)'
    <3>1. \A q \in moves \ tx[s].missing :
            /\ <<"quest", u, q>> \in tx[s].locks /\ quest_row'[u][q] # None
            /\ tx[s].quests[q] = IF Completed(quest_row'[u][q]) THEN quest_row'[u][q]
                                 ELSE Counted(q, quest_row'[u][q].value + 1)
      BY <2>4
    <3>2. \A q \in tx[s].missing :
            /\ tx[s].quests[q] = Counted(q, 1)
            /\ Follows(q) => \/ Completed(quest_row'[u][Previous[q]])
                             \/ Previous[q] \in moves /\ Completed(tx[s].quests[Previous[q]])
      BY <2>5
    <3>3. QED
      BY <2>1, <2>3, <3>1, <3>2 DEF ReadsQuests
  <2>7. ReadsReward(s)'
    BY <2>1 DEF ReadsReward, RowsHold
  <2>8. QED
    BY <2>6, <2>7
<1>3. QED
  BY <1>2 DEF QuestReadsHold

\* A row of which one event more is counted.
LEMMA DueGrows ==
    ASSUME NEW q \in Quest, NEW n \in Nat, NEW v \in Nat, v <= Due(q, n)
    PROVE  /\ v <= Due(q, n + 1)
           /\ v >= ConditionValue[q] => v = Due(q, n + 1)
           /\ ~(v >= ConditionValue[q]) => v + 1 <= Due(q, n + 1)
           /\ ~(v >= ConditionValue[q]) /\ v = Due(q, n) => v + 1 = Due(q, n + 1)
<1>1. ConditionValue[q] \in Nat
  BY RowsAreRecords
<1>2. ASSUME NEW c \in Nat, v <= IF n < c THEN n ELSE c
      PROVE  /\ v <= IF n + 1 < c THEN n + 1 ELSE c
             /\ v >= c => v = IF n + 1 < c THEN n + 1 ELSE c
             /\ ~(v >= c) => v + 1 <= IF n + 1 < c THEN n + 1 ELSE c
             /\ ~(v >= c) /\ v = (IF n < c THEN n ELSE c) => v + 1 = IF n + 1 < c THEN n + 1 ELSE c
  BY <1>2
<1>3. QED
  BY <1>1, <1>2 DEF Due

LEMMA OneMoreCount ==
    ASSUME NEW q \in Quest, NEW row \in QuestRow, NEW n \in Nat, RowIsSound(q, row, n)
    PROVE  /\ row.completed => RowIsSound(q, row, n + 1)
           /\ ~row.completed => RowIsSound(q, Counted(q, row.value + 1), n + 1)
           /\ q \in DailyQuest => RowIsSound(q, row, n + 1)
<1> DEFINE v == row.value
           c == ConditionValue[q]
<1>1. /\ row # None /\ v \in Nat /\ row.completed \in BOOLEAN /\ (row.completed <=> v >= c)
      /\ v <= Due(q, n) /\ (q \notin DailyQuest => v = Due(q, n))
  BY RowsAreRecords DEF RowIsSound, QuestRow
<1>2. row.completed => RowIsSound(q, row, n + 1)
  <2>1. ASSUME row.completed
        PROVE  v <= Due(q, n + 1) /\ (q \notin DailyQuest => v = Due(q, n + 1))
    BY <1>1, <2>1, DueGrows
  <2>2. QED
    BY <1>1, <2>1 DEF RowIsSound
<1>3. q \in DailyQuest => RowIsSound(q, row, n + 1)
  <2>1. v <= Due(q, n + 1)
    BY <1>1, DueGrows
  <2>2. QED
    BY <1>1, <2>1 DEF RowIsSound
<1>4. ASSUME ~row.completed
      PROVE  RowIsSound(q, Counted(q, v + 1), n + 1)
  <2> DEFINE new == Counted(q, v + 1)
  <2>1. new \in QuestRow /\ new # None
    BY <1>1, RowsAreRecords
  <2>2. new.value = v + 1 /\ (new.completed <=> v + 1 >= c)
    BY DEF Counted
  <2>3. v + 1 <= Due(q, n + 1) /\ (q \notin DailyQuest => v + 1 = Due(q, n + 1))
    BY <1>1, <1>4, DueGrows
  <2> HIDE DEF new
  <2>4. RowIsSound(q, new, n + 1)
    BY <2>1, <2>2, <2>3 DEF RowIsSound
  <2>5. QED
    BY <2>4 DEF new
<1>5. QED
  BY <1>2, <1>3, <1>4

LEMMA FirstCount ==
    ASSUME NEW q \in Quest
    PROVE  RowIsSound(q, Counted(q, 1), 1) /\ Counted(q, 1) # None
<1>1. Counted(q, 1) # None /\ ConditionValue[q] \in Nat \ {0}
  BY RowsAreRecords
<1>2. /\ Counted(q, 1).value = 1
      /\ Counted(q, 1).completed <=> 1 >= ConditionValue[q]
  BY DEF Counted
<1>3. Due(q, 1) = 1
  BY <1>1 DEF Due
<1>4. QED
  BY <1>1, <1>2, <1>3 DEF RowIsSound

\* The rows of an event are written.
LEMMA QuestEventKeepsQuests ==
    ASSUME RewardsInv, QuestInv, NEW r \in Request, tx[r] # None, Ended(r), QuestEvent(r)
    PROVE  QuestInv'
<1> DEFINE u       == tx[r].user
           moves   == DOMAIN tx[r].quests
           Kept(q) == q \in tx[r].missing /\ quest_row[u][q] # None
<1>1. /\ u \in UserId /\ ReadsQuests(r) /\ QuestsSound /\ QuestReadsHold
      /\ moves \subseteq Quest /\ tx[r].missing \subseteq moves
  BY DEF RewardsInv, RewardTypes, QuestInv, QuestReadsHold, ReadsQuests
<1>2. \A q \in moves : Kept(q) => q \in DailyQuest
  BY DEF QuestEvent
<1>3. /\ quest_row \in [UserId -> [Quest -> QuestRow \cup {None}]]
      /\ counted \in [UserId -> [Quest -> Nat]]
  BY <1>1 DEF QuestsSound
<1>4. /\ quest_row' = [v \in UserId |-> quest_row'[v]]
      /\ quest_row'[u] = [q \in Quest |-> quest_row'[u][q]]
      /\ \A v \in UserId : v # u => quest_row'[v] = quest_row[v]
      /\ \A q \in Quest : quest_row'[u][q] = IF q \in moves /\ ~Kept(q) THEN tx[r].quests[q]
                                             ELSE quest_row[u][q]
  BY <1>1, <1>3 DEF QuestEvent
<1>5. /\ counted' = [v \in UserId |-> counted'[v]]
      /\ counted'[u] = [q \in Quest |-> counted'[u][q]]
      /\ \A v \in UserId : v # u => counted'[v] = counted[v]
      /\ \A q \in Quest : counted'[u][q] = IF q \in moves THEN counted[u][q] + 1
                                           ELSE counted[u][q]
  BY <1>1, <1>3 DEF QuestEvent
<1>6. ASSUME NEW q \in Quest
      PROVE  /\ quest_row[u][q] \in QuestRow \cup {None} /\ counted[u][q] \in Nat
             /\ RowIsSound(q, quest_row[u][q], counted[u][q])
             /\ quest_row[u][q] # None /\ Follows(q) => Completed(quest_row[u][Previous[q]])
  BY <1>1, <1>3 DEF QuestsSound
\* Each row of the player, after the event.
<1>7. ASSUME NEW q \in Quest
      PROVE  /\ quest_row'[u][q] \in QuestRow \cup {None} /\ counted'[u][q] \in Nat
             /\ RowIsSound(q, quest_row'[u][q], counted'[u][q])
             /\ quest_row[u][q] # None => quest_row'[u][q] # None
             /\ Completed(quest_row[u][q]) => quest_row'[u][q] = quest_row[u][q]
             /\ quest_row[u][q] # None /\ <<"quest", u, q>> \notin tx[r].locks =>
                  quest_row'[u][q] = quest_row[u][q]
             /\ quest_row[u][q] = None /\ quest_row'[u][q] # None => q \in tx[r].missing
  <2>1. CASE q \notin moves
    BY <1>4, <1>5, <1>6, <2>1
  <2>2. CASE q \in moves /\ Kept(q)
    <3>1. /\ quest_row'[u][q] = quest_row[u][q] /\ counted'[u][q] = counted[u][q] + 1
          /\ q \in DailyQuest /\ quest_row[u][q] # None /\ quest_row[u][q] \in QuestRow
      BY <1>2, <1>4, <1>5, <1>6, <2>2
    <3>2. RowIsSound(q, quest_row[u][q], counted[u][q] + 1)
      BY <1>6, <3>1, OneMoreCount
    <3>3. QED
      BY <1>6, <3>1, <3>2
  <2>3. CASE q \in tx[r].missing /\ quest_row[u][q] = None
    <3>1. /\ quest_row'[u][q] = Counted(q, 1) /\ counted'[u][q] = counted[u][q] + 1
          /\ counted[u][q] = 0
      BY <1>1, <1>4, <1>5, <1>6, <2>3 DEF ReadsQuests, RowIsSound
    <3>2. QED
      BY <2>3, <3>1, FirstCount, RowsAreRecords DEF Completed
  <2>4. CASE q \in moves /\ q \notin tx[r].missing
    <3> DEFINE row == quest_row[u][q]
    <3>1. /\ <<"quest", u, q>> \in tx[r].locks /\ row # None /\ row \in QuestRow
          /\ counted'[u][q] = counted[u][q] + 1
          /\ quest_row'[u][q] = IF Completed(row) THEN row ELSE Counted(q, row.value + 1)
      BY <1>1, <1>4, <1>5, <1>6, <2>4 DEF ReadsQuests
    <3>2. /\ row.completed => RowIsSound(q, row, counted[u][q] + 1)
          /\ ~row.completed => RowIsSound(q, Counted(q, row.value + 1), counted[u][q] + 1)
      BY <1>6, <3>1, OneMoreCount
    <3>3. Completed(row) <=> row.completed
      BY <3>1 DEF Completed
    <3>4. row.value + 1 \in Nat /\ Counted(q, row.value + 1) \in QuestRow
      <4>1. row.value \in Nat
        BY <3>1 DEF QuestRow
      <4>2. QED
        BY <4>1, RowsAreRecords
    <3>5. CASE row.completed
      <4>1. quest_row'[u][q] = quest_row[u][q]
        BY <3>1, <3>3, <3>5
      <4>2. counted'[u][q] \in Nat /\ RowIsSound(q, quest_row'[u][q], counted'[u][q])
        BY <1>6, <3>1, <3>2, <3>5, <4>1
      <4>3. quest_row[u][q] # None /\ quest_row[u][q] \in QuestRow
        BY <3>1
      <4>4. QED
        BY <4>1, <4>2, <4>3
    <3>6. CASE ~row.completed
      <4>1. /\ quest_row'[u][q] = Counted(q, row.value + 1)
            /\ quest_row'[u][q] # None /\ quest_row'[u][q] \in QuestRow
        BY <3>1, <3>3, <3>4, <3>6, RowsAreRecords
      <4>2. counted'[u][q] \in Nat /\ RowIsSound(q, quest_row'[u][q], counted'[u][q])
        BY <1>6, <3>1, <3>2, <3>6, <4>1
      <4>3. ~Completed(quest_row[u][q]) /\ quest_row[u][q] # None
        BY <3>1, <3>3, <3>6
      <4>4. QED
        BY <3>1, <4>1, <4>2, <4>3
    <3>7. QED
      BY <3>5, <3>6
  <2>5. QED
    BY <1>1, <2>1, <2>2, <2>3, <2>4
<1>8. ASSUME NEW q \in Quest, quest_row'[u][q] # None, Follows(q)
      PROVE  Completed(quest_row'[u][Previous[q]])
  <2> DEFINE p == Previous[q]
  <2>1. p \in Quest /\ p \notin DailyQuest
    BY <1>8, PreviousIsBefore DEF Follows
  <2>2. CASE Completed(quest_row[u][p])
    BY <1>7, <2>1, <2>2
  <2>3. CASE ~Completed(quest_row[u][p])
    <3>1. q \in tx[r].missing
      BY <1>6, <1>7, <1>8, <2>3
    <3>2. p \in moves /\ Completed(tx[r].quests[p])
      BY <1>1, <1>8, <2>3, <3>1 DEF ReadsQuests
    <3>3. ~Kept(p)
      BY <1>2, <2>1, <3>2
    <3>4. QED
      BY <1>4, <2>1, <3>2, <3>3
  <2>4. QED
    BY <2>2, <2>3
<1>9. QuestsSound'
  <2>1. ASSUME NEW v \in UserId
        PROVE  /\ quest_row'[v] \in [Quest -> QuestRow \cup {None}]
               /\ counted'[v] \in [Quest -> Nat]
               /\ \A q \in Quest :
                    /\ RowIsSound(q, quest_row'[v][q], counted'[v][q])
                    /\ quest_row'[v][q] # None /\ Follows(q) =>
                         Completed(quest_row'[v][Previous[q]])
    <3>1. CASE v = u
      BY <1>4, <1>5, <1>7, <1>8, <3>1
    <3>2. CASE v # u
      <4>1. quest_row'[v] = quest_row[v] /\ counted'[v] = counted[v]
        BY <1>4, <1>5, <3>2
      <4>2. QED
        BY <1>1, <1>3, <4>1 DEF QuestsSound
    <3>3. QED
      BY <3>1, <3>2
  <2>2. /\ quest_row' \in [UserId -> [Quest -> QuestRow \cup {None}]]
        /\ counted' \in [UserId -> [Quest -> Nat]]
    BY <1>4, <1>5, <2>1
  <2>3. QED
    BY <2>1, <2>2 DEF QuestsSound
<1>10. RowsHold(r)
  <2>1. ASSUME NEW v \in UserId, NEW q \in Quest
        PROVE  /\ quest_row[v][q] # None => quest_row'[v][q] # None
               /\ Completed(quest_row[v][q]) => Completed(quest_row'[v][q])
               /\ quest_row[v][q] # None /\ <<"quest", v, q>> \notin tx[r].locks =>
                    quest_row'[v][q] = quest_row[v][q]
    <3>1. CASE v = u
      BY <1>7, <3>1
    <3>2. CASE v # u
      BY <1>4, <3>2
    <3>3. QED
      BY <3>1, <3>2
  <2>2. QED
    BY <2>1 DEF RowsHold
<1>11. QED
  BY <1>1, <1>9, <1>10, OthersStillRead DEF QuestInv

\* The reward of a quest is paid: its row is marked, and stays what it was.
LEMMA QuestRewardKeepsQuests ==
    ASSUME RewardsInv, QuestInv, NEW r \in Request, CommitQuestReward(r)
    PROVE  QuestInv'
<1> DEFINE u == tx[r].user
           a == tx[r].arg
<1>1. /\ tx[r] # None /\ u \in UserId /\ a \in Quest
      /\ <<"quest", u, a>> \in tx[r].locks /\ quest_row[u][a] # None
      /\ QuestsSound /\ QuestReadsHold
  BY DEF CommitQuestReward, TxIs, RewardsInv, RewardTypes, QuestInv, QuestReadsHold, ReadsReward
<1>2. /\ quest_row \in [UserId -> [Quest -> QuestRow \cup {None}]]
      /\ quest_row' = [quest_row EXCEPT ![u][a].rewarded = TRUE] /\ counted' = counted
  BY <1>1 DEF CommitQuestReward, QuestsSound
<1>3. Ended(r)
  BY TxEndsMeansEnded DEF CommitQuestReward, RewardsInv
<1> DEFINE row == quest_row[u][a]
           new == [row EXCEPT !.rewarded = TRUE]
<1>4. /\ new \in QuestRow /\ new # None /\ new.value = row.value
      /\ new.completed = row.completed
  <2>1. row \in QuestRow
    BY <1>1, <1>2
  <2>2. new \in QuestRow /\ new.value = row.value /\ new.completed = row.completed
    BY <2>1 DEF QuestRow
  <2>3. QED
    BY <2>2, RowsAreRecords
<1>5. quest_row' = [quest_row EXCEPT ![u] = [quest_row[u] EXCEPT ![a] = new]]
  BY <1>2
<1> HIDE DEF new
<1>6. /\ quest_row' \in [UserId -> [Quest -> QuestRow \cup {None}]]
      /\ quest_row'[u][a] = new
      /\ \A v \in UserId, q \in Quest : ~(v = u /\ q = a) => quest_row'[v][q] = quest_row[v][q]
  <2> DEFINE theirs == [quest_row[u] EXCEPT ![a] = new]
  <2>1. /\ theirs \in [Quest -> QuestRow \cup {None}] /\ theirs[a] = new
        /\ \A q \in Quest : q # a => theirs[q] = quest_row[u][q]
    BY <1>1, <1>2, <1>4
  <2> HIDE DEF theirs
  <2>2. quest_row' = [quest_row EXCEPT ![u] = theirs]
    BY <1>5 DEF theirs
  <2>3. quest_row'[u] = theirs /\ \A v \in UserId : v # u => quest_row'[v] = quest_row[v]
    BY <1>1, <1>2, <2>2
  <2>4. quest_row' \in [UserId -> [Quest -> QuestRow \cup {None}]]
    BY <1>1, <1>2, <2>1, <2>2
  <2>5. QED
    BY <2>1, <2>3, <2>4
<1>7. ASSUME NEW v \in UserId, NEW q \in Quest
      PROVE  /\ quest_row'[v][q] # None <=> quest_row[v][q] # None
             /\ Completed(quest_row'[v][q]) <=> Completed(quest_row[v][q])
             /\ RowIsSound(q, quest_row'[v][q], counted[v][q])
             /\ quest_row[v][q] # None /\ <<"quest", v, q>> \notin tx[r].locks =>
                  quest_row'[v][q] = quest_row[v][q]
  <2>1. RowIsSound(q, quest_row[v][q], counted[v][q])
    BY <1>1 DEF QuestsSound
  <2>2. CASE v = u /\ q = a
    <3>1. quest_row'[v][q] = new /\ quest_row[v][q] = row
      BY <1>6, <2>2
    <3>2. RowIsSound(q, new, counted[v][q])
      BY <1>1, <1>4, <2>1, <2>2 DEF RowIsSound
    <3>3. QED
      BY <1>1, <1>4, <2>2, <3>1, <3>2 DEF Completed
  <2>3. CASE ~(v = u /\ q = a)
    BY <1>6, <2>1, <2>3
  <2>4. QED
    BY <2>2, <2>3
<1>8. QuestsSound'
  <2>1. ASSUME NEW v \in UserId, NEW q \in Quest
        PROVE  quest_row'[v][q] # None /\ Follows(q) => Completed(quest_row'[v][Previous[q]])
    <3>1. Follows(q) => Previous[q] \in Quest
      BY PreviousIsBefore DEF Follows
    <3>2. QED
      BY <1>1, <1>7, <3>1 DEF QuestsSound
  <2>2. counted' \in [UserId -> [Quest -> Nat]]
    BY <1>1, <1>2 DEF QuestsSound
  <2>3. QED
    BY <1>2, <1>6, <1>7, <2>1, <2>2 DEF QuestsSound
<1>9. RowsHold(r)
  BY <1>7 DEF RowsHold
<1>10. QED
  BY <1>1, <1>3, <1>8, <1>9, OthersStillRead DEF QuestInv

\* A transaction that begins has read what it says of the quests.
LEMMA BeginKeepsQuests ==
    ASSUME RewardsInv, QuestInv, NEW r \in Request, NEW op, NEW u, NEW arg, NEW event, NEW locks,
           Begins(r, op, u, arg, event, locks),
           op = "quest" => /\ arg \in Quest /\ quest_row[u][arg] # None
                           /\ <<"quest", u, arg>> \in locks
    PROVE  QuestInv'
<1>1. ReadsQuests(r)' /\ UNCHANGED <<quest_row, counted>>
  BY BeginReadsQuests DEF RewardsInv
<1>2. Started(r, op, u, arg, locks)
  BY BeginsMeansStarted DEF RewardsInv
<1>3. ReadsReward(r)'
  BY <1>1, <1>2 DEF ReadsReward, Started
<1>4. ASSUME NEW s \in Request, s # r, tx'[s] # None
      PROVE  ReadsQuests(s)' /\ ReadsReward(s)'
  <2>1. tx'[s] = tx[s]
    BY <1>2, <1>4 DEF Started
  <2>2. ReadsQuests(s) /\ ReadsReward(s)
    BY <1>4, <2>1 DEF QuestInv, QuestReadsHold
  <2>3. QED
    BY <1>1, <2>1, <2>2 DEF ReadsQuests, ReadsReward
<1>5. QED
  BY <1>1, <1>3, <1>4 DEF QuestInv, QuestsSound, QuestReadsHold

LEMMA QuestStepKeepsQuests ==
    ASSUME RewardsInv, QuestInv, [RewardsNext]_rewardVars
    PROVE  QuestInv'
<1>1. ASSUME NEW r \in Request, CommitPurchase(r) \/ CommitQuestEvent(r) \/ CommitLevel(r)
      PROVE  QuestInv'
  <2>1. tx[r] # None /\ QuestEvent(r) /\ TxEnds(r)
    BY <1>1 DEF CommitPurchase, CommitQuestEvent, CommitLevel, TxIs
  <2>2. Ended(r)
    BY <2>1, TxEndsMeansEnded DEF RewardsInv
  <2>3. QED
    BY <2>1, <2>2, QuestEventKeepsQuests
<1>2. ASSUME NEW r \in Request, CommitQuestReward(r)
      PROVE  QuestInv'
  BY <1>2, QuestRewardKeepsQuests
<1>3. ASSUME NEW r \in Request,
             CommitInvite(r) \/ CommitInbox(r) \/ DeleteRuns(r) \/ Rollback(r)
      PROVE  QuestInv'
  <2>1. tx[r] # None /\ UNCHANGED <<quest_row, counted>> /\ TxEnds(r)
    BY <1>3 DEF CommitInvite, CommitInbox, DeleteRuns, Rollback, TxIs
  <2>2. Ended(r) /\ RowsHold(r)
    BY <2>1, TxEndsMeansEnded DEF RewardsInv, RowsHold
  <2>3. QuestsSound'
    BY <2>1 DEF QuestInv, QuestsSound
  <2>4. QED
    BY <2>1, <2>2, <2>3, OthersStillRead DEF QuestInv
<1>4. ASSUME NEW r \in Request, NEW u \in UserId, BeginsOne(r, u)
      PROVE  QuestInv'
  <2>1. ASSUME NEW id \in OperationId, Purchase(r, u, id)
        PROVE  QuestInv'
    BY <2>1, BeginKeepsQuests DEF Purchase
  <2>2. CASE RedeemInvite(r, u)
    BY <2>2, BeginKeepsQuests DEF RedeemInvite
  <2>3. ASSUME NEW q \in Quest, ClaimQuestReward(r, u, q)
        PROVE  QuestInv'
    BY <2>3, BeginKeepsQuests DEF ClaimQuestReward
  <2>4. CASE TriggerQuestEvent(r, u)
    BY <2>4, BeginKeepsQuests DEF TriggerQuestEvent
  <2>5. ASSUME NEW l \in 1..MaxLevel, CompleteLevel(r, u, l)
        PROVE  QuestInv'
    BY <2>5, BeginKeepsQuests DEF CompleteLevel
  <2>6. ASSUME NEW i \in 1..MaxLevel, ClaimInbox(r, u, i) \/ DeleteInbox(r, u, i)
        PROVE  QuestInv'
    BY <2>6, BeginKeepsQuests DEF ClaimInbox, DeleteInbox
  <2>7. QED
    BY <1>4, <2>1, <2>2, <2>3, <2>4, <2>5, <2>6 DEF BeginsOne
<1>5. CASE UNCHANGED rewardVars
  <2>1. UNCHANGED <<quest_row, counted, tx>>
    BY <1>5 DEF rewardVars
  <2>2. \A r \in Request : /\ ReadsQuests(r)' <=> ReadsQuests(r)
                           /\ ReadsReward(r)' <=> ReadsReward(r)
    BY <2>1 DEF ReadsQuests, ReadsReward
  <2>3. QED
    BY <2>1, <2>2 DEF QuestInv, QuestsSound, QuestReadsHold
<1>6. QED
  BY <1>1, <1>2, <1>3, <1>4, <1>5 DEF RewardsNext, Commits, BeginsOne

\* A story quest has counted every event since it could be begun, and none before, and a
\* daily quest counts none twice, for any story in the order of sort_order.
THEOREM EventsAreCounted == RewardsSpec => []QuestsCountEvents
<1>1. RewardsInit => QuestInv
  <2> SUFFICES ASSUME RewardsInit PROVE QuestInv
    OBVIOUS
  <2>1. /\ quest_row = [u \in UserId |-> [q \in Quest |-> None]]
        /\ counted = [u \in UserId |-> [q \in Quest |-> 0]]
        /\ tx = [r \in Request |-> None]
    BY DEF RewardsInit
  <2>2. \A u \in UserId, q \in Quest : quest_row[u][q] = None /\ counted[u][q] = 0
    BY <2>1
  <2>3. QuestsSound
    BY <2>1, <2>2 DEF QuestsSound, RowIsSound
  <2>4. QED
    BY <2>1, <2>3 DEF QuestInv, QuestReadsHold
<1>2. RewardsInv /\ QuestInv /\ [RewardsNext]_rewardVars => QuestInv'
  BY QuestStepKeepsQuests
<1>3. QuestInv => QuestsCountEvents
  BY DEF QuestInv, QuestsSound, RowIsSound, Due, Follows, Completed, QuestsCountEvents
<1>4. QED
  BY <1>1, <1>2, <1>3, RewardsInvariant, PTL DEF RewardsSpec

===============================================================================
