------------------------- MODULE PlayerRepositoryProofs -------------------------
(* The cache of players and its flush, for any users, futures, settlements and   *)
(* number of operations: what transactions wrote is never written over, a bucket *)
(* that changed while it was written stays dirty, no game is counted twice, and  *)
(* while operations follow one another every game is counted and the cache fresh. *)
EXTENDS PlayerRepository, SequenceTheorems, FiniteSetTheorems, TLAPS

Aggregate == [Assets : Nat, Stats : Nat]

\* Only what bump_stats changes is ever dirty.
Entry == {e \in [aggregate : Aggregate, dirty : Dirty] : e.dirty["Assets"] = 0}

ReadStep == [step : {"read", "flush", "evict"}, user : UserId]
CommitStep == [step : {"commit", "claim"}, user : UserId, key : Key \cup {None}]
SettleStep == [step : {"settle"}, id : Settlement]
MutateStep == [step : {"mutate"}, user : UserId, loaded : BOOLEAN]
LoadStep == [step : {"load", "load_or_insert"}, user : UserId, sync : BOOLEAN]
InsertStep == [step : {"insert", "or_insert"}, user : UserId, sync : BOOLEAN, assets : Nat]
PutStep == [step : {"put", "or_put"}, user : UserId, aggregate : Aggregate]
SnapshotStep == [step : {"snapshot"}, user : UserId, buckets : SUBSET {"Stats"}]
SaveStep == [step : {"save"}, user : UserId, buckets : SUBSET {"Stats"}, entry : Entry,
             failed : BOOLEAN]
MarkStep == [step : {"mark"}, user : UserId, buckets : SUBSET {"Stats"}, entry : Entry,
             failed : BOOLEAN, bucket : {"Stats"}]

SafeStep == ReadStep \cup CommitStep \cup SettleStep \cup MutateStep \cup LoadStep
            \cup InsertStep \cup PutStep \cup SnapshotStep \cup SaveStep \cup MarkStep

CachesAreSafe ==
    /\ cache \in [UserId -> Entry \cup {None}]
    /\ todo \in [Task -> Seq(SafeStep)]
    /\ db \in [UserId -> Aggregate]
    /\ committed \in [UserId -> Nat]
    /\ now \in Nat

HasStep(t, h) == \E i \in DOMAIN todo[t] : todo[t][i] = h

\* e is the cached entry of u, or a copy of it that a flush has taken.
IsCopy(u, e) ==
    \/ e = cache[u] /\ e # None
    \/ \E t \in Task, h \in SaveStep \cup MarkStep :
            HasStep(t, h) /\ h.user = u /\ h.entry = e

\* changed_at tells the copies of a player's statistics apart.
StampsTellApart ==
    \A u \in UserId, e \in Entry : IsCopy(u, e) =>
        /\ e.dirty["Stats"] <= now
        /\ \A f \in Entry : IsCopy(u, f) /\ f.dirty["Stats"] = e.dirty["Stats"]
                            /\ e.dirty["Stats"] # 0 =>
               f.aggregate["Stats"] = e.aggregate["Stats"]

RepositoryInv == CachesAreSafe /\ NothingWrittenBack /\ StampsTellApart

-------------------------------------------------------------------------------
(* Steps and lists of them                                                  *)

LEMMA StepKinds ==
    ASSUME NEW h \in SafeStep
    PROVE  /\ h.step \in {"read", "flush", "evict"} => h \in ReadStep
           /\ h.step \in {"commit", "claim"} => h \in CommitStep
           /\ h.step = "settle" => h \in SettleStep
           /\ h.step = "mutate" => h \in MutateStep
           /\ h.step \in {"load", "load_or_insert"} => h \in LoadStep
           /\ h.step \in {"insert", "or_insert"} => h \in InsertStep
           /\ h.step \in {"put", "or_put"} => h \in PutStep
           /\ h.step = "snapshot" => h \in SnapshotStep
           /\ h.step = "save" => h \in SaveStep
           /\ h.step = "mark" => h \in MarkStep
  BY DEF SafeStep, ReadStep, CommitStep, SettleStep, MutateStep, LoadStep, InsertStep, PutStep,
         SnapshotStep, SaveStep, MarkStep

LEMMA Tuples ==
    ASSUME NEW S
    PROVE  /\ \A a \in S : <<a>> \in Seq(S)
           /\ \A a, b \in S : <<a, b>> \in Seq(S)
           /\ \A a, b, c \in S : <<a, b, c>> \in Seq(S)
  OBVIOUS

LEMMA HeadIsSafe ==
    ASSUME CachesAreSafe, NEW t \in Task, todo[t] # <<>>
    PROVE  Head(todo[t]) \in SafeStep /\ HasStep(t, Head(todo[t]))
<1>1. todo[t] \in Seq(SafeStep)
  BY DEF CachesAreSafe
<1>2. Len(todo[t]) \in Nat /\ Len(todo[t]) >= 1 /\ DOMAIN todo[t] = 1..Len(todo[t])
  BY <1>1, EmptySeq, LenProperties
<1>3. Head(todo[t]) = todo[t][1] /\ 1 \in DOMAIN todo[t]
  BY <1>1, <1>2
<1>4. QED
  BY <1>1, <1>2, <1>3, ElementOfSeq DEF HasStep

\* What is to be done after a Goto was to be done before, or is one of its steps.
LEMMA GotoSteps ==
    ASSUME CachesAreSafe, NEW t \in Task, NEW steps \in Seq(SafeStep), todo[t] # <<>>,
           Goto(t, steps)
    PROVE  /\ todo' \in [Task -> Seq(SafeStep)]
           /\ \A o \in Task : o # t => todo'[o] = todo[o]
           /\ \A o \in Task : \A h : HasStep(o, h)' =>
                  HasStep(o, h) \/ \E i \in DOMAIN steps : steps[i] = h
<1>1. todo \in [Task -> Seq(SafeStep)] /\ todo[t] \in Seq(SafeStep)
  BY DEF CachesAreSafe
<1>2. todo' = [todo EXCEPT ![t] = steps \o Tail(todo[t])]
  BY DEF Goto
<1>3. Tail(todo[t]) \in Seq(SafeStep)
  BY <1>1, HeadTailProperties
<1>4. steps \o Tail(todo[t]) \in Seq(SafeStep)
  BY <1>3, ConcatProperties
<1>5. todo'[t] = steps \o Tail(todo[t]) /\ \A o \in Task : o # t => todo'[o] = todo[o]
  BY <1>1, <1>2
<1>6. ASSUME NEW i \in DOMAIN todo'[t]
      PROVE  \/ \E k \in DOMAIN steps : steps[k] = todo'[t][i]
             \/ \E k \in DOMAIN todo[t] : todo[t][k] = todo'[t][i]
  <2>1. /\ DOMAIN steps = 1..Len(steps) /\ Len(steps) \in Nat
        /\ DOMAIN todo[t] = 1..Len(todo[t]) /\ Len(todo[t]) \in Nat
        /\ Len(Tail(todo[t])) = Len(todo[t]) - 1
        /\ \A k \in 1..(Len(todo[t]) - 1) : Tail(todo[t])[k] = todo[t][k + 1]
    BY <1>1, LenProperties, HeadTailProperties
  <2>2. i \in 1..(Len(steps) + Len(todo[t]) - 1)
    BY <1>3, <1>5, <2>1, ConcatProperties, LenProperties
  <2>3. todo'[t][i] = IF i <= Len(steps) THEN steps[i] ELSE Tail(todo[t])[i - Len(steps)]
    BY <1>3, <1>5, <2>1, <2>2, ConcatProperties
  <2>4. CASE i <= Len(steps)
    BY <2>1, <2>2, <2>3, <2>4
  <2>5. CASE i > Len(steps)
    <3>1. i - Len(steps) \in 1..(Len(todo[t]) - 1)
      BY <2>1, <2>2, <2>5
    <3>2. todo'[t][i] = todo[t][(i - Len(steps)) + 1]
      BY <2>1, <2>2, <2>3, <2>5, <3>1
    <3>3. (i - Len(steps)) + 1 \in DOMAIN todo[t]
      BY <2>1, <3>1
    <3>4. QED
      BY <3>2, <3>3
  <2>6. QED
    BY <2>1, <2>2, <2>4, <2>5
<1>7. QED
  BY <1>1, <1>2, <1>4, <1>5, <1>6 DEF HasStep

LEMMA EndSteps ==
    ASSUME CachesAreSafe, NEW t \in Task, End(t)
    PROVE  /\ todo' \in [Task -> Seq(SafeStep)]
           /\ \A o \in Task : o # t => todo'[o] = todo[o]
           /\ \A o \in Task : \A h : HasStep(o, h)' => HasStep(o, h)
<1>1. todo' = [todo EXCEPT ![t] = <<>>] /\ todo \in [Task -> Seq(SafeStep)]
  BY DEF End, CachesAreSafe
<1>2. todo'[t] = <<>> /\ \A o \in Task : o # t => todo'[o] = todo[o]
  BY <1>1
<1>3. QED
  BY <1>1, <1>2, EmptySeq DEF HasStep

\* New copies have clean statistics, or are the one that was just changed.
LEMMA CopiesKeep ==
    ASSUME CachesAreSafe, StampsTellApart, now' \in {now, now + 1}, NEW e0 \in Entry, NEW u0,
           \A u \in UserId, e \in Entry : IsCopy(u, e)' =>
               \/ IsCopy(u, e) \/ e.dirty["Stats"] = 0
               \/ u = u0 /\ e = e0 /\ e.dirty["Stats"] = now + 1 /\ now' = now + 1
    PROVE  StampsTellApart'
<1> DEFINE stats(e) == e.dirty["Stats"]
<1>1. now \in Nat /\ \A e \in Entry : stats(e) \in Nat
  BY DEF CachesAreSafe, Entry, Dirty, DirtyBucket
<1>2. \A u \in UserId, e \in Entry : IsCopy(u, e)' => stats(e) <= now'
  BY <1>1 DEF StampsTellApart
<1>3. ASSUME NEW u \in UserId, NEW e \in Entry, NEW f \in Entry, IsCopy(u, e)', IsCopy(u, f)',
             stats(f) = stats(e), stats(e) # 0
      PROVE  f.aggregate["Stats"] = e.aggregate["Stats"]
  <2>1. CASE IsCopy(u, e) /\ IsCopy(u, f)
    BY <1>3, <2>1 DEF StampsTellApart
  <2>2. CASE ~IsCopy(u, e)
    <3>1. e = e0 /\ u = u0 /\ stats(e) = now + 1
      BY <1>3, <2>2
    <3>2. ~IsCopy(u, f)
      BY <1>1, <1>3, <3>1 DEF StampsTellApart
    <3>3. f = e0
      BY <1>3, <3>2
    <3>4. QED
      BY <3>1, <3>3
  <2>3. CASE ~IsCopy(u, f)
    <3>1. f = e0 /\ u = u0 /\ stats(f) = now + 1
      BY <1>3, <2>3
    <3>2. ~IsCopy(u, e)
      BY <1>1, <1>3, <3>1 DEF StampsTellApart
    <3>3. e = e0
      BY <1>3, <3>2
    <3>4. QED
      BY <3>1, <3>3
  <2>4. QED
    BY <2>1, <2>2, <2>3
<1>4. QED
  BY <1>2, <1>3 DEF StampsTellApart

\* The cache is not changed, or an entry is dropped or replaced by a clean one.
CacheIsCleaner ==
    \A u \in UserId : \/ cache'[u] = cache[u] \/ cache'[u] = None
                      \/ cache'[u] \in Entry /\ cache'[u].dirty["Stats"] = 0

\* What a flush holds is what it held, or a copy of what another one or the cache does.
CopiesAreKept ==
    \A o \in Task, h \in SaveStep \cup MarkStep : HasStep(o, h)' =>
        HasStep(o, h) \/ (h.user \in UserId /\ IsCopy(h.user, h.entry))

\* What only puts off, or drops, what is to be done keeps the copies apart.
LEMMA StepsKeep ==
    ASSUME CachesAreSafe, StampsTellApart, now' = now, CacheIsCleaner, CopiesAreKept
    PROVE  StampsTellApart'
<1>1. now \in Nat
  BY DEF CachesAreSafe
<1> DEFINE e0 == [aggregate |-> [Assets |-> 0, Stats |-> 0], dirty |-> [b \in DirtyBucket |-> 0]]
<1>2. e0 \in Entry
  BY DEF Entry, Aggregate, Dirty, DirtyBucket
<1>3. \A u \in UserId, e \in Entry : IsCopy(u, e)' => IsCopy(u, e) \/ e.dirty["Stats"] = 0
  <2> SUFFICES ASSUME NEW u \in UserId, NEW e \in Entry, IsCopy(u, e)'
               PROVE  IsCopy(u, e) \/ e.dirty["Stats"] = 0
    OBVIOUS
  <2>1. CASE e = cache'[u] /\ e # None
    BY <2>1 DEF IsCopy, CacheIsCleaner
  <2>2. ASSUME NEW o \in Task, NEW h \in SaveStep \cup MarkStep, HasStep(o, h)', h.user = u,
               h.entry = e
        PROVE  IsCopy(u, e)
    BY <2>2 DEF IsCopy, CopiesAreKept
  <2>3. QED
    BY <2>1, <2>2 DEF IsCopy
<1> HIDE DEF e0
<1>4. QED
  BY <1>1, <1>2, <1>3, CopiesKeep

\* Steps that hold no copy of an entry.
QuietStep == ReadStep \cup CommitStep \cup SettleStep \cup MutateStep \cup LoadStep
             \cup InsertStep \cup PutStep \cup SnapshotStep

LEMMA QuietSteps ==
    /\ QuietStep \subseteq SafeStep
    /\ \A h \in QuietStep : h.step \notin {"save", "mark"}
    /\ \A h \in SaveStep \cup MarkStep : h.step \in {"save", "mark"} /\ h.user \in UserId
    /\ \A s \in Seq(QuietStep) : s \in Seq(SafeStep)
<1>1. QuietStep \subseteq SafeStep
  BY DEF QuietStep, SafeStep
<1>2. \A h \in QuietStep : h.step \notin {"save", "mark"}
  BY DEF QuietStep, ReadStep, CommitStep, SettleStep, MutateStep, LoadStep, InsertStep, PutStep,
         SnapshotStep
<1>3. \A h \in SaveStep \cup MarkStep : h.step \in {"save", "mark"} /\ h.user \in UserId
  BY DEF SaveStep, MarkStep
<1>4. \A s \in Seq(QuietStep) : s \in Seq(SafeStep)
  BY <1>1
<1>5. QED
  BY <1>1, <1>2, <1>3, <1>4

\* Only the statistics of a cached entry can be dirty.
LEMMA DirtyIsStats ==
    ASSUME NEW e \in Entry
    PROVE  dirty_buckets(e) \subseteq {"Stats"}
  BY DEF dirty_buckets, Entry, DirtyBucket

LEMMA OperationSteps ==
    ASSUME CachesAreSafe, NEW op \in Operation
    PROVE  op \in Seq(QuietStep)
<1> USE DEF QuietStep
<1>1. \A u \in UserId : Flush(u) \in QuietStep /\ Evict(u) \in QuietStep
  BY DEF Flush, Evict, ReadStep
<1>2. \A u \in UserId, sync \in BOOLEAN : Reload(u, sync) \in QuietStep
  BY DEF Reload, LoadStep
<1>3. \A u \in UserId, k \in Key \cup {None} : Commit(u, k) \in QuietStep
  BY DEF Commit, CommitStep
<1>16. \A u \in UserId, k \in Key : [step |-> "claim", user |-> u, key |-> k] \in QuietStep
  BY DEF CommitStep
<1>4. \A u \in UserId : [step |-> "mutate", user |-> u, loaded |-> FALSE] \in QuietStep
  BY DEF MutateStep
<1>5. \A s \in Settlement : [step |-> "settle", id |-> s] \in QuietStep
  BY DEF SettleStep
<1>6. \A u \in UserId : [step |-> "read", user |-> u] \in QuietStep
  BY DEF ReadStep
<1> HIDE DEF QuietStep
<1>7. \A u \in UserId : GetReadonly(u) \in Seq(QuietStep) /\ FlushPlayer(u) \in Seq(QuietStep)
  BY <1>1, <1>6, Tuples DEF GetReadonly, FlushPlayer
<1>8. \A u \in UserId, k \in Key \cup {None} : SyncWrite(u, k) \in Seq(QuietStep)
  BY <1>1, <1>2, <1>3, Tuples DEF SyncWrite
<1>9. \A u \in UserId, k \in Key \cup {None} : CompleteLevel(u, k) \in Seq(QuietStep)
  BY <1>1, <1>3, Tuples DEF CompleteLevel
<1>10. \A u \in UserId : TriggerQuestEvent(u) \in Seq(QuietStep)
  BY <1>1, <1>3, Tuples DEF TriggerQuestEvent
<1>15. \A u \in UserId, k \in Key : ClaimInbox(u, k) \in Seq(QuietStep)
  BY <1>16, Tuples DEF ClaimInbox
<1>11. \A u \in UserId : BumpStats(u) \in Seq(QuietStep)
  BY <1>2, <1>4, Tuples DEF BumpStats
<1>12. \A s \in Settlement : SettleGame(s) \in Seq(QuietStep)
  <2> TAKE s \in Settlement
  <2>1. Winner[s] \in UserId /\ Loser[s] \in UserId
    BY RepositoryAssumption
  <2>2. <<Flush(Winner[s]), Flush(Loser[s]), [step |-> "settle", id |-> s]>> \in Seq(QuietStep)
    BY <1>1, <1>5, <2>1
  <2>3. BumpStats(Winner[s]) \in Seq(QuietStep) /\ BumpStats(Loser[s]) \in Seq(QuietStep)
    BY <1>11, <2>1
  <2>4. QED
    BY <2>2, <2>3, ConcatProperties DEF SettleGame
<1>13. ASSUME NEW u \in UserId, IsDirty(cache[u]), NEW due \in SUBSET dirty_buckets(cache[u])
       PROVE  TickFlush(u, due) \in Seq(QuietStep)
  <2>1. cache[u] \in Entry
    BY <1>13 DEF IsDirty, CachesAreSafe
  <2>2. due \in SUBSET {"Stats"}
    BY <2>1, DirtyIsStats
  <2>3. [step |-> "snapshot", user |-> u, buckets |-> due] \in QuietStep
    BY <2>2 DEF QuietStep, SnapshotStep
  <2>4. QED
    BY <2>3 DEF TickFlush
<1>14. QED
  BY <1>7, <1>8, <1>9, <1>10, <1>12, <1>13, <1>15
     DEF Operation, Purchase, RedeemInvite, ClaimQuestReward

-------------------------------------------------------------------------------
(* The steps keep the invariant                                             *)

LEMMA QuietGoto ==
    ASSUME CachesAreSafe, StampsTellApart, NEW t \in Task, NEW steps \in Seq(QuietStep),
           todo[t] # <<>>, Goto(t, steps), now' = now, CacheIsCleaner
    PROVE  todo' \in [Task -> Seq(SafeStep)] /\ StampsTellApart'
<1>1. /\ todo' \in [Task -> Seq(SafeStep)]
      /\ \A o \in Task : \A h : HasStep(o, h)' =>
             HasStep(o, h) \/ \E i \in DOMAIN steps : steps[i] = h
  BY QuietSteps, GotoSteps
<1>2. \A i \in DOMAIN steps : steps[i] \in QuietStep
  BY ElementOfSeq, LenProperties
<1>3. \A o \in Task, h \in SaveStep \cup MarkStep : HasStep(o, h)' => HasStep(o, h)
  BY <1>1, <1>2, QuietSteps
<1>4. StampsTellApart'
  <2>1. CopiesAreKept
    BY <1>3 DEF CopiesAreKept
  <2>2. QED
    BY <2>1, StepsKeep
<1>5. QED
  BY <1>1, <1>4

LEMMA QuietEnd ==
    ASSUME CachesAreSafe, StampsTellApart, NEW t \in Task, End(t), now' = now, CacheIsCleaner
    PROVE  todo' \in [Task -> Seq(SafeStep)] /\ StampsTellApart'
<1>1. /\ todo' \in [Task -> Seq(SafeStep)]
      /\ \A o \in Task : \A h : HasStep(o, h)' => HasStep(o, h)
  BY EndSteps
<1>2. StampsTellApart'
  <2>1. CopiesAreKept
    BY <1>1 DEF CopiesAreKept
  <2>2. QED
    BY <2>1, StepsKeep
<1>3. QED
  BY <1>1, <1>2

LEMMA QuietReturn ==
    ASSUME CachesAreSafe, StampsTellApart, NEW t \in Task, todo[t] # <<>>, Return(t),
           now' = now, CacheIsCleaner
    PROVE  todo' \in [Task -> Seq(SafeStep)] /\ StampsTellApart'
<1>1. Goto(t, <<>>) /\ <<>> \in Seq(QuietStep)
  BY EmptySeq DEF Return
<1>2. QED
  BY <1>1, QuietGoto

LEMMA Begin == Init => RepositoryInv
<1> SUFFICES ASSUME Init PROVE RepositoryInv
  OBVIOUS
<1>1. CachesAreSafe
  BY EmptySeq DEF Init, CachesAreSafe, Aggregate
<1>2. NothingWrittenBack
  BY DEF Init, NothingWrittenBack
<1>3. \A u \in UserId : \A e : ~IsCopy(u, e)
  BY DEF Init, IsCopy, HasStep
<1>4. StampsTellApart
  BY <1>3 DEF StampsTellApart
<1>5. QED
  BY <1>1, <1>2, <1>4 DEF RepositoryInv

\* Operations that start, reads and loads, and what ends an operation.
LEMMA ReadsKeep ==
    ASSUME RepositoryInv, NEW t \in Task,
           \/ Start(t) \/ ReadCached(t) \/ LoadAssets(t) \/ LoadStats(t) \/ LoadFails(t)
           \/ Put(t) \/ Remove(t)
    PROVE  RepositoryInv'
<1>0. CachesAreSafe /\ NothingWrittenBack /\ StampsTellApart
  BY DEF RepositoryInv
<1> DEFINE h == Head(todo[t])
<1>1. todo[t] # <<>> => h \in SafeStep
  BY <1>0, HeadIsSafe
<1>2. SUFFICES /\ todo' \in [Task -> Seq(SafeStep)] /\ StampsTellApart'
               /\ cache' \in [UserId -> Entry \cup {None}]
  <2>1. UNCHANGED <<db, committed, now>>
    BY DEF Start, ReadCached, LoadAssets, LoadStats, LoadFails, Put, Remove, dbVars
  <2>2. QED
    BY <1>0, <2>1 DEF RepositoryInv, CachesAreSafe, NothingWrittenBack
<1>3. CASE Start(t)
  <2>1. PICK op \in Operation : todo' = [todo EXCEPT ![t] = op]
    BY <1>3 DEF Start
  <2>2. op \in Seq(QuietStep) /\ todo[t] = <<>> /\ todo \in [Task -> Seq(SafeStep)]
    BY <1>0, <1>3, <2>1, OperationSteps DEF Start, CachesAreSafe
  <2>3. todo' \in [Task -> Seq(SafeStep)]
    BY <2>1, <2>2, QuietSteps
  <2>4. \A i \in DOMAIN op : op[i] \in QuietStep
    BY <2>2, ElementOfSeq, LenProperties
  <2>5. \A o \in Task, g \in SaveStep \cup MarkStep : HasStep(o, g)' => HasStep(o, g)
    BY <2>1, <2>2, <2>4, QuietSteps DEF HasStep
  <2>6. UNCHANGED <<cache, now>>
    BY <1>3 DEF Start
  <2>7. StampsTellApart'
    <3>1. CopiesAreKept /\ CacheIsCleaner
      BY <2>5, <2>6 DEF CopiesAreKept, CacheIsCleaner
    <3>2. QED
      BY <1>0, <2>6, <3>1, StepsKeep
  <2>8. QED
    BY <1>0, <2>3, <2>6, <2>7 DEF CachesAreSafe
<1>4. CASE ReadCached(t)
  <2>1. todo[t] # <<>> /\ h \in ReadStep /\ UNCHANGED <<cache, now>>
    BY <1>1, <1>4, StepKinds DEF ReadCached, Doing
  <2>2. Reload(h.user, FALSE) \in QuietStep
    BY <2>1 DEF Reload, ReadStep, LoadStep, QuietStep
  <2>3. Return(t) \/ Goto(t, <<Reload(h.user, FALSE)>>)
    BY <1>4 DEF ReadCached
  <2>4. CacheIsCleaner
    BY <2>1 DEF CacheIsCleaner
  <2>5. <<Reload(h.user, FALSE)>> \in Seq(QuietStep)
    BY <2>2, Tuples
  <2>6. QED
    BY <1>0, <2>1, <2>3, <2>4, <2>5, QuietReturn, QuietGoto DEF CachesAreSafe
<1>5. CASE LoadAssets(t)
  <2> DEFINE next == [step |-> IF h.step = "load" THEN "insert" ELSE "or_insert",
                      user |-> h.user, sync |-> h.sync, assets |-> db[h.user].Assets]
  <2>1. todo[t] # <<>> /\ h \in LoadStep /\ UNCHANGED <<cache, now>> /\ Goto(t, <<next>>)
    BY <1>1, <1>5, StepKinds DEF LoadAssets, Doing
  <2>2. next \in QuietStep
    <3>1. db[h.user].Assets \in Nat
      BY <1>0, <2>1 DEF CachesAreSafe, LoadStep, Aggregate
    <3>2. next \in InsertStep
      BY <2>1, <3>1 DEF LoadStep, InsertStep
    <3>3. QED
      BY <3>2 DEF QuietStep
  <2> HIDE DEF next
  <2>3. CacheIsCleaner /\ <<next>> \in Seq(QuietStep)
    BY <2>1, <2>2, Tuples DEF CacheIsCleaner
  <2>4. QED
    BY <1>0, <2>1, <2>3, QuietGoto DEF CachesAreSafe
<1>6. CASE LoadStats(t)
  <2> DEFINE next == [step |-> IF h.step = "insert" THEN "put" ELSE "or_put", user |-> h.user,
                      aggregate |-> [Assets |-> h.assets, Stats |-> db[h.user].Stats]]
  <2>1. todo[t] # <<>> /\ h \in InsertStep /\ UNCHANGED <<cache, now>> /\ Goto(t, <<next>>)
    BY <1>1, <1>6, StepKinds DEF LoadStats, Doing
  <2>2. next \in QuietStep
    <3>1. db[h.user].Stats \in Nat
      BY <1>0, <2>1 DEF CachesAreSafe, InsertStep, Aggregate
    <3>2. next \in PutStep
      BY <2>1, <3>1 DEF InsertStep, PutStep, Aggregate
    <3>3. QED
      BY <3>2 DEF QuietStep
  <2> HIDE DEF next
  <2>3. CacheIsCleaner /\ <<next>> \in Seq(QuietStep)
    BY <2>1, <2>2, Tuples DEF CacheIsCleaner
  <2>4. QED
    BY <1>0, <2>1, <2>3, QuietGoto DEF CachesAreSafe
<1>7. CASE LoadFails(t)
  <2>1. todo[t] # <<>> /\ now' = now
        /\ \/ cache' = [cache EXCEPT ![h.user] = None] /\ Return(t)
           \/ End(t) /\ UNCHANGED cache
    BY <1>7 DEF LoadFails, Doing, Fail
  <2>2. CacheIsCleaner /\ cache' \in [UserId -> Entry \cup {None}]
    BY <1>0, <2>1 DEF CacheIsCleaner, CachesAreSafe
  <2>3. QED
    BY <1>0, <2>1, <2>2, QuietReturn, QuietEnd
<1>8. CASE Put(t)
  <2>1. /\ todo[t] # <<>> /\ h \in PutStep /\ now' = now /\ Return(t)
        /\ \/ UNCHANGED cache \/ cache' = [cache EXCEPT ![h.user] = clean(h.aggregate)]
    BY <1>1, <1>8, StepKinds DEF Put, Doing
  <2>2. clean(h.aggregate) \in Entry /\ clean(h.aggregate).dirty["Stats"] = 0
    BY <2>1 DEF clean, Entry, Dirty, DirtyBucket, PutStep
  <2>3. CacheIsCleaner /\ cache' \in [UserId -> Entry \cup {None}]
    BY <1>0, <2>1, <2>2 DEF CacheIsCleaner, CachesAreSafe
  <2>4. QED
    BY <1>0, <2>1, <2>3, QuietReturn
<1>9. CASE Remove(t)
  <2>1. /\ todo[t] # <<>> /\ now' = now /\ Return(t)
        /\ cache' = [cache EXCEPT ![h.user] = None]
    BY <1>9 DEF Remove, Doing
  <2>2. CacheIsCleaner /\ cache' \in [UserId -> Entry \cup {None}]
    BY <1>0, <2>1 DEF CacheIsCleaner, CachesAreSafe
  <2>3. QED
    BY <1>0, <2>1, <2>2, QuietReturn
<1>10. QED
  BY <1>3, <1>4, <1>5, <1>6, <1>7, <1>8, <1>9

\* The steps of a flush.
LEMMA FlushKeeps ==
    ASSUME RepositoryInv, NEW t \in Task,
           \/ FlushStart(t) \/ Snapshot(t) \/ SaveBucket(t) \/ SaveFails(t)
           \/ MarkFlushed(t) \/ FlushEnds(t)
    PROVE  RepositoryInv'
<1>0. CachesAreSafe /\ NothingWrittenBack /\ StampsTellApart
  BY DEF RepositoryInv
<1> DEFINE h == Head(todo[t])
<1>1. todo[t] # <<>>
  BY DEF FlushStart, Snapshot, SaveBucket, SaveFails, MarkFlushed, FlushEnds, Doing
<1>2. h \in SafeStep /\ HasStep(t, h)
  BY <1>0, <1>1, HeadIsSafe
<1>3. committed' = committed /\ now' = now
  BY DEF FlushStart, Snapshot, SaveBucket, SaveFails, MarkFlushed, FlushEnds, dbVars
<1>4. ASSUME todo' \in [Task -> Seq(SafeStep)], StampsTellApart',
             cache' \in [UserId -> Entry \cup {None}], UNCHANGED db
      PROVE  RepositoryInv'
  BY <1>0, <1>3, <1>4 DEF RepositoryInv, CachesAreSafe, NothingWrittenBack
<1>5. ASSUME NEW next \in SaveStep \cup MarkStep, Goto(t, <<next>>), CacheIsCleaner,
             next.user \in UserId, IsCopy(next.user, next.entry)
      PROVE  todo' \in [Task -> Seq(SafeStep)] /\ StampsTellApart'
  <2>1. next \in SafeStep /\ <<next>> \in Seq(SafeStep)
    BY <1>5, Tuples DEF SafeStep
  <2>2. /\ todo' \in [Task -> Seq(SafeStep)]
        /\ \A o \in Task : \A g : HasStep(o, g)' =>
               HasStep(o, g) \/ \E i \in DOMAIN <<next>> : <<next>>[i] = g
    BY <1>0, <1>1, <1>5, <2>1, GotoSteps
  <2>3. \A i \in DOMAIN <<next>> : <<next>>[i] = next
    OBVIOUS
  <2>4. CopiesAreKept
    BY <1>5, <2>2, <2>3 DEF CopiesAreKept
  <2>5. QED
    BY <1>0, <1>3, <1>5, <2>2, <2>4, StepsKeep
<1>6. CASE FlushStart(t)
  <2> DEFINE next == [step |-> "snapshot", user |-> h.user,
                      buckets |-> dirty_buckets(cache[h.user])]
  <2>1. /\ h \in ReadStep /\ UNCHANGED <<cache, db>>
        /\ \/ Return(t)
           \/ IsDirty(cache[h.user]) /\ Goto(t, <<next>>)
    BY <1>2, <1>6, StepKinds DEF FlushStart, Doing, dbVars
  <2>2. CacheIsCleaner /\ cache' \in [UserId -> Entry \cup {None}]
    BY <1>0, <2>1 DEF CacheIsCleaner, CachesAreSafe
  <2>3. CASE Return(t)
    BY <1>0, <1>1, <1>3, <1>4, <2>1, <2>2, <2>3, QuietReturn
  <2>4. CASE IsDirty(cache[h.user]) /\ Goto(t, <<next>>)
    <3>1. h.user \in UserId /\ cache[h.user] \in Entry
      BY <1>0, <2>1, <2>4 DEF ReadStep, IsDirty, CachesAreSafe
    <3>2. next \in SnapshotStep
      BY <3>1, DirtyIsStats DEF SnapshotStep
    <3> HIDE DEF next
    <3>3. <<next>> \in Seq(QuietStep)
      BY <3>2, Tuples DEF QuietStep
    <3>4. QED
      BY <1>0, <1>1, <1>3, <1>4, <2>1, <2>2, <2>4, <3>3, QuietGoto
  <2>5. QED
    BY <2>1, <2>3, <2>4
<1>7. CASE Snapshot(t)
  <2> DEFINE next == [step |-> "save", user |-> h.user, buckets |-> h.buckets,
                      entry |-> cache[h.user], failed |-> FALSE]
  <2>1. /\ h \in SnapshotStep /\ UNCHANGED <<cache, db>>
        /\ \/ Return(t)
           \/ cache[h.user] # None /\ Goto(t, <<next>>)
    BY <1>2, <1>7, StepKinds DEF Snapshot, Doing, dbVars
  <2>2. CacheIsCleaner /\ cache' \in [UserId -> Entry \cup {None}]
    BY <1>0, <2>1 DEF CacheIsCleaner, CachesAreSafe
  <2>3. CASE Return(t)
    BY <1>0, <1>1, <1>3, <1>4, <2>1, <2>2, <2>3, QuietReturn
  <2>4. CASE cache[h.user] # None /\ Goto(t, <<next>>)
    <3>1. h.user \in UserId /\ cache[h.user] \in Entry
      BY <1>0, <2>1, <2>4 DEF SnapshotStep, CachesAreSafe
    <3>2. next \in SaveStep /\ next.user = h.user /\ next.entry = cache[h.user]
      BY <2>1, <3>1 DEF SaveStep, SnapshotStep
    <3> HIDE DEF next
    <3>3. IsCopy(next.user, next.entry)
      BY <2>4, <3>2 DEF IsCopy
    <3>4. QED
      BY <1>4, <1>5, <2>1, <2>2, <2>4, <3>1, <3>2, <3>3
  <2>5. QED
    BY <2>1, <2>3, <2>4
<1>8. CASE SaveBucket(t)
  <2> DEFINE next(b) == [step |-> "mark", user |-> h.user, buckets |-> h.buckets \ {b},
                         entry |-> h.entry, failed |-> h.failed, bucket |-> b]
  <2>1. h \in SaveStep /\ UNCHANGED cache
    BY <1>2, <1>8, StepKinds DEF SaveBucket, Doing
  <2>2. PICK b \in h.buckets :
            /\ db' = [db EXCEPT ![h.user] = Written(@, b, h.entry.aggregate)]
            /\ Goto(t, <<next(b)>>)
    BY <1>8 DEF SaveBucket
  <2>3. b = "Stats" /\ h.user \in UserId /\ h.entry \in Entry
    BY <2>1, <2>2 DEF SaveStep
  <2>4. next(b) \in MarkStep /\ next(b).user = h.user /\ next(b).entry = h.entry
    BY <2>1, <2>3 DEF SaveStep, MarkStep
  <2> HIDE DEF next
  <2>5. IsCopy(h.user, h.entry)
    BY <1>2, <2>1 DEF IsCopy
  <2>6. CacheIsCleaner
    BY <2>1 DEF CacheIsCleaner
  <2>7. todo' \in [Task -> Seq(SafeStep)] /\ StampsTellApart'
    BY <1>5, <2>2, <2>3, <2>4, <2>5, <2>6
  <2>8. Written(db[h.user], b, h.entry.aggregate) \in Aggregate
        /\ Written(db[h.user], b, h.entry.aggregate).Assets = db[h.user].Assets
    BY <1>0, <2>3 DEF CachesAreSafe, Aggregate, Entry, Written
  <2>9. db' \in [UserId -> Aggregate] /\ \A u \in UserId : db'[u].Assets = db[u].Assets
    BY <1>0, <2>2, <2>3, <2>8 DEF CachesAreSafe
  <2>10. QED
    BY <1>0, <1>3, <2>1, <2>7, <2>9 DEF RepositoryInv, CachesAreSafe, NothingWrittenBack
<1>9. CASE SaveFails(t)
  <2> DEFINE next(b) == [h EXCEPT !.buckets = @ \ {b}, !.failed = TRUE]
  <2>1. h \in SaveStep /\ UNCHANGED <<cache, db>>
    BY <1>2, <1>9, StepKinds DEF SaveFails, Doing, dbVars
  <2>2. PICK b \in h.buckets : Goto(t, <<next(b)>>)
    BY <1>9 DEF SaveFails
  <2>3. next(b) \in SaveStep /\ next(b).user = h.user /\ next(b).entry = h.entry
        /\ h.user \in UserId
    BY <2>1 DEF SaveStep
  <2> HIDE DEF next
  <2>4. IsCopy(h.user, h.entry)
    BY <1>2, <2>1 DEF IsCopy
  <2>5. CacheIsCleaner /\ cache' \in [UserId -> Entry \cup {None}]
    BY <1>0, <2>1 DEF CacheIsCleaner, CachesAreSafe
  <2>6. QED
    BY <1>4, <1>5, <2>1, <2>2, <2>3, <2>4, <2>5
<1>10. CASE MarkFlushed(t)
  <2> DEFINE next == [step |-> "save", user |-> h.user, buckets |-> h.buckets,
                      entry |-> h.entry, failed |-> h.failed]
  <2>1. /\ h \in MarkStep /\ UNCHANGED db /\ Goto(t, <<next>>)
        /\ \/ UNCHANGED cache
           \/ /\ cache[h.user] # None
              /\ cache' = [cache EXCEPT ![h.user].dirty[h.bucket] = 0]
    BY <1>2, <1>10, StepKinds DEF MarkFlushed, Doing, dbVars, Unchanged
  <2>2. next \in SaveStep /\ next.user = h.user /\ next.entry = h.entry /\ h.user \in UserId
        /\ h.bucket = "Stats"
    BY <2>1 DEF SaveStep, MarkStep
  <2> HIDE DEF next
  <2>3. IsCopy(h.user, h.entry)
    BY <1>2, <2>1 DEF IsCopy
  <2>4. CacheIsCleaner /\ cache' \in [UserId -> Entry \cup {None}]
    <3>1. CASE UNCHANGED cache
      BY <1>0, <3>1 DEF CacheIsCleaner, CachesAreSafe
    <3>2. CASE cache[h.user] # None /\ cache' = [cache EXCEPT ![h.user].dirty[h.bucket] = 0]
      <4> DEFINE e == [cache[h.user] EXCEPT !.dirty["Stats"] = 0]
      <4>1. cache[h.user] \in Entry
        BY <1>0, <2>2, <3>2 DEF CachesAreSafe
      <4>2. e \in Entry /\ e.dirty["Stats"] = 0
        BY <4>1 DEF Entry, Dirty, DirtyBucket
      <4>3. cache' = [cache EXCEPT ![h.user] = e]
        BY <2>2, <3>2
      <4> HIDE DEF e
      <4>4. QED
        BY <1>0, <4>2, <4>3 DEF CacheIsCleaner, CachesAreSafe
    <3>3. QED
      BY <2>1, <3>1, <3>2
  <2>5. QED
    BY <1>4, <1>5, <2>1, <2>2, <2>3, <2>4
<1>11. CASE FlushEnds(t)
  <2>1. UNCHANGED <<cache, db>> /\ (End(t) \/ Return(t))
    BY <1>11 DEF FlushEnds, Fail, dbVars
  <2>2. CacheIsCleaner /\ cache' \in [UserId -> Entry \cup {None}]
    BY <1>0, <2>1 DEF CacheIsCleaner, CachesAreSafe
  <2>3. QED
    BY <1>0, <1>1, <1>3, <1>4, <2>1, <2>2, QuietReturn, QuietEnd
<1>12. QED
  BY <1>6, <1>7, <1>8, <1>9, <1>10, <1>11

\* Changes in the cache, transactions and the end of the process.
LEMMA ChangesKeep ==
    ASSUME RepositoryInv, NEW t \in Task,
           \/ Mutate(t) \/ MutateMissing(t) \/ CommitTx(t) \/ SettleTx(t) \/ TxRefused(t)
    PROVE  RepositoryInv'
<1>0. CachesAreSafe /\ NothingWrittenBack /\ StampsTellApart
  BY DEF RepositoryInv
<1> DEFINE h == Head(todo[t])
<1>1. todo[t] # <<>>
  BY DEF Mutate, MutateMissing, CommitTx, SettleTx, TxRefused, Doing
<1>2. h \in SafeStep /\ HasStep(t, h)
  BY <1>0, <1>1, HeadIsSafe
<1>3. CASE Mutate(t)
  <2> DEFINE u0 == h.user
             e0 == [aggregate |-> [cache[u0].aggregate EXCEPT !.Stats = @ + 1],
                    dirty |-> [b \in DirtyBucket |->
                                  IF b \in BumpBuckets THEN now + 1 ELSE cache[u0].dirty[b]]]
             next == [step |-> "snapshot", user |-> u0, buckets |-> dirty_buckets(e0)]
  <2>1. /\ h \in MutateStep /\ cache[u0] # None /\ cache' = [cache EXCEPT ![u0] = e0]
        /\ Goto(t, <<next>>) \/ Return(t)
        /\ now' = now + 1 /\ UNCHANGED <<db, committed>>
    BY <1>2, <1>3, StepKinds DEF Mutate, Doing, dbVars
  <2>2. u0 \in UserId /\ cache[u0] \in Entry /\ now \in Nat
    BY <1>0, <2>1 DEF MutateStep, CachesAreSafe
  <2>3. e0 \in Entry /\ e0.dirty["Stats"] = now + 1
    <3>1. /\ cache[u0].aggregate \in Aggregate
          /\ cache[u0].dirty \in Dirty /\ cache[u0].dirty["Assets"] = 0
      BY <2>2 DEF Entry
    <3>2. e0.aggregate \in Aggregate
      BY <3>1 DEF Aggregate
    <3>3. e0.dirty \in Dirty /\ e0.dirty["Stats"] = now + 1 /\ e0.dirty["Assets"] = 0
      BY <2>2, <3>1 DEF Dirty, DirtyBucket, BumpBuckets
    <3>4. e0 \in [aggregate : Aggregate, dirty : Dirty]
      BY <3>2, <3>3
    <3>5. QED
      BY <3>3, <3>4 DEF Entry
  <2>4. next \in QuietStep
    BY <2>2, <2>3, DirtyIsStats DEF QuietStep, SnapshotStep
  <2> HIDE DEF e0, next
  <2>5. <<next>> \in Seq(QuietStep) /\ <<>> \in Seq(QuietStep)
    BY <2>4, Tuples, EmptySeq
  <2>6. PICK steps \in Seq(QuietStep) : Goto(t, steps)
    BY <2>1, <2>5 DEF Return
  <2>7. /\ todo' \in [Task -> Seq(SafeStep)]
        /\ \A o \in Task : \A g : HasStep(o, g)' =>
               HasStep(o, g) \/ \E i \in DOMAIN steps : steps[i] = g
    BY <1>0, <1>1, <2>6, QuietSteps, GotoSteps
  <2>8. \A i \in DOMAIN steps : steps[i] \in QuietStep
    BY ElementOfSeq, LenProperties
  <2>9. \A o \in Task, g \in SaveStep \cup MarkStep : HasStep(o, g)' => HasStep(o, g)
    BY <2>7, <2>8, QuietSteps
  <2>10. \A u \in UserId, e \in Entry : IsCopy(u, e)' => IsCopy(u, e) \/ (u = u0 /\ e = e0)
    <3> SUFFICES ASSUME NEW u \in UserId, NEW e \in Entry, IsCopy(u, e)'
                 PROVE  IsCopy(u, e) \/ (u = u0 /\ e = e0)
      OBVIOUS
    <3>1. CASE e = cache'[u] /\ e # None
      <4>1. CASE u = u0
        BY <1>0, <2>1, <2>2, <3>1, <4>1 DEF CachesAreSafe
      <4>2. CASE u # u0
        BY <1>0, <2>1, <3>1, <4>2 DEF CachesAreSafe, IsCopy
      <4>3. QED
        BY <4>1, <4>2
    <3>2. ASSUME NEW o \in Task, NEW g \in SaveStep \cup MarkStep, HasStep(o, g)', g.user = u,
                 g.entry = e
          PROVE  IsCopy(u, e)
      BY <2>9, <3>2 DEF IsCopy
    <3>3. QED
      BY <3>1, <3>2 DEF IsCopy
  <2>11. StampsTellApart'
    <3> HIDE DEF u0
    <3>1. \A u \in UserId, e \in Entry : IsCopy(u, e)' =>
              \/ IsCopy(u, e) \/ e.dirty["Stats"] = 0
              \/ u = u0 /\ e = e0 /\ e.dirty["Stats"] = now + 1 /\ now' = now + 1
      BY <2>1, <2>3, <2>10
    <3>2. /\ CachesAreSafe /\ StampsTellApart /\ now' \in {now, now + 1} /\ e0 \in Entry
      BY <1>0, <2>1, <2>3
    <3>3. QED
      BY ONLY <3>1, <3>2, CopiesKeep
  <2>12. cache' \in [UserId -> Entry \cup {None}] /\ now' \in Nat
    BY <1>0, <2>1, <2>2, <2>3 DEF CachesAreSafe
  <2>13. QED
    BY <1>0, <2>1, <2>7, <2>11, <2>12 DEF RepositoryInv, CachesAreSafe, NothingWrittenBack
<1>4. CASE MutateMissing(t)
  <2> DEFINE load == [step |-> "load_or_insert", user |-> h.user, sync |-> FALSE]
             again == [h EXCEPT !.loaded = TRUE]
  <2>1. /\ h \in MutateStep /\ UNCHANGED <<cache, db, committed, now>>
        /\ Goto(t, <<load, again>>) \/ End(t)
    BY <1>2, <1>4, StepKinds DEF MutateMissing, Doing, Fail, dbVars
  <2>2. load \in LoadStep /\ again \in MutateStep
    BY <2>1 DEF LoadStep, MutateStep
  <2> HIDE DEF load, again
  <2>3. <<load, again>> \in Seq(QuietStep)
    BY <2>2, Tuples DEF QuietStep
  <2>4. CacheIsCleaner
    BY <2>1 DEF CacheIsCleaner
  <2>5. todo' \in [Task -> Seq(SafeStep)] /\ StampsTellApart'
    BY <1>0, <1>1, <2>1, <2>3, <2>4, QuietGoto, QuietEnd
  <2>6. QED
    BY <1>0, <2>1, <2>5 DEF RepositoryInv, CachesAreSafe, NothingWrittenBack
<1>5. ASSUME NEW U \in SUBSET UserId, Changed(U), Return(t), UNCHANGED <<cache, now>>
      PROVE  RepositoryInv'
  <2>1. CacheIsCleaner
    BY <1>5 DEF CacheIsCleaner
  <2>2. todo' \in [Task -> Seq(SafeStep)] /\ StampsTellApart'
    BY <1>0, <1>1, <1>5, <2>1, QuietReturn
  <2>3. /\ \A u \in UserId : db[u] \in Aggregate /\ committed[u] \in Nat
        /\ db' = [u \in UserId |-> IF u \in U THEN [db[u] EXCEPT !.Assets = @ + 1] ELSE db[u]]
        /\ committed' = [u \in UserId |-> IF u \in U THEN committed[u] + 1 ELSE committed[u]]
    BY <1>0, <1>5 DEF CachesAreSafe, Changed
  <2>4. ASSUME NEW u \in UserId
        PROVE  /\ [db[u] EXCEPT !.Assets = @ + 1] \in Aggregate
               /\ [db[u] EXCEPT !.Assets = @ + 1].Assets = db[u].Assets + 1
    BY <2>3 DEF Aggregate
  <2>5. db' \in [UserId -> Aggregate] /\ committed' \in [UserId -> Nat]
    BY <2>3, <2>4
  <2>6. NothingWrittenBack'
    BY <1>0, <2>3, <2>4 DEF NothingWrittenBack
  <2>7. QED
    BY <1>0, <1>5, <2>2, <2>5, <2>6 DEF RepositoryInv, CachesAreSafe
<1>6. CASE CommitTx(t)
  <2>1. /\ h \in CommitStep /\ Changed({h.user}) /\ Return(t) /\ UNCHANGED <<cache, now>>
    BY <1>2, <1>6, StepKinds DEF CommitTx, Doing
  <2>2. {h.user} \in SUBSET UserId
    BY <2>1 DEF CommitStep
  <2>3. QED
    BY <1>5, <2>1, <2>2
<1>7. CASE SettleTx(t)
  <2>1. /\ h \in SettleStep /\ Changed({Winner[h.id], Loser[h.id]}) /\ Return(t)
        /\ UNCHANGED <<cache, now>>
    BY <1>2, <1>7, StepKinds DEF SettleTx, Doing
  <2>2. {Winner[h.id], Loser[h.id]} \in SUBSET UserId
    BY <2>1, RepositoryAssumption DEF SettleStep
  <2>3. QED
    BY <1>5, <2>1, <2>2
<1>8. CASE TxRefused(t)
  <2>1. End(t) /\ UNCHANGED <<cache, db, committed, now>>
    BY <1>8 DEF TxRefused, dbVars
  <2>2. CacheIsCleaner
    BY <2>1 DEF CacheIsCleaner
  <2>3. todo' \in [Task -> Seq(SafeStep)] /\ StampsTellApart'
    BY <1>0, <2>1, <2>2, QuietEnd
  <2>4. QED
    BY <1>0, <2>1, <2>3 DEF RepositoryInv, CachesAreSafe, NothingWrittenBack
<1>9. QED
  BY <1>3, <1>4, <1>6, <1>7, <1>8

LEMMA CrashKeeps ==
    ASSUME RepositoryInv, Crash
    PROVE  RepositoryInv'
<1>0. CachesAreSafe /\ NothingWrittenBack /\ StampsTellApart
  BY DEF RepositoryInv
<1>1. /\ cache' = [u \in UserId |-> None] /\ todo' = [o \in Task |-> <<>>]
      /\ UNCHANGED <<db, committed, now>>
  BY DEF Crash, dbVars
<1>2. todo' \in [Task -> Seq(SafeStep)] /\ cache' \in [UserId -> Entry \cup {None}]
  BY <1>1, EmptySeq
<1>3. \A u \in UserId : \A e : ~(IsCopy(u, e)')
  BY <1>1 DEF IsCopy, HasStep
<1>4. StampsTellApart'
  BY <1>3 DEF StampsTellApart
<1>5. QED
  BY <1>0, <1>1, <1>2, <1>4 DEF RepositoryInv, CachesAreSafe, NothingWrittenBack

LEMMA Keeps == RepositoryInv /\ [Next]_vars => RepositoryInv'
<1> SUFFICES ASSUME RepositoryInv, [Next]_vars PROVE RepositoryInv'
  OBVIOUS
<1>1. CASE Crash
  BY <1>1, CrashKeeps
<1>2. ASSUME NEW t \in Task,
             \/ Start(t) \/ ReadCached(t) \/ LoadAssets(t) \/ LoadStats(t) \/ LoadFails(t)
             \/ Put(t) \/ Remove(t)
      PROVE  RepositoryInv'
  BY <1>2, ReadsKeep
<1>3. ASSUME NEW t \in Task,
             \/ FlushStart(t) \/ Snapshot(t) \/ SaveBucket(t) \/ SaveFails(t)
             \/ MarkFlushed(t) \/ FlushEnds(t)
      PROVE  RepositoryInv'
  BY <1>3, FlushKeeps
<1>4. ASSUME NEW t \in Task,
             \/ Mutate(t) \/ MutateMissing(t) \/ CommitTx(t) \/ SettleTx(t) \/ TxRefused(t)
      PROVE  RepositoryInv'
  BY <1>4, ChangesKeep
<1>5. CASE UNCHANGED vars
  BY <1>5 DEF vars, dbVars, RepositoryInv, CachesAreSafe, NothingWrittenBack, StampsTellApart,
              IsCopy, HasStep
<1>6. QED
  BY <1>1, <1>2, <1>3, <1>4, <1>5 DEF Next

\* The inductive invariant: only statistics are ever dirty or written back, and
\* changed_at tells the copies of them apart.
THEOREM RepositoryInvariant == Spec => []RepositoryInv
<1>1. Init => RepositoryInv
  BY Begin
<1>2. RepositoryInv /\ [Next]_vars => RepositoryInv'
  BY Keeps
<1>3. QED
  BY <1>1, <1>2, PTL DEF Spec

\* A flush never undoes what a transaction has given or taken.
THEOREM AssetsAreKept == Spec => []NothingWrittenBack
<1>1. RepositoryInv => NothingWrittenBack
  BY DEF RepositoryInv
<1>2. QED
  BY <1>1, RepositoryInvariant, PTL

\* A step of one future leaves what others have to do alone, and only MarkFlushed
\* of a future goes on from a mark.
LEMMA MarkedByItself ==
    ASSUME RepositoryInv, NEW o \in Task, NEW t \in Task, Doing(t, {"mark"}),
           todo'[t] # todo[t],
           \/ Start(o)
           \/ ReadCached(o) \/ LoadAssets(o) \/ LoadStats(o) \/ LoadFails(o)
           \/ Put(o) \/ Remove(o)
           \/ Mutate(o) \/ MutateMissing(o)
           \/ FlushStart(o) \/ Snapshot(o) \/ SaveBucket(o) \/ SaveFails(o)
           \/ MarkFlushed(o) \/ FlushEnds(o)
           \/ CommitTx(o) \/ SettleTx(o) \/ TxRefused(o)
    PROVE  MarkFlushed(t)
<1>1. todo \in [Task -> Seq(SafeStep)]
  BY DEF RepositoryInv, CachesAreSafe
<1>2. \A steps : Goto(o, steps) => o = t
  BY <1>1 DEF Goto
<1>3. End(o) => o = t
  BY <1>1 DEF End
<1>4. Return(o) => o = t
  BY <1>2 DEF Return
<1>5. Head(todo[t]).step = "mark" /\ todo[t] # <<>>
  BY DEF Doing
<1>6. CASE Start(o)
  <2>1. PICK op \in Operation : todo' = [todo EXCEPT ![o] = op]
    BY <1>6 DEF Start
  <2>2. o = t
    BY <1>1, <2>1
  <2>3. QED
    BY <1>5, <1>6, <2>2 DEF Start
<1>7. CASE ReadCached(o) \/ LoadAssets(o) \/ LoadStats(o) \/ LoadFails(o) \/ Put(o) \/ Remove(o)
  <2>1. o = t
    BY <1>2, <1>3, <1>4, <1>7
       DEF ReadCached, LoadAssets, LoadStats, LoadFails, Put, Remove, Fail
  <2>2. QED
    BY <1>5, <1>7, <2>1 DEF ReadCached, LoadAssets, LoadStats, LoadFails, Put, Remove, Doing
<1>8. CASE Mutate(o) \/ MutateMissing(o) \/ CommitTx(o) \/ SettleTx(o) \/ TxRefused(o)
  <2>1. o = t
    BY <1>2, <1>3, <1>4, <1>8 DEF Mutate, MutateMissing, CommitTx, SettleTx, TxRefused, Fail
  <2>2. QED
    BY <1>5, <1>8, <2>1 DEF Mutate, MutateMissing, CommitTx, SettleTx, TxRefused, Doing
<1>9. CASE FlushStart(o) \/ Snapshot(o) \/ SaveBucket(o) \/ SaveFails(o) \/ FlushEnds(o)
  <2>1. o = t
    BY <1>2, <1>3, <1>4, <1>9 DEF FlushStart, Snapshot, SaveBucket, SaveFails, FlushEnds, Fail
  <2>2. QED
    BY <1>5, <1>9, <2>1 DEF FlushStart, Snapshot, SaveBucket, SaveFails, FlushEnds, Doing
<1>10. CASE MarkFlushed(o)
  <2>1. o = t
    BY <1>2, <1>10 DEF MarkFlushed
  <2>2. QED
    BY <1>10, <2>1
<1>11. QED
  BY <1>6, <1>7, <1>8, <1>9, <1>10

\* What a flush marks as clean is what it has written.
LEMMA MarksKeep ==
    ASSUME RepositoryInv, Next, NEW t \in Task, Doing(t, {"mark"}), todo'[t] # todo[t],
           NEW h, h = Head(todo[t]),
           cache'[h.user] # None, cache'[h.user] # cache[h.user]
    PROVE  cache[h.user].aggregate[h.bucket] = h.entry.aggregate[h.bucket]
<1>0. CachesAreSafe /\ StampsTellApart
  BY DEF RepositoryInv
<1>1. h \in MarkStep /\ HasStep(t, h)
  BY <1>0, HeadIsSafe, StepKinds DEF Doing
<1>2. h.user \in UserId /\ h.bucket = "Stats" /\ h.entry \in Entry
  BY <1>1 DEF MarkStep
<1>3. ~Crash
  BY <1>2 DEF Crash
<1>4. MarkFlushed(t)
  BY <1>3, MarkedByItself DEF Next
<1>5. Unchanged(cache[h.user], h)
  BY <1>4 DEF MarkFlushed
<1>6. /\ cache[h.user] \in Entry /\ cache[h.user] # None
      /\ cache[h.user].dirty["Stats"] # 0
      /\ cache[h.user].dirty["Stats"] = h.entry.dirty["Stats"]
  BY <1>0, <1>2, <1>5 DEF Unchanged, CachesAreSafe
<1>7. IsCopy(h.user, h.entry) /\ IsCopy(h.user, cache[h.user])
  BY <1>1, <1>6 DEF IsCopy
<1>8. QED
  BY <1>0, <1>2, <1>6, <1>7 DEF StampsTellApart

\* A bucket that changed while a flush wrote it stays dirty: what becomes clean
\* is what the flush has written, whatever other futures do meanwhile.
THEOREM ChangesStayDirty == Spec => MarkedIsWritten
<1>1. RepositoryInv /\ [Next]_vars =>
        [\A t \in Task :
            LET h == Head(todo[t])
                before == cache[h.user]
                after == cache'[h.user]
            IN Doing(t, {"mark"}) /\ todo'[t] # todo[t] /\ after # None /\ after # before =>
                   before.aggregate[h.bucket] = h.entry.aggregate[h.bucket]]_vars
  BY MarksKeep
<1>2. QED
  BY <1>1, RepositoryInvariant, PTL DEF Spec, MarkedIsWritten

-------------------------------------------------------------------------------
(* What a future has still to do, as a set                                    *)

StepsOf(s) == {s[i] : i \in DOMAIN s}
After(s, n) == {s[i] : i \in (n + 1)..Len(s)}
Rest(s) == StepsOf(Tail(s))

Bumps(R, u) == \E x \in R : x.step = "mutate" /\ x.user = u
Loads(R, u) == \E x \in R : x.step = "load" /\ x.user = u
HasTransaction(R) == \E x \in R : x.step \in {"commit", "claim", "settle"}

\* What BumpStats does, or the rest of it: who is loaded is counted.
OnlyBumps(R) == \A x \in R : /\ x.step \in {"load", "mutate"}
                             /\ x.step = "load" => ~x.sync /\ Bumps(R, x.user)

Flushing == {"flush", "snapshot", "save", "mark"}
Loading == {"read", "load", "insert", "put", "load_or_insert", "or_insert", "or_put"}
Waiting == {"flush", "commit", "settle", "mutate", "load", "evict"}
Players(s) == {Winner[s], Loser[s]}

\* Step h comes before the steps R in one of the operations, or what has become of it.
Fits(h, R) ==
    /\ \A x \in R : x.step \in Waiting
    /\ h.step \in Flushing => HasTransaction(R) \/ OnlyBumps(R)
    /\ h.step \in Loading => OnlyBumps(R)
    /\ h.step = "commit" => R = {Reload(h.user, TRUE)} \/ R = {Evict(h.user)}
    /\ h.step = "settle" => /\ OnlyBumps(R)
                            /\ \A u \in UserId : Bumps(R, u) <=> u \in Players(h.id)
                            /\ \A u \in Players(h.id) : Loads(R, u)
    /\ h.step = "mutate" => OnlyBumps(R) /\ \A x \in R : x.user # h.user
    /\ h.step \in {"evict", "claim"} => R = {}

WellFormed(s) == \A n \in DOMAIN s : Fits(s[n], After(s, n))
ListsFit == \A t \in Task : WellFormed(todo[t])

LEMMA NoSteps ==
    StepsOf(<<>>) = {} /\ WellFormed(<<>>)
<1>1. DOMAIN <<>> = {}
  OBVIOUS
<1>2. QED
  BY <1>1 DEF StepsOf, WellFormed

LEMMA Pairs ==
    ASSUME NEW S, NEW x \in S, NEW y \in S
    PROVE  <<x>> \in Seq(S) /\ <<y>> \in Seq(S) /\ <<x, y>> = <<x>> \o <<y>>
<1>1. /\ <<x>> \in Seq(S) /\ Len(<<x>>) = 1 /\ <<x>>[1] = x
      /\ <<y>> \in Seq(S) /\ Len(<<y>>) = 1 /\ <<y>>[1] = y
      /\ <<x, y>> \in Seq(S) /\ Len(<<x, y>>) = 2 /\ <<x, y>>[1] = x /\ <<x, y>>[2] = y
  OBVIOUS
<1> DEFINE a == <<x>>
           b == <<y>>
<1> HIDE DEF a, b
<1>2. a \in Seq(S) /\ Len(a) = 1 /\ a[1] = x /\ b \in Seq(S) /\ Len(b) = 1 /\ b[1] = y
  BY <1>1 DEF a, b
<1>3. /\ a \o b \in Seq(S) /\ Len(a \o b) = 2
      /\ \A i \in 1..2 : (a \o b)[i] = IF i <= 1 THEN a[i] ELSE b[i - 1]
  BY <1>2, ConcatProperties
<1>4. (a \o b)[1] = x /\ (a \o b)[2] = y
  BY <1>2, <1>3
<1>5. ASSUME NEW i \in 1..2 PROVE <<x, y>>[i] = (a \o b)[i]
  <2>1. CASE i = 1
    BY <1>4, <2>1
  <2>2. CASE i = 2
    BY <1>4, <2>2
  <2>3. i = 1 \/ i = 2
    OBVIOUS
  <2>4. QED
    BY <2>1, <2>2, <2>3, Zenon
<1>6. <<x, y>> = a \o b
  BY <1>1, <1>3, <1>5, SeqEqual
<1>7. QED
  BY <1>1, <1>6 DEF a, b

\* List s of steps in S has x, or x and y, or x, y and z, before list T.
OneBefore(S, s, x, T) ==
    /\ s \in Seq(S)
    /\ StepsOf(s) = {x} \cup StepsOf(T)
    /\ WellFormed(s) <=> WellFormed(T) /\ Fits(x, StepsOf(T))
TwoBefore(S, s, x, y, T) ==
    /\ s \in Seq(S)
    /\ StepsOf(s) = {x, y} \cup StepsOf(T)
    /\ WellFormed(s) <=> WellFormed(T) /\ Fits(y, StepsOf(T)) /\ Fits(x, {y} \cup StepsOf(T))
ThreeBefore(S, s, x, y, z, T) ==
    /\ s \in Seq(S)
    /\ StepsOf(s) = {x, y, z} \cup StepsOf(T)
    /\ WellFormed(s) <=>
           /\ WellFormed(T) /\ Fits(z, StepsOf(T)) /\ Fits(y, {z} \cup StepsOf(T))
           /\ Fits(x, {y, z} \cup StepsOf(T))

LEMMA PutBefore ==
    ASSUME NEW S, NEW x \in S, NEW T \in Seq(S), NEW s, s = <<x>> \o T
    PROVE  OneBefore(S, s, x, T)
<1>1. /\ s \in Seq(S) /\ Len(s) = Len(T) + 1 /\ Len(T) \in Nat
      /\ DOMAIN s = 1..Len(s) /\ DOMAIN T = 1..Len(T)
      /\ s[1] = x /\ \A i \in 1..Len(T) : s[i + 1] = T[i]
  <2>1. <<x>> \in Seq(S) /\ Len(<<x>>) = 1 /\ <<x>>[1] = x
    OBVIOUS
  <2>2. s \in Seq(S) /\ Len(s) = Len(T) + 1 /\ Len(T) \in Nat
        /\ DOMAIN s = 1..Len(s) /\ DOMAIN T = 1..Len(T)
    BY <2>1, ConcatProperties, LenProperties
  <2>3. \A i \in 1..Len(s) : s[i] = IF i <= 1 THEN <<x>>[i] ELSE T[i - 1]
    BY <2>1, <2>2, ConcatProperties
  <2>4. s[1] = x
    BY <2>1, <2>2, <2>3
  <2>5. ASSUME NEW i \in 1..Len(T) PROVE s[i + 1] = T[i]
    <3>1. i + 1 \in 1..Len(s) /\ ~(i + 1 <= 1) /\ (i + 1) - 1 = i
      BY <2>2
    <3>2. QED
      BY <2>3, <3>1
  <2>6. QED
    BY <2>2, <2>4, <2>5
<1>2. s # <<>>
  BY <1>1, EmptySeq
<1>5. \A i \in 1..Len(s) : i = 1 \/ (i - 1 \in 1..Len(T) /\ s[i] = T[i - 1])
  <2> TAKE i \in 1..Len(s)
  <2>1. i = 1 \/ (i - 1 \in 1..Len(T) /\ (i - 1) + 1 = i)
    BY <1>1
  <2>2. QED
    BY <1>1, <2>1
<1>6. \A i \in 1..Len(T) : i + 1 \in 1..Len(s)
  BY <1>1
<1>7. 1 \in 1..Len(s)
  BY <1>1
<1>8. StepsOf(s) = {x} \cup StepsOf(T)
  <2>1. \A y \in StepsOf(s) : y \in {x} \cup StepsOf(T)
    BY <1>1, <1>5 DEF StepsOf
  <2>2. \A y \in StepsOf(T) : y \in StepsOf(s)
    <3> SUFFICES ASSUME NEW i \in 1..Len(T) PROVE T[i] \in StepsOf(s)
      BY <1>1 DEF StepsOf
    <3>1. i + 1 \in DOMAIN s /\ s[i + 1] = T[i]
      BY <1>1, <1>6
    <3>2. QED
      BY <3>1 DEF StepsOf
  <2>3. x \in StepsOf(s)
    BY <1>1, <1>7 DEF StepsOf
  <2>4. QED
    BY <2>1, <2>2, <2>3
<1>9. After(s, 1) = StepsOf(T)
  <2>1. \A i \in 2..Len(s) : i - 1 \in 1..Len(T) /\ s[i] = T[i - 1]
    <3> TAKE i \in 2..Len(s)
    <3>1. i \in 1..Len(s) /\ i # 1
      BY <1>1
    <3>2. QED
      BY <1>5, <3>1
  <2>2. \A i \in 1..Len(T) : i + 1 \in 2..Len(s)
    BY <1>1
  <2>3. After(s, 1) = {s[i] : i \in 2..Len(s)}
    BY DEF After
  <2>4. ASSUME NEW y \in After(s, 1) PROVE y \in StepsOf(T)
    <3>1. PICK i \in 2..Len(s) : y = s[i]
      BY <2>3
    <3>2. i - 1 \in 1..Len(T) /\ y = T[i - 1]
      BY <2>1, <3>1
    <3>3. QED
      BY <1>1, <3>2 DEF StepsOf
  <2>5. ASSUME NEW i \in 1..Len(T) PROVE T[i] \in After(s, 1)
    <3>1. i + 1 \in 2..Len(s) /\ s[i + 1] = T[i]
      BY <1>1, <2>2
    <3>2. QED
      BY <2>3, <3>1
  <2>6. \A y \in StepsOf(T) : y \in After(s, 1)
    BY <1>1, <2>5 DEF StepsOf
  <2>7. QED
    BY <2>4, <2>6
<1>10. ASSUME NEW n \in 1..Len(T) PROVE After(s, n + 1) = After(T, n)
  <2>1. \A i \in (n + 1 + 1)..Len(s) : i - 1 \in (n + 1)..Len(T) /\ s[i] = T[i - 1]
    <3> TAKE i \in (n + 1 + 1)..Len(s)
    <3>1. i \in 1..Len(s) /\ i # 1 /\ i - 1 \in (n + 1)..Len(T)
      BY <1>1
    <3>2. QED
      BY <1>5, <3>1
  <2>2. \A i \in (n + 1)..Len(T) : i + 1 \in (n + 1 + 1)..Len(s) /\ s[i + 1] = T[i]
    BY <1>1
  <2>3. \A y \in After(s, n + 1) : y \in After(T, n)
    BY <2>1 DEF After
  <2>4. ASSUME NEW i \in (n + 1)..Len(T) PROVE T[i] \in After(s, n + 1)
    BY <2>2, <2>4 DEF After
  <2>5. \A y \in After(T, n) : y \in After(s, n + 1)
    BY <2>4 DEF After
  <2>6. QED
    BY <2>3, <2>5
<1>11. WellFormed(s) => WellFormed(T) /\ Fits(x, StepsOf(T))
  <2> SUFFICES ASSUME WellFormed(s) PROVE WellFormed(T) /\ Fits(x, StepsOf(T))
    OBVIOUS
  <2>1. Fits(x, StepsOf(T))
    BY <1>1, <1>7, <1>9 DEF WellFormed
  <2>2. ASSUME NEW n \in 1..Len(T) PROVE Fits(T[n], After(T, n))
    BY <1>1, <1>6, <1>10, <2>2 DEF WellFormed
  <2>3. QED
    BY <1>1, <2>1, <2>2 DEF WellFormed
<1>12. WellFormed(T) /\ Fits(x, StepsOf(T)) => WellFormed(s)
  <2> SUFFICES ASSUME WellFormed(T), Fits(x, StepsOf(T)), NEW n \in 1..Len(s)
               PROVE  Fits(s[n], After(s, n))
    BY <1>1 DEF WellFormed
  <2>1. CASE n = 1
    BY <1>1, <1>9, <2>1
  <2>2. CASE n # 1
    <3>1. n - 1 \in 1..Len(T) /\ s[n] = T[n - 1] /\ (n - 1) + 1 = n
      BY <1>5, <2>2
    <3>2. After(s, n) = After(T, n - 1)
      BY <1>10, <3>1
    <3>3. QED
      BY <1>1, <3>1, <3>2 DEF WellFormed
  <2>3. QED
    BY <2>1, <2>2
<1>13. QED
  BY <1>1, <1>8, <1>11, <1>12 DEF OneBefore

LEMMA PairBefore ==
    ASSUME NEW S, NEW x \in S, NEW y \in S, NEW T \in Seq(S), NEW s, s = <<x, y>> \o T
    PROVE  TwoBefore(S, s, x, y, T)
<1> DEFINE U == <<y>> \o T
<1>1. s = <<x>> \o U
  BY Pairs, ConcatAssociative
<1>2. OneBefore(S, U, y, T)
  BY PutBefore
<1> HIDE DEF U
<1>3. OneBefore(S, s, x, U)
  BY <1>1, <1>2, PutBefore DEF OneBefore
<1>4. QED
  BY <1>2, <1>3 DEF OneBefore, TwoBefore

LEMMA TripleBefore ==
    ASSUME NEW S, NEW x \in S, NEW y \in S, NEW z \in S, NEW T \in Seq(S),
           NEW s, s = <<x, y, z>> \o T
    PROVE  ThreeBefore(S, s, x, y, z, T)
<1> DEFINE U == <<y, z>> \o T
<1>1. s = <<x>> \o U
  <2>1. <<y, z>> \in Seq(S) /\ <<x>> \in Seq(S)
    BY Tuples
  <2>2. <<x, y, z>> = <<x>> \o <<y, z>>
    <3>1. /\ Len(<<x, y, z>>) = 3 /\ <<x, y, z>>[1] = x /\ <<x, y, z>>[2] = y
          /\ <<x, y, z>>[3] = z /\ Len(<<y, z>>) = 2 /\ <<y, z>>[1] = y /\ <<y, z>>[2] = z
          /\ Len(<<x>>) = 1 /\ <<x>>[1] = x
      OBVIOUS
    <3> DEFINE a == <<x>>
               b == <<y, z>>
               c == <<x, y, z>>
    <3>2. /\ a \in Seq(S) /\ b \in Seq(S) /\ c \in Seq(S)
          /\ Len(a) = 1 /\ a[1] = x /\ Len(b) = 2 /\ b[1] = y /\ b[2] = z
          /\ Len(c) = 3 /\ c[1] = x /\ c[2] = y /\ c[3] = z
      BY <2>1, <3>1, Tuples
    <3> HIDE DEF a, b, c
    <3>3. /\ a \o b \in Seq(S) /\ Len(a \o b) = 3
          /\ \A i \in 1..3 : (a \o b)[i] = IF i <= 1 THEN a[i] ELSE b[i - 1]
      <4>1. /\ a \o b \in Seq(S) /\ Len(a \o b) = Len(a) + Len(b)
            /\ \A i \in 1..Len(a) + Len(b) :
                   (a \o b)[i] = IF i <= Len(a) THEN a[i] ELSE b[i - Len(a)]
        BY <3>2, ConcatProperties
      <4>2. QED
        BY <3>2, <4>1
    <3>4. (a \o b)[1] = x /\ (a \o b)[2] = y /\ (a \o b)[3] = z
      BY <3>2, <3>3
    <3>5. \A i \in 1..3 : i = 1 \/ i = 2 \/ i = 3
      OBVIOUS
    <3>6. \A i \in 1..3 : c[i] = (a \o b)[i]
      BY <3>2, <3>4, <3>5, Zenon
    <3>7. c = a \o b
      BY <3>2, <3>3, <3>6, SeqEqual
    <3>8. QED
      BY <3>7 DEF a, b, c
  <2>3. QED
    BY <2>1, <2>2, ConcatAssociative
<1>2. TwoBefore(S, U, y, z, T)
  BY PairBefore
<1> HIDE DEF U
<1>3. OneBefore(S, s, x, U)
  BY <1>1, <1>2, PutBefore DEF TwoBefore
<1>4. QED
  BY <1>2, <1>3 DEF OneBefore, TwoBefore, ThreeBefore

\* What t has still to do, and what it has once it has gone a step on.
Work(t) == StepsOf(todo[t])
Does(t, X) == \A o \in Task : Work(o)' = IF o = t THEN X ELSE Work(o)

LEMMA HeadFits ==
    ASSUME CachesAreSafe, ListsFit, NEW t \in Task, todo[t] # <<>>
    PROVE  /\ Head(todo[t]) \in SafeStep
           /\ \A x \in Work(t) : x \in SafeStep
           /\ Tail(todo[t]) \in Seq(SafeStep) /\ WellFormed(Tail(todo[t]))
           /\ Work(t) = {Head(todo[t])} \cup Rest(todo[t])
           /\ Fits(Head(todo[t]), Rest(todo[t]))
<1> DEFINE s == todo[t]
<1>1. s \in Seq(SafeStep) /\ s # <<>> /\ WellFormed(s)
  BY DEF CachesAreSafe, ListsFit
<1> HIDE DEF s
<1>2. Head(s) \in SafeStep /\ Tail(s) \in Seq(SafeStep)
  BY <1>1, HeadTailProperties
<1>3. s = <<Head(s)>> \o Tail(s)
  BY <1>1
<1>4. OneBefore(SafeStep, s, Head(s), Tail(s))
  BY <1>2, <1>3, PutBefore
<1>5. \A x \in StepsOf(s) : x \in SafeStep
  BY <1>1, ElementOfSeq, LenProperties DEF StepsOf
<1>6. QED
  BY <1>1, <1>2, <1>4, <1>5 DEF s, Work, Rest, OneBefore

LEMMA GoesOn ==
    ASSUME CachesAreSafe, ListsFit, NEW t \in Task, todo[t] # <<>>, NEW X, NEW T \in Seq(SafeStep),
           WellFormed(T), StepsOf(T) = X, todo' = [todo EXCEPT ![t] = T]
    PROVE  ListsFit' /\ Does(t, X)
<1>1. todo \in [Task -> Seq(SafeStep)]
  BY DEF CachesAreSafe
<1>2. \A o \in Task : todo'[o] = IF o = t THEN T ELSE todo[o]
  BY <1>1
<1>3. QED
  BY <1>2 DEF ListsFit, Does, Work

LEMMA ReturnGoesOn ==
    ASSUME CachesAreSafe, ListsFit, NEW t \in Task, todo[t] # <<>>, Return(t)
    PROVE  ListsFit' /\ Does(t, Rest(todo[t]))
<1> DEFINE T == Tail(todo[t])
<1>1. T \in Seq(SafeStep) /\ WellFormed(T)
  BY HeadFits
<1>2. todo' = [todo EXCEPT ![t] = <<>> \o T]
  BY DEF Return, Goto
<1>3. <<>> \o T = T
  BY <1>1, ConcatEmptySeq
<1> HIDE DEF T
<1>4. todo' = [todo EXCEPT ![t] = T] /\ StepsOf(T) = Rest(todo[t])
  BY <1>2, <1>3 DEF T, Rest
<1>5. QED
  BY <1>1, <1>4, GoesOn

LEMMA GotoGoesOn ==
    ASSUME CachesAreSafe, ListsFit, NEW t \in Task, todo[t] # <<>>, NEW x \in SafeStep,
           Fits(x, Rest(todo[t])), Goto(t, <<x>>)
    PROVE  ListsFit' /\ Does(t, {x} \cup Rest(todo[t]))
<1> DEFINE T == Tail(todo[t])
           s == <<x>> \o T
<1>1. T \in Seq(SafeStep) /\ WellFormed(T)
  BY HeadFits
<1>2. todo' = [todo EXCEPT ![t] = s]
  BY DEF Goto
<1>3. OneBefore(SafeStep, s, x, T)
  BY <1>1, PutBefore
<1> HIDE DEF T, s
<1>4. StepsOf(T) = Rest(todo[t])
  BY DEF T, Rest
<1>5. QED
  BY <1>1, <1>2, <1>3, <1>4, GoesOn DEF OneBefore

LEMMA BothGoOn ==
    ASSUME CachesAreSafe, ListsFit, NEW t \in Task, todo[t] # <<>>, NEW x \in SafeStep,
           NEW y \in SafeStep, Fits(y, Rest(todo[t])), Fits(x, {y} \cup Rest(todo[t])),
           Goto(t, <<x, y>>)
    PROVE  ListsFit' /\ Does(t, {x, y} \cup Rest(todo[t]))
<1> DEFINE T == Tail(todo[t])
           s == <<x, y>> \o T
<1>1. T \in Seq(SafeStep) /\ WellFormed(T)
  BY HeadFits
<1>2. todo' = [todo EXCEPT ![t] = s]
  BY DEF Goto
<1>3. TwoBefore(SafeStep, s, x, y, T)
  BY <1>1, PairBefore
<1> HIDE DEF T, s
<1>4. StepsOf(T) = Rest(todo[t])
  BY DEF T, Rest
<1>5. QED
  BY <1>1, <1>2, <1>3, <1>4, GoesOn DEF TwoBefore

LEMMA EndGoesOn ==
    ASSUME CachesAreSafe, ListsFit, NEW t \in Task, todo[t] # <<>>, End(t)
    PROVE  ListsFit' /\ Does(t, {})
<1>1. <<>> \in Seq(SafeStep)
  BY EmptySeq
<1>2. QED
  BY <1>1, NoSteps, GoesOn DEF End

-------------------------------------------------------------------------------
(* What each step leaves to be done                                           *)

LEMMA FitsToo ==
    ASSUME NEW h, NEW R, Fits(h, R), NEW x
    PROVE  /\ h.step \in Loading /\ x.step \in Loading => Fits(x, R)
           /\ h.step \in Flushing \cup {"mutate"} /\ x.step \in Flushing => Fits(x, R)
  BY DEF Fits, Loading, Flushing

LEMMA FitsAgain ==
    ASSUME NEW h, NEW R, Fits(h, R), h.step = "mutate", NEW x, x.step = "load_or_insert",
           NEW y, y.step = "mutate", y.user = h.user
    PROVE  Fits(y, R) /\ Fits(x, {y} \cup R)
<1>1. Fits(y, R)
  BY DEF Fits, Loading, Flushing
<1>2. OnlyBumps({y} \cup R)
  BY DEF Fits, OnlyBumps, Bumps
<1>3. Fits(x, {y} \cup R)
  BY <1>2 DEF Fits, Loading, Flushing, Waiting
<1>4. QED
  BY <1>1, <1>3

\* What a step of t is about: its head h, and what comes after it.
Working(t, h, R) ==
    /\ todo[t] # <<>> /\ h = Head(todo[t]) /\ R = Rest(todo[t])
    /\ Work(t) = {h} \cup R /\ Fits(h, R)
    /\ \A x \in Work(t) : x \in SafeStep

LEMMA WorkIsWellFormed ==
    ASSUME CachesAreSafe, ListsFit, NEW t \in Task, todo[t] # <<>>
    PROVE  Working(t, Head(todo[t]), Rest(todo[t]))
  BY HeadFits DEF Working

LEMMA ReadDoes ==
    ASSUME CachesAreSafe, ListsFit, NEW t \in Task, ReadCached(t), NEW h, NEW R,
           Working(t, h, R)
    PROVE  /\ h \in ReadStep /\ h.step = "read" /\ ListsFit'
           /\ \/ Does(t, R)
              \/ cache[h.user] = None /\ Does(t, {Reload(h.user, FALSE)} \cup R)
<1>1. h \in SafeStep /\ h.step = "read" /\ Fits(h, R)
  BY DEF ReadCached, Doing, Working
<1>2. h \in ReadStep
  BY <1>1, StepKinds
<1> DEFINE x == Reload(h.user, FALSE)
<1>3. x \in SafeStep /\ x.step = "load"
  BY <1>2 DEF Reload, ReadStep, LoadStep, SafeStep
<1>4. Fits(x, R)
  BY <1>1, <1>3, FitsToo DEF Loading
<1>5. Return(t) \/ (cache[h.user] = None /\ Goto(t, <<x>>))
  BY DEF ReadCached, Working
<1> HIDE DEF x
<1>6. CASE Return(t)
  BY <1>1, <1>2, <1>6, ReturnGoesOn DEF Working
<1>7. CASE cache[h.user] = None /\ Goto(t, <<x>>)
  <2>1. ListsFit' /\ Does(t, {x} \cup R)
    BY <1>3, <1>4, <1>7, GotoGoesOn DEF Working
  <2>2. QED
    BY <1>1, <1>2, <1>7, <2>1 DEF x
<1>8. QED
  BY <1>5, <1>6, <1>7

Inserted(h) == [step |-> IF h.step = "load" THEN "insert" ELSE "or_insert", user |-> h.user,
                sync |-> h.sync, assets |-> db[h.user].Assets]

LEMMA LoadAssetsDoes ==
    ASSUME CachesAreSafe, ListsFit, NEW t \in Task, LoadAssets(t), NEW h, NEW R,
           Working(t, h, R)
    PROVE  /\ h \in LoadStep /\ Inserted(h) \in InsertStep
           /\ ListsFit' /\ Does(t, {Inserted(h)} \cup R)
<1>1. h \in SafeStep /\ h.step \in {"load", "load_or_insert"} /\ Fits(h, R)
  BY DEF LoadAssets, Doing, Working
<1>2. h \in LoadStep
  BY <1>1, StepKinds
<1> DEFINE x == Inserted(h)
<1>3. x \in InsertStep
  <2>1. db[h.user].Assets \in Nat
    BY <1>2 DEF CachesAreSafe, LoadStep, Aggregate
  <2>2. QED
    BY <1>2, <2>1 DEF LoadStep, InsertStep, Inserted
<1>4. x \in SafeStep /\ x.step \in Loading
  BY <1>3 DEF SafeStep, InsertStep, Loading
<1>5. Goto(t, <<x>>)
  BY DEF LoadAssets, Working, Inserted
<1> HIDE DEF x
<1>6. Fits(x, R)
  BY <1>1, <1>4, FitsToo DEF Loading
<1>7. ListsFit' /\ Does(t, {x} \cup R)
  BY <1>4, <1>5, <1>6, GotoGoesOn DEF Working
<1>8. QED
  BY <1>2, <1>3, <1>7 DEF x

Loaded(h) == [step |-> IF h.step = "insert" THEN "put" ELSE "or_put", user |-> h.user,
              aggregate |-> [Assets |-> h.assets, Stats |-> db[h.user].Stats]]

LEMMA LoadStatsDoes ==
    ASSUME CachesAreSafe, ListsFit, NEW t \in Task, LoadStats(t), NEW h, NEW R,
           Working(t, h, R)
    PROVE  /\ h \in InsertStep /\ Loaded(h) \in PutStep
           /\ ListsFit' /\ Does(t, {Loaded(h)} \cup R)
<1>1. h \in SafeStep /\ h.step \in {"insert", "or_insert"} /\ Fits(h, R)
  BY DEF LoadStats, Doing, Working
<1>2. h \in InsertStep
  BY <1>1, StepKinds
<1> DEFINE x == Loaded(h)
<1>3. x \in PutStep
  <2>1. db[h.user].Stats \in Nat
    BY <1>2 DEF CachesAreSafe, InsertStep, Aggregate
  <2>2. QED
    BY <1>2, <2>1 DEF InsertStep, PutStep, Loaded, Aggregate
<1>4. x \in SafeStep /\ x.step \in Loading
  BY <1>3 DEF SafeStep, PutStep, Loading
<1>5. Goto(t, <<x>>)
  BY DEF LoadStats, Working, Loaded
<1> HIDE DEF x
<1>6. Fits(x, R)
  BY <1>1, <1>4, FitsToo DEF Loading
<1>7. ListsFit' /\ Does(t, {x} \cup R)
  BY <1>4, <1>5, <1>6, GotoGoesOn DEF Working
<1>8. QED
  BY <1>2, <1>3, <1>7 DEF x

LEMMA LoadFailsDoes ==
    ASSUME CachesAreSafe, ListsFit, NEW t \in Task, LoadFails(t), NEW h, NEW R,
           Working(t, h, R)
    PROVE  /\ h \in LoadStep \cup InsertStep /\ ListsFit'
           /\ \/ h.sync /\ cache' = [cache EXCEPT ![h.user] = None] /\ Does(t, R)
              \/ ~h.sync /\ Fail(t) /\ cache' = cache /\ Does(t, {})
<1>1. h \in SafeStep /\ h.step \in {"load", "load_or_insert", "insert", "or_insert"}
  BY DEF LoadFails, Doing, Working
<1>2. h \in LoadStep \cup InsertStep
  BY <1>1, StepKinds
<1>3. \/ h.sync /\ cache' = [cache EXCEPT ![h.user] = None] /\ Return(t)
      \/ ~h.sync /\ Fail(t) /\ End(t) /\ cache' = cache
  BY DEF LoadFails, Working, Fail
<1>4. QED
  BY <1>2, <1>3, ReturnGoesOn, EndGoesOn DEF Working

LEMMA PutDoes ==
    ASSUME CachesAreSafe, ListsFit, NEW t \in Task, Put(t), NEW h, NEW R, Working(t, h, R)
    PROVE  /\ h \in PutStep /\ ListsFit' /\ Does(t, R)
           /\ cache' = IF h.step = "or_put" /\ cache[h.user] # None THEN cache
                       ELSE [cache EXCEPT ![h.user] = clean(h.aggregate)]
<1>1. h \in SafeStep /\ h.step \in {"put", "or_put"} /\ Return(t)
  BY DEF Put, Doing, Working
<1>2. h \in PutStep
  BY <1>1, StepKinds
<1>3. QED
  BY <1>1, <1>2, ReturnGoesOn DEF Working, Put

LEMMA RemoveDoes ==
    ASSUME CachesAreSafe, ListsFit, NEW t \in Task, Remove(t), NEW h, NEW R, Working(t, h, R)
    PROVE  /\ h \in ReadStep /\ h.step = "evict" /\ ListsFit' /\ Does(t, R)
           /\ cache' = [cache EXCEPT ![h.user] = None]
<1>1. h \in SafeStep /\ h.step = "evict" /\ Return(t)
  BY DEF Remove, Doing, Working
<1>2. h \in ReadStep
  BY <1>1, StepKinds
<1>3. QED
  BY <1>1, <1>2, ReturnGoesOn DEF Working, Remove

Bumped(u) == [aggregate |-> [cache[u].aggregate EXCEPT !.Stats = @ + 1],
              dirty |-> [b \in DirtyBucket |->
                            IF b \in BumpBuckets THEN now + 1 ELSE cache[u].dirty[b]]]
Copied(u, e) == [step |-> "snapshot", user |-> u, buckets |-> dirty_buckets(e)]

LEMMA CopiedIsStep ==
    ASSUME NEW u \in UserId, NEW e \in Entry
    PROVE  /\ Copied(u, e) \in SnapshotStep
           /\ IsDirty(e) => "Stats" \in dirty_buckets(e)
<1>1. dirty_buckets(e) \subseteq {"Stats"} /\ e.dirty["Assets"] = 0
  BY DirtyIsStats DEF Entry
<1>2. Copied(u, e) \in SnapshotStep
  BY <1>1 DEF Copied, SnapshotStep
<1>3. IsDirty(e) => "Stats" \in dirty_buckets(e)
  BY <1>1 DEF IsDirty, dirty_buckets, DirtyBucket
<1>4. QED
  BY <1>2, <1>3

LEMMA MutateDoes ==
    ASSUME CachesAreSafe, ListsFit, NEW t \in Task, Mutate(t), NEW h, NEW R, Working(t, h, R)
    PROVE  /\ h \in MutateStep /\ ListsFit'
           /\ cache[h.user] # None /\ cache[h.user] \in Entry
           /\ Bumped(h.user) \in Entry /\ IsDirty(Bumped(h.user))
           /\ Bumped(h.user).aggregate.Stats = cache[h.user].aggregate.Stats + 1
           /\ Bumped(h.user).aggregate.Assets = cache[h.user].aggregate.Assets
           /\ cache' = [cache EXCEPT ![h.user] = Bumped(h.user)]
           /\ \/ Does(t, R)
              \/ /\ Copied(h.user, Bumped(h.user)) \in SnapshotStep
                 /\ Does(t, {Copied(h.user, Bumped(h.user))} \cup R)
<1> DEFINE u == h.user
           e == Bumped(u)
           x == Copied(u, e)
<1>1. h \in SafeStep /\ h.step = "mutate" /\ Fits(h, R)
  BY DEF Mutate, Doing, Working
<1>2. h \in MutateStep
  BY <1>1, StepKinds
<1>3. cache[u] # None /\ cache' = [cache EXCEPT ![u] = e] /\ (Goto(t, <<x>>) \/ Return(t))
  BY DEF Mutate, Working, Bumped, Copied
<1>4. u \in UserId /\ cache[u] \in Entry /\ now \in Nat
  BY <1>2, <1>3 DEF MutateStep, CachesAreSafe
<1>5. /\ cache[u].aggregate \in Aggregate
      /\ cache[u].dirty \in Dirty /\ cache[u].dirty["Assets"] = 0
  BY <1>4 DEF Entry
<1>6. /\ e.aggregate \in Aggregate /\ e.aggregate.Stats = cache[u].aggregate.Stats + 1
      /\ e.aggregate.Assets = cache[u].aggregate.Assets
  BY <1>5 DEF Aggregate, Bumped
<1>7. e.dirty \in Dirty /\ e.dirty["Stats"] = now + 1 /\ e.dirty["Assets"] = 0
  BY <1>4, <1>5 DEF Dirty, DirtyBucket, BumpBuckets, Bumped
<1>8. e \in [aggregate : Aggregate, dirty : Dirty]
  BY <1>6, <1>7 DEF Bumped
<1>9. e \in Entry
  BY <1>7, <1>8 DEF Entry
<1>10. IsDirty(e)
  <2>1. e # None
    BY <1>9, NoneIsNoEntry DEF Entry, Aggregate
  <2>2. e.dirty["Stats"] # 0
    BY <1>4, <1>7
  <2>3. QED
    BY <2>1, <2>2 DEF IsDirty, DirtyBucket
<1>11. x \in SnapshotStep
  BY <1>4, <1>9, CopiedIsStep
<1>12. x \in SafeStep /\ x.step = "snapshot"
  BY <1>11 DEF SafeStep, SnapshotStep
<1> HIDE DEF x
<1>13. Fits(x, R)
  BY <1>1, <1>12, FitsToo DEF Flushing
<1>14. ListsFit' /\ (Does(t, R) \/ Does(t, {x} \cup R))
  BY <1>3, <1>12, <1>13, GotoGoesOn, ReturnGoesOn DEF Working
<1>15. QED
  BY <1>2, <1>3, <1>4, <1>6, <1>9, <1>10, <1>11, <1>14 DEF x

Again(h) == [h EXCEPT !.loaded = TRUE]
LoadAgain(h) == [step |-> "load_or_insert", user |-> h.user, sync |-> FALSE]

LEMMA MissingDoes ==
    ASSUME CachesAreSafe, ListsFit, NEW t \in Task, MutateMissing(t), NEW h, NEW R,
           Working(t, h, R)
    PROVE  /\ h \in MutateStep /\ ListsFit'
           /\ Again(h) \in MutateStep /\ Again(h).user = h.user
           /\ \/ Does(t, {LoadAgain(h), Again(h)} \cup R) /\ spoilt' = spoilt
              \/ Fail(t) /\ Does(t, {})
<1> DEFINE x == LoadAgain(h)
           y == Again(h)
<1>1. h \in SafeStep /\ h.step = "mutate" /\ Fits(h, R)
  BY DEF MutateMissing, Doing, Working
<1>2. h \in MutateStep
  BY <1>1, StepKinds
<1>3. (Goto(t, <<x, y>>) /\ spoilt' = spoilt) \/ (Fail(t) /\ End(t))
  BY DEF MutateMissing, Working, Fail, LoadAgain, Again
<1>4. /\ y \in MutateStep /\ y.user = h.user /\ y.step = "mutate"
      /\ x \in LoadStep /\ x.step = "load_or_insert"
  BY <1>2 DEF MutateStep, LoadStep, LoadAgain, Again
<1> HIDE DEF x, y
<1>5. x \in SafeStep /\ y \in SafeStep
  BY <1>4 DEF SafeStep
<1>6. Fits(y, R) /\ Fits(x, {y} \cup R)
  BY <1>1, <1>4, FitsAgain
<1>7. CASE Goto(t, <<x, y>>) /\ spoilt' = spoilt
  <2>1. ListsFit' /\ Does(t, {x, y} \cup R)
    BY <1>5, <1>6, <1>7, BothGoOn DEF Working
  <2>2. QED
    BY <1>2, <1>4, <1>7, <2>1 DEF x, y
<1>8. CASE Fail(t) /\ End(t)
  <2>1. ListsFit' /\ Does(t, {})
    BY <1>8, EndGoesOn DEF Working
  <2>2. QED
    BY <1>2, <1>4, <1>8, <2>1 DEF x, y
<1>9. QED
  BY <1>3, <1>7, <1>8

LEMMA FlushDoes ==
    ASSUME CachesAreSafe, ListsFit, NEW t \in Task, FlushStart(t), NEW h, NEW R,
           Working(t, h, R)
    PROVE  /\ h \in ReadStep /\ h.step = "flush" /\ ListsFit'
           /\ \/ ~IsDirty(cache[h.user]) /\ Does(t, R)
              \/ /\ IsDirty(cache[h.user]) /\ cache[h.user] \in Entry
                 /\ Copied(h.user, cache[h.user]) \in SnapshotStep
                 /\ Does(t, {Copied(h.user, cache[h.user])} \cup R)
<1> DEFINE x == Copied(h.user, cache[h.user])
<1>1. h \in SafeStep /\ h.step = "flush" /\ Fits(h, R)
  BY DEF FlushStart, Doing, Working
<1>2. h \in ReadStep
  BY <1>1, StepKinds
<1>3. \/ ~IsDirty(cache[h.user]) /\ Return(t)
      \/ IsDirty(cache[h.user]) /\ Goto(t, <<x>>)
  BY DEF FlushStart, Working, Copied
<1>4. CASE ~IsDirty(cache[h.user]) /\ Return(t)
  BY <1>1, <1>2, <1>4, ReturnGoesOn DEF Working
<1>5. CASE IsDirty(cache[h.user]) /\ Goto(t, <<x>>)
  <2>1. cache[h.user] \in Entry /\ h.user \in UserId
    BY <1>2, <1>5 DEF CachesAreSafe, ReadStep, IsDirty
  <2>2. x \in SnapshotStep
    BY <2>1, CopiedIsStep
  <2>3. x \in SafeStep /\ x.step = "snapshot"
    BY <2>2 DEF SafeStep, SnapshotStep
  <2> HIDE DEF x
  <2>4. Fits(x, R)
    BY <1>1, <2>3, FitsToo DEF Flushing
  <2>5. ListsFit' /\ Does(t, {x} \cup R)
    BY <1>5, <2>3, <2>4, GotoGoesOn DEF Working
  <2>6. QED
    BY <1>1, <1>2, <1>5, <2>1, <2>2, <2>5 DEF x
<1>6. QED
  BY <1>3, <1>4, <1>5

Saving(h, B, e, failed) ==
    [step |-> "save", user |-> h.user, buckets |-> B, entry |-> e, failed |-> failed]
Marking(h, b) == [step |-> "mark", user |-> h.user, buckets |-> h.buckets \ {b},
                  entry |-> h.entry, failed |-> h.failed, bucket |-> b]

LEMMA SnapshotDoes ==
    ASSUME CachesAreSafe, ListsFit, NEW t \in Task, Snapshot(t), NEW h, NEW R,
           Working(t, h, R)
    PROVE  /\ h \in SnapshotStep /\ ListsFit'
           /\ \/ cache[h.user] = None /\ Does(t, R)
              \/ /\ cache[h.user] # None /\ cache[h.user] \in Entry
                 /\ Saving(h, h.buckets, cache[h.user], FALSE) \in SaveStep
                 /\ Does(t, {Saving(h, h.buckets, cache[h.user], FALSE)} \cup R)
<1> DEFINE x == Saving(h, h.buckets, cache[h.user], FALSE)
<1>1. h \in SafeStep /\ h.step = "snapshot" /\ Fits(h, R)
  BY DEF Snapshot, Doing, Working
<1>2. h \in SnapshotStep
  BY <1>1, StepKinds
<1>3. \/ cache[h.user] = None /\ Return(t)
      \/ cache[h.user] # None /\ Goto(t, <<x>>)
  BY DEF Snapshot, Working, Saving
<1>4. CASE cache[h.user] = None /\ Return(t)
  BY <1>1, <1>2, <1>4, ReturnGoesOn DEF Working
<1>5. CASE cache[h.user] # None /\ Goto(t, <<x>>)
  <2>1. cache[h.user] \in Entry
    BY <1>2, <1>5 DEF CachesAreSafe, SnapshotStep
  <2>2. x \in SaveStep
    BY <1>2, <2>1 DEF SaveStep, SnapshotStep, Saving
  <2>3. x \in SafeStep /\ x.step = "save"
    BY <2>2 DEF SafeStep, SaveStep
  <2> HIDE DEF x
  <2>4. Fits(x, R)
    BY <1>1, <2>3, FitsToo DEF Flushing
  <2>5. ListsFit' /\ Does(t, {x} \cup R)
    BY <1>5, <2>3, <2>4, GotoGoesOn DEF Working
  <2>6. QED
    BY <1>1, <1>2, <1>5, <2>1, <2>2, <2>5 DEF x
<1>6. QED
  BY <1>3, <1>4, <1>5

LEMMA SaveDoes ==
    ASSUME CachesAreSafe, ListsFit, NEW t \in Task, SaveBucket(t), NEW h, NEW R,
           Working(t, h, R)
    PROVE  /\ h \in SaveStep /\ ListsFit' /\ "Stats" \in h.buckets
           /\ Marking(h, "Stats") \in MarkStep /\ Does(t, {Marking(h, "Stats")} \cup R)
           /\ db' = [db EXCEPT ![h.user] = [@ EXCEPT !["Stats"] = h.entry.aggregate["Stats"]]]
<1> DEFINE x == Marking(h, "Stats")
<1>1. h \in SafeStep /\ h.step = "save" /\ Fits(h, R)
  BY DEF SaveBucket, Doing, Working
<1>2. h \in SaveStep
  BY <1>1, StepKinds
<1>3. PICK b \in h.buckets :
          /\ db' = [db EXCEPT ![h.user] = Written(@, b, h.entry.aggregate)]
          /\ Goto(t, <<Marking(h, b)>>)
  BY DEF SaveBucket, Working, Marking
<1>4. b = "Stats"
  BY <1>2, <1>3 DEF SaveStep
<1>5. x \in MarkStep
  BY <1>2 DEF MarkStep, SaveStep, Marking
<1>6. x \in SafeStep /\ x.step = "mark"
  BY <1>5 DEF SafeStep, MarkStep
<1>7. Goto(t, <<x>>)
  BY <1>3, <1>4
<1> HIDE DEF x
<1>8. Fits(x, R)
  BY <1>1, <1>6, FitsToo DEF Flushing
<1>9. ListsFit' /\ Does(t, {x} \cup R)
  BY <1>6, <1>7, <1>8, GotoGoesOn DEF Working
<1>10. QED
  BY <1>2, <1>3, <1>4, <1>5, <1>9 DEF x, Written

Failing(h) == [h EXCEPT !.buckets = {}, !.failed = TRUE]

LEMMA SaveFailsDoes ==
    ASSUME CachesAreSafe, ListsFit, NEW t \in Task, SaveFails(t), NEW h, NEW R,
           Working(t, h, R)
    PROVE  /\ h \in SaveStep /\ ListsFit' /\ Does(t, {Failing(h)} \cup R)
           /\ Failing(h) \in SaveStep /\ Failing(h).user = h.user /\ Failing(h).entry = h.entry
           /\ Failing(h).buckets = {} /\ Failing(h).failed
<1> DEFINE x == Failing(h)
<1>1. h \in SafeStep /\ h.step = "save" /\ Fits(h, R)
  BY DEF SaveFails, Doing, Working
<1>2. h \in SaveStep
  BY <1>1, StepKinds
<1>3. PICK b \in h.buckets : Goto(t, <<[h EXCEPT !.buckets = @ \ {b}, !.failed = TRUE]>>)
  BY DEF SaveFails, Working
<1>4. h.buckets \ {b} = {}
  BY <1>2, <1>3 DEF SaveStep
<1>5. Goto(t, <<x>>)
  BY <1>3, <1>4 DEF Failing
<1>6. /\ x \in SaveStep /\ x.user = h.user /\ x.entry = h.entry /\ x.buckets = {} /\ x.failed
  BY <1>2 DEF SaveStep, Failing
<1> HIDE DEF x
<1>7. x \in SafeStep /\ x.step = "save"
  BY <1>6 DEF SafeStep, SaveStep
<1>8. Fits(x, R)
  BY <1>1, <1>7, FitsToo DEF Flushing
<1>9. ListsFit' /\ Does(t, {x} \cup R)
  BY <1>5, <1>7, <1>8, GotoGoesOn DEF Working
<1>10. QED
  BY <1>2, <1>6, <1>9 DEF x

LEMMA MarkDoes ==
    ASSUME CachesAreSafe, ListsFit, NEW t \in Task, MarkFlushed(t), NEW h, NEW R,
           Working(t, h, R)
    PROVE  /\ h \in MarkStep /\ ListsFit'
           /\ Saving(h, h.buckets, h.entry, h.failed) \in SaveStep
           /\ Does(t, {Saving(h, h.buckets, h.entry, h.failed)} \cup R)
           /\ cache' = IF Unchanged(cache[h.user], h)
                       THEN [cache EXCEPT ![h.user].dirty["Stats"] = 0] ELSE cache
<1> DEFINE x == Saving(h, h.buckets, h.entry, h.failed)
<1>1. h \in SafeStep /\ h.step = "mark" /\ Fits(h, R)
  BY DEF MarkFlushed, Doing, Working
<1>2. h \in MarkStep
  BY <1>1, StepKinds
<1>3. x \in SaveStep /\ h.bucket = "Stats"
  BY <1>2 DEF SaveStep, MarkStep, Saving
<1>4. x \in SafeStep /\ x.step = "save"
  BY <1>3 DEF SafeStep, SaveStep
<1>5. /\ Goto(t, <<x>>)
      /\ cache' = IF Unchanged(cache[h.user], h)
                  THEN [cache EXCEPT ![h.user].dirty["Stats"] = 0] ELSE cache
  BY <1>3 DEF MarkFlushed, Working, Saving
<1> HIDE DEF x
<1>6. Fits(x, R)
  BY <1>1, <1>4, FitsToo DEF Flushing
<1>7. ListsFit' /\ Does(t, {x} \cup R)
  BY <1>4, <1>5, <1>6, GotoGoesOn DEF Working
<1>8. QED
  BY <1>2, <1>3, <1>5, <1>7 DEF x

LEMMA FlushEndsDoes ==
    ASSUME CachesAreSafe, ListsFit, NEW t \in Task, FlushEnds(t), NEW h, NEW R,
           Working(t, h, R)
    PROVE  /\ h \in SaveStep /\ ListsFit' /\ h.buckets = {}
           /\ \/ h.failed /\ Fail(t) /\ Does(t, {})
              \/ ~h.failed /\ spoilt' = spoilt /\ Does(t, R)
<1>1. h \in SafeStep /\ h.step = "save" /\ h.buckets = {}
  BY DEF FlushEnds, Doing, Working
<1>2. h \in SaveStep
  BY <1>1, StepKinds
<1>3. (h.failed /\ Fail(t) /\ End(t)) \/ (~h.failed /\ spoilt' = spoilt /\ Return(t))
  BY DEF FlushEnds, Working, Fail
<1>4. QED
  BY <1>1, <1>2, <1>3, EndGoesOn, ReturnGoesOn DEF Working

LEMMA CommitDoes ==
    ASSUME CachesAreSafe, ListsFit, NEW t \in Task, CommitTx(t), NEW h, NEW R,
           Working(t, h, R)
    PROVE  h \in CommitStep /\ ListsFit' /\ Does(t, R) /\ Changed({h.user})
<1>1. h \in SafeStep /\ h.step \in {"commit", "claim"} /\ Return(t) /\ Changed({h.user})
  BY DEF CommitTx, Doing, Working
<1>2. QED
  BY <1>1, StepKinds, ReturnGoesOn DEF Working

LEMMA SettleDoes ==
    ASSUME CachesAreSafe, ListsFit, NEW t \in Task, SettleTx(t), NEW h, NEW R,
           Working(t, h, R)
    PROVE  /\ h \in SettleStep /\ ListsFit' /\ Does(t, R) /\ Changed(Players(h.id))
           /\ h.id \notin games /\ games' = games \cup {h.id}
<1>1. h \in SafeStep /\ h.step = "settle" /\ Return(t) /\ Changed(Players(h.id))
      /\ h.id \notin games /\ games' = games \cup {h.id}
  BY DEF SettleTx, Doing, Working, Players
<1>2. QED
  BY <1>1, StepKinds, ReturnGoesOn DEF Working

LEMMA RefusedDoes ==
    ASSUME CachesAreSafe, ListsFit, NEW t \in Task, TxRefused(t), NEW h, NEW R,
           Working(t, h, R)
    PROVE  h \in CommitStep \cup SettleStep /\ ListsFit' /\ Does(t, {})
<1>1. h \in SafeStep /\ h.step \in {"commit", "claim", "settle"} /\ End(t)
  BY DEF TxRefused, Doing, Working
<1>2. QED
  BY <1>1, StepKinds, EndGoesOn DEF Working

-------------------------------------------------------------------------------
(* What an operation begins with                                              *)

\* A future that still has to count a committed game of u.
Owed(X, u) == Bumps(X, u) /\ \A x \in X : x.step # "settle"

\* Nothing is owed yet, and who is loaded and counted is flushed before.
BeginsWell(X) ==
    /\ \A x \in X : x.step \in {"read", "flush", "snapshot", "commit", "claim", "load", "evict",
                                "settle", "mutate"}
    /\ \A u \in UserId : ~Owed(X, u)
    /\ \A x \in X : x.step = "load" =>
           /\ x.sync \/ Bumps(X, x.user)
           /\ \E f \in X : f.step = "flush" /\ f.user = x.user
    /\ \A x \in X : x.step = "snapshot" => "Stats" \in x.buckets

LEMMA OneBegins ==
    ASSUME NEW x \in SafeStep,
           x.step \in {"read", "flush", "claim"} \/ (x.step = "snapshot" /\ "Stats" \in x.buckets)
    PROVE  <<x>> \in Seq(SafeStep) /\ WellFormed(<<x>>) /\ BeginsWell(StepsOf(<<x>>))
<1> DEFINE s == <<x>> \o <<>>
<1>1. <<x>> \in Seq(SafeStep) /\ <<>> \in Seq(SafeStep)
  BY EmptySeq, Tuples
<1>2. <<x>> = s
  BY <1>1, ConcatEmptySeq
<1>3. OneBefore(SafeStep, s, x, <<>>)
  BY <1>1, PutBefore
<1>4. Fits(x, {})
  BY DEF Fits, OnlyBumps, Flushing, Loading
<1> HIDE DEF s
<1>5. s \in Seq(SafeStep) /\ WellFormed(s) /\ StepsOf(s) = {x}
  BY <1>3, <1>4, NoSteps DEF OneBefore
<1>6. BeginsWell({x})
  BY DEF BeginsWell, Owed, Bumps
<1>7. QED
  BY <1>2, <1>5, <1>6

LEMMA LevelBegins ==
    ASSUME NEW u \in UserId, NEW k \in Key \cup {None}
    PROVE  LET s == <<Commit(u, k), Evict(u)>> IN
           s \in Seq(SafeStep) /\ WellFormed(s) /\ BeginsWell(StepsOf(s))
<1> DEFINE x == Commit(u, k)
           y == Evict(u)
           s == <<x, y>> \o <<>>
<1>1. x \in SafeStep /\ x.step = "commit" /\ x.user = u
  BY DEF Commit, CommitStep, SafeStep
<1>2. y \in SafeStep /\ y.step = "evict" /\ y.user = u
  BY DEF Evict, ReadStep, SafeStep
<1>3. Fits(y, {})
  BY <1>2 DEF Fits, OnlyBumps, Flushing, Loading
<1>4. Fits(x, {y})
  BY <1>1, <1>2 DEF Fits, Flushing, Loading, Waiting
<1>5. BeginsWell({x, y})
  BY <1>1, <1>2 DEF BeginsWell, Owed, Bumps
<1> HIDE DEF x, y
<1>6. <<x, y>> \in Seq(SafeStep) /\ <<>> \in Seq(SafeStep)
  BY <1>1, <1>2, EmptySeq, Tuples
<1>7. <<x, y>> = s
  BY <1>6, ConcatEmptySeq
<1>8. TwoBefore(SafeStep, s, x, y, <<>>)
  BY <1>1, <1>2, <1>6, PairBefore
<1> HIDE DEF s
<1>9. s \in Seq(SafeStep) /\ WellFormed(s) /\ StepsOf(s) = {x, y}
  BY <1>3, <1>4, <1>8, NoSteps DEF TwoBefore
<1>10. QED
  BY <1>5, <1>7, <1>9 DEF x, y

LEMMA SyncWriteBegins ==
    ASSUME NEW u \in UserId, NEW k \in Key \cup {None}
    PROVE  LET s == SyncWrite(u, k) IN
           s \in Seq(SafeStep) /\ WellFormed(s) /\ BeginsWell(StepsOf(s))
<1> DEFINE x == Flush(u)
           y == Commit(u, k)
           z == Reload(u, TRUE)
           s == <<x, y, z>> \o <<>>
<1>1. x \in SafeStep /\ x.step = "flush" /\ x.user = u
  BY DEF Flush, ReadStep, SafeStep
<1>2. y \in SafeStep /\ y.step = "commit" /\ y.user = u
  BY DEF Commit, CommitStep, SafeStep
<1>3. z \in SafeStep /\ z.step = "load" /\ z.user = u /\ z.sync = TRUE
  BY DEF Reload, LoadStep, SafeStep
<1>4. Fits(z, {})
  BY <1>3 DEF Fits, OnlyBumps, Flushing, Loading
<1>5. Fits(y, {z})
  BY <1>2, <1>3 DEF Fits, Flushing, Loading, Waiting
<1> HIDE DEF z
<1>6. Fits(x, {y, z})
  <2>1. HasTransaction({y, z})
    BY <1>2 DEF HasTransaction
  <2>2. QED
    BY <1>1, <1>2, <1>3, <2>1 DEF Fits, Flushing, Loading, Waiting
<1>7. BeginsWell({x, y, z})
  BY <1>1, <1>2, <1>3 DEF BeginsWell, Owed, Bumps
<1> HIDE DEF x, y
<1>8. <<x, y, z>> \in Seq(SafeStep) /\ <<>> \in Seq(SafeStep)
  BY <1>1, <1>2, <1>3, EmptySeq, Tuples
<1>9. <<x, y, z>> = s
  BY <1>8, ConcatEmptySeq
<1>10. ThreeBefore(SafeStep, s, x, y, z, <<>>)
  BY <1>1, <1>2, <1>3, <1>8, TripleBefore
<1> HIDE DEF s
<1>11. s \in Seq(SafeStep) /\ WellFormed(s) /\ StepsOf(s) = {x, y, z}
  BY <1>4, <1>5, <1>6, <1>10, NoSteps DEF ThreeBefore
<1>12. QED
  BY <1>7, <1>9, <1>11 DEF x, y, z, SyncWrite

LEMMA SettleBegins ==
    ASSUME NEW id \in Settlement
    PROVE  LET s == SettleGame(id) IN
           s \in Seq(SafeStep) /\ WellFormed(s) /\ BeginsWell(StepsOf(s))
<1> DEFINE w == Winner[id]
           l == Loser[id]
           mutate(u) == [step |-> "mutate", user |-> u, loaded |-> FALSE]
           flush_w == Flush(w)
           flush_l == Flush(l)
           settle == [step |-> "settle", id |-> id]
           load_w == Reload(w, FALSE)
           bump_w == mutate(w)
           load_l == Reload(l, FALSE)
           bump_l == mutate(l)
<1>1. w \in UserId /\ l \in UserId /\ w # l
  BY RepositoryAssumption
<1> HIDE DEF w, l
<1>2. /\ flush_w \in SafeStep /\ flush_w.step = "flush" /\ flush_w.user = w
      /\ flush_l \in SafeStep /\ flush_l.step = "flush" /\ flush_l.user = l
  BY <1>1 DEF Flush, ReadStep, SafeStep
<1>3. settle \in SafeStep /\ settle.step = "settle" /\ settle.id = id
  BY DEF SettleStep, SafeStep
<1>4. /\ load_w \in SafeStep /\ load_w.step = "load" /\ load_w.user = w /\ load_w.sync = FALSE
      /\ load_l \in SafeStep /\ load_l.step = "load" /\ load_l.user = l /\ load_l.sync = FALSE
  BY <1>1 DEF Reload, LoadStep, SafeStep
<1>5. /\ bump_w \in SafeStep /\ bump_w.step = "mutate" /\ bump_w.user = w
      /\ bump_l \in SafeStep /\ bump_l.step = "mutate" /\ bump_l.user = l
  BY <1>1 DEF MutateStep, SafeStep
<1>6. Players(id) = {w, l}
  BY DEF Players, w, l
<1> DEFINE s2 == <<load_l, bump_l>> \o <<>>
           s4 == <<load_w, bump_w>> \o s2
           s7 == <<flush_w, flush_l, settle>> \o s4
<1>7. SettleGame(id) = s7
  <2>1. BumpStats(w) = <<load_w, bump_w>> /\ BumpStats(l) = <<load_l, bump_l>>
    BY DEF BumpStats
  <2>2. SettleGame(id) = <<flush_w, flush_l, settle>> \o BumpStats(w) \o BumpStats(l)
    BY DEF SettleGame, w, l
  <2> HIDE DEF flush_w, flush_l, settle, load_w, bump_w, load_l, bump_l
  <2> DEFINE a == <<flush_w, flush_l, settle>>
             b == <<load_w, bump_w>>
             c == <<load_l, bump_l>>
  <2>3. a \in Seq(SafeStep) /\ b \in Seq(SafeStep) /\ c \in Seq(SafeStep)
    BY <1>2, <1>3, <1>4, <1>5, Tuples
  <2>4. SettleGame(id) = a \o b \o c
    BY <2>1, <2>2
  <2>5. c = s2
    BY <2>3, ConcatEmptySeq
  <2> HIDE DEF a, b, c
  <2>6. a \o b \o c = a \o (b \o c)
    BY <2>3, ConcatAssociative
  <2>7. QED
    BY <2>4, <2>5, <2>6 DEF a, b
<1> HIDE DEF flush_w, flush_l, settle, load_w, bump_w, load_l, bump_l
<1>8. TwoBefore(SafeStep, s2, load_l, bump_l, <<>>)
  BY <1>4, <1>5, EmptySeq, PairBefore
<1> HIDE DEF s2
<1>9. TwoBefore(SafeStep, s4, load_w, bump_w, s2)
  BY <1>4, <1>5, <1>8, PairBefore DEF TwoBefore
<1> HIDE DEF s4
<1>10. ThreeBefore(SafeStep, s7, flush_w, flush_l, settle, s4)
  BY <1>2, <1>3, <1>9, TripleBefore DEF TwoBefore
<1> HIDE DEF s7
<1>11. StepsOf(s2) = {load_l, bump_l} /\ s2 \in Seq(SafeStep) /\ WellFormed(s2)
  <2>1. Fits(bump_l, {})
    BY <1>5 DEF Fits, OnlyBumps, Flushing, Loading
  <2>2. Fits(load_l, {bump_l})
    BY <1>4, <1>5 DEF Fits, OnlyBumps, Flushing, Loading, Waiting
  <2>3. QED
    BY <1>8, <2>1, <2>2, NoSteps DEF TwoBefore
<1>12. /\ StepsOf(s4) = {load_w, bump_w, load_l, bump_l}
       /\ s4 \in Seq(SafeStep) /\ WellFormed(s4)
  <2>1. Fits(bump_w, {load_l, bump_l})
    BY <1>1, <1>4, <1>5 DEF Fits, OnlyBumps, Bumps, Flushing, Loading, Waiting
  <2>2. OnlyBumps({bump_w} \cup {load_l, bump_l})
    BY <1>4, <1>5 DEF OnlyBumps, Bumps
  <2>3. Fits(load_w, {bump_w} \cup {load_l, bump_l})
    BY <1>4, <1>5, <2>2 DEF Fits, Flushing, Loading, Waiting
  <2>4. QED
    BY <1>9, <1>11, <2>1, <2>3 DEF TwoBefore
<1>13. /\ StepsOf(s7) = {flush_w, flush_l, settle, load_w, bump_w, load_l, bump_l}
       /\ s7 \in Seq(SafeStep) /\ WellFormed(s7)
  <2> DEFINE R == {load_w, bump_w, load_l, bump_l}
  <2>1. OnlyBumps(R)
    BY <1>4, <1>5 DEF OnlyBumps, Bumps
  <2>2. \A u \in UserId : Bumps(R, u) <=> u \in Players(id)
    BY <1>4, <1>5, <1>6 DEF Bumps
  <2>3. \A u \in Players(id) : Loads(R, u)
    BY <1>4, <1>6 DEF Loads
  <2>4. \A x \in R : x.step \in {"load", "mutate"}
    BY <1>4, <1>5
  <2>5. StepsOf(s4) = R
    BY <1>12
  <2> HIDE DEF R
  <2>6. Fits(settle, R)
    BY <1>3, <2>1, <2>2, <2>3, <2>4 DEF Fits, Flushing, Loading, Waiting
  <2>7. HasTransaction({settle} \cup R) /\ HasTransaction({flush_l, settle} \cup R)
    BY <1>3 DEF HasTransaction
  <2>8. Fits(flush_l, {settle} \cup R)
    BY <1>2, <1>3, <2>4, <2>7 DEF Fits, Flushing, Loading, Waiting
  <2>9. Fits(flush_w, {flush_l, settle} \cup R)
    BY <1>2, <1>3, <2>4, <2>7 DEF Fits, Flushing, Loading, Waiting
  <2>10. s7 \in Seq(SafeStep) /\ WellFormed(s7) /\ StepsOf(s7) = {flush_w, flush_l, settle} \cup R
    BY <1>10, <1>12, <2>5, <2>6, <2>8, <2>9 DEF ThreeBefore
  <2>11. QED
    BY <2>10 DEF R
<1>14. BeginsWell({flush_w, flush_l, settle, load_w, bump_w, load_l, bump_l})
  BY <1>2, <1>3, <1>4, <1>5 DEF BeginsWell, Owed, Bumps
<1>15. QED
  BY <1>7, <1>13, <1>14

LEMMA OperationBegins ==
    ASSUME CachesAreSafe, NEW op \in Operation
    PROVE  op \in Seq(SafeStep) /\ WellFormed(op) /\ BeginsWell(StepsOf(op))
<1>1. ASSUME NEW u \in UserId, op = GetReadonly(u) \/ op = FlushPlayer(u)
      PROVE  op \in Seq(SafeStep) /\ WellFormed(op) /\ BeginsWell(StepsOf(op))
  <2> DEFINE x == [step |-> "read", user |-> u]
             y == Flush(u)
  <2>1. x \in SafeStep /\ x.step = "read" /\ y \in SafeStep /\ y.step = "flush"
    BY DEF Flush, ReadStep, SafeStep
  <2>2. op = <<x>> \/ op = <<y>>
    BY <1>1 DEF GetReadonly, FlushPlayer
  <2> HIDE DEF x, y
  <2>3. QED
    BY <2>1, <2>2, OneBegins
<1>2. ASSUME NEW u \in UserId, NEW k \in Key \cup {None}, op = SyncWrite(u, k)
      PROVE  op \in Seq(SafeStep) /\ WellFormed(op) /\ BeginsWell(StepsOf(op))
  BY <1>2, SyncWriteBegins
<1>3. ASSUME NEW u \in UserId, NEW k \in Key \cup {None}, op = <<Commit(u, k), Evict(u)>>
      PROVE  op \in Seq(SafeStep) /\ WellFormed(op) /\ BeginsWell(StepsOf(op))
  BY <1>3, LevelBegins
<1>8. ASSUME NEW u \in UserId, NEW k \in Key, op = ClaimInbox(u, k)
      PROVE  op \in Seq(SafeStep) /\ WellFormed(op) /\ BeginsWell(StepsOf(op))
  <2> DEFINE x == [step |-> "claim", user |-> u, key |-> k]
  <2>1. x \in SafeStep /\ x.step = "claim"
    BY DEF CommitStep, SafeStep
  <2>2. op = <<x>>
    BY <1>8 DEF ClaimInbox
  <2> HIDE DEF x
  <2>3. QED
    BY <2>1, <2>2, OneBegins
<1>4. ASSUME NEW id \in Settlement, op = SettleGame(id)
      PROVE  op \in Seq(SafeStep) /\ WellFormed(op) /\ BeginsWell(StepsOf(op))
  BY <1>4, SettleBegins
<1>5. ASSUME NEW u \in UserId, IsDirty(cache[u]), NEW due \in SUBSET dirty_buckets(cache[u]),
             due # {}, op = TickFlush(u, due)
      PROVE  op \in Seq(SafeStep) /\ WellFormed(op) /\ BeginsWell(StepsOf(op))
  <2> DEFINE x == [step |-> "snapshot", user |-> u, buckets |-> due]
  <2>1. cache[u] \in Entry
    BY <1>5 DEF IsDirty, CachesAreSafe
  <2>2. due = {"Stats"}
    BY <1>5, <2>1, DirtyIsStats
  <2>3. x \in SafeStep /\ x.step = "snapshot" /\ "Stats" \in x.buckets
    BY <2>2 DEF SnapshotStep, SafeStep
  <2>4. op = <<x>>
    BY <1>5 DEF TickFlush
  <2> HIDE DEF x
  <2>5. QED
    BY <2>3, <2>4, OneBegins
<1>6. \/ \E u \in UserId : op = GetReadonly(u) \/ op = FlushPlayer(u)
      \/ \E u \in UserId, k \in Key \cup {None} : op = SyncWrite(u, k)
      \/ \E u \in UserId, k \in Key \cup {None} : op = <<Commit(u, k), Evict(u)>>
      \/ \E u \in UserId, k \in Key : op = ClaimInbox(u, k)
      \/ \E id \in Settlement : op = SettleGame(id)
      \/ \E u \in UserId : /\ IsDirty(cache[u])
                           /\ \E due \in SUBSET dirty_buckets(cache[u]) :
                                  due # {} /\ op = TickFlush(u, due)
  BY DEF Operation, Purchase, RedeemInvite, ClaimQuestReward, CompleteLevel, TriggerQuestEvent
<1>7. QED
  BY <1>1, <1>2, <1>3, <1>4, <1>5, <1>6, <1>8

LEMMA StartDoes ==
    ASSUME CachesAreSafe, ListsFit, NEW t \in Task, Start(t)
    PROVE  Work(t) = {} /\ ListsFit' /\ \E X : BeginsWell(X) /\ Does(t, X)
<1>1. PICK op \in Operation : todo' = [todo EXCEPT ![t] = op]
  BY DEF Start
<1>2. op \in Seq(SafeStep) /\ WellFormed(op) /\ BeginsWell(StepsOf(op))
  BY OperationBegins
<1>3. todo \in [Task -> Seq(SafeStep)]
  BY DEF CachesAreSafe
<1>4. \A o \in Task : todo'[o] = IF o = t THEN op ELSE todo[o]
  BY <1>1, <1>3
<1>5. ListsFit' /\ Does(t, StepsOf(op))
  BY <1>2, <1>4 DEF ListsFit, Does, Work
<1>6. Work(t) = {}
  BY NoSteps DEF Start, Work
<1>7. QED
  BY <1>2, <1>5, <1>6

-------------------------------------------------------------------------------
(* No game is counted twice                                                   *)

Busy == {t \in Task : Work(t) # {}}
Owing(u) == {t \in Task : Owed(Work(t), u)}

\* A count of n games of u leaves room for those still to be counted.
Room(u, n) == n + Cardinality(Owing(u)) <= Cardinality(GamesOf(u))

Shows(x, u, n) ==
    /\ x.user = u
    /\ \/ x \in PutStep /\ n = x.aggregate.Stats
       \/ x \in SaveStep \cup MarkStep /\ n = x.entry.aggregate.Stats

\* n games of u are counted by the database, by the cache, or by what a future
\* is about to put there.
Counted(u, n) ==
    \/ n = db[u].Stats
    \/ cache[u] # None /\ n = cache[u].aggregate.Stats
    \/ \E t \in Task : \E x \in Work(t) : Shows(x, u, n)

RoomInv ==
    /\ ListsFit
    /\ games \subseteq Settlement
    /\ IsFiniteSet(Busy)
    /\ \A u \in UserId : \A n \in Nat : Counted(u, n) => Room(u, n)

RoomKept == \A u \in UserId : \A n \in Nat : Room(u, n) => Room(u, n)'
CountsKept == \A u \in UserId : \A n \in Nat : Counted(u, n)' => Counted(u, n)

LEMMA FiniteSets ==
    ASSUME RoomInv, NEW u
    PROVE  /\ IsFiniteSet(Owing(u)) /\ Cardinality(Owing(u)) \in Nat
           /\ IsFiniteSet(GamesOf(u)) /\ Cardinality(GamesOf(u)) \in Nat
<1>1. Owing(u) \subseteq Busy /\ GamesOf(u) \subseteq Settlement
  BY DEF RoomInv, Owing, Busy, Owed, Bumps, GamesOf
<1>2. QED
  BY <1>1, RepositoryAssumption, FS_Subset, FS_CardinalityType DEF RoomInv

LEMMA BusyIsFinite ==
    ASSUME RoomInv, NEW t \in Task, NEW X, Does(t, X)
    PROVE  IsFiniteSet(Busy)'
<1>1. IsFiniteSet(Busy \cup {t})
  BY FS_AddElement DEF RoomInv
<1>2. Busy' \subseteq Busy \cup {t}
  BY DEF Busy, Does
<1>3. QED
  BY <1>1, <1>2, FS_Subset

LEMMA FewerOwing ==
    ASSUME RoomInv, \A u \in UserId : Owing(u)' \subseteq Owing(u), games' = games
    PROVE  RoomKept
<1> SUFFICES ASSUME NEW u \in UserId, NEW n \in Nat, Room(u, n) PROVE Room(u, n)'
  BY DEF RoomKept
<1>1. Cardinality(Owing(u)') <= Cardinality(Owing(u)) /\ Cardinality(Owing(u)') \in Nat
  BY FiniteSets, FS_Subset, FS_CardinalityType
<1>2. GamesOf(u)' = GamesOf(u)
  BY DEF GamesOf
<1>3. QED
  BY <1>1, <1>2, FiniteSets DEF Room

\* A step leaves to be counted only what was to be counted before.
Less(X, h, R) ==
    /\ R \subseteq X
    /\ \A x \in X : x \in R \/ x.step # "mutate" \/ (h.step = "mutate" /\ x.user = h.user)

LEMMA OwedBefore ==
    ASSUME NEW t \in Task, NEW h, NEW R, Working(t, h, R), h.step # "settle",
           NEW X, Less(X, h, R), NEW u, Owed(X, u)
    PROVE  Owed(Work(t), u)
  BY DEF Working, Less, Owed, Bumps

LEMMA OwingBefore ==
    ASSUME NEW t \in Task, NEW X, Does(t, X), \A u \in UserId : Owed(X, u) => Owed(Work(t), u)
    PROVE  \A u \in UserId : Owing(u)' \subseteq Owing(u)
<1> SUFFICES ASSUME NEW u \in UserId, NEW o \in Task, Owed(Work(o), u)' PROVE Owed(Work(o), u)
  BY DEF Owing, Owed, Bumps
<1>1. CASE o = t
  BY <1>1 DEF Does
<1>2. CASE o # t
  BY <1>2 DEF Does
<1>3. QED
  BY <1>1, <1>2

LEMMA NothingOwed ==
    \A u \in UserId : ~Owed({}, u)
  BY DEF Owed, Bumps

\* A step of t that is no transaction leaves X to be done: there is room as before.
LEMMA GoesOnWithRoom ==
    ASSUME RoomInv, NEW t \in Task, NEW h, NEW R, Working(t, h, R), h.step # "settle",
           NEW X, Does(t, X), Less(X, h, R) \/ X = {}, games' = games
    PROVE  RoomKept /\ IsFiniteSet(Busy)'
<1>1. \A u \in UserId : Owed(X, u) => Owed(Work(t), u)
  BY OwedBefore, NothingOwed
<1>2. \A u \in UserId : Owing(u)' \subseteq Owing(u)
  BY <1>1, OwingBefore
<1>3. QED
  BY <1>2, FewerOwing, BusyIsFinite

LEMMA CountsComeFrom ==
    ASSUME NEW t \in Task, NEW X, Does(t, X),
           \A x \in X : x \in Work(t) \/ (\A u \in UserId : \A n \in Nat : Shows(x, u, n) => Counted(u, n)),
           \A u \in UserId : Counted(u, (db[u].Stats)'),
           \A u \in UserId : cache'[u] # None => Counted(u, cache'[u].aggregate.Stats)
    PROVE  CountsKept
<1> SUFFICES ASSUME NEW u \in UserId, NEW n \in Nat, Counted(u, n)' PROVE Counted(u, n)
  BY DEF CountsKept
<1>1. CASE n = db'[u].Stats \/ (cache'[u] # None /\ n = cache'[u].aggregate.Stats)
  BY <1>1
<1>2. CASE \E o \in Task : \E x \in Work(o)' : Shows(x, u, n)
  <2>1. PICK o \in Task : \E x \in Work(o)' : Shows(x, u, n)
    BY <1>2
  <2>2. CASE o = t
    BY <2>1, <2>2 DEF Does, Counted
  <2>3. CASE o # t
    BY <2>1, <2>3 DEF Does, Counted
  <2>4. QED
    BY <2>2, <2>3
<1>3. QED
  BY <1>1, <1>2 DEF Counted, Shows

LEMMA RoomFrom ==
    ASSUME RoomInv, ListsFit', games' = games, RoomKept, IsFiniteSet(Busy)', CountsKept
    PROVE  RoomInv'
  BY DEF RoomInv, RoomKept, CountsKept

\* Steps that change neither cache nor database, and copy a count at most.
LEMMA QuietRoom ==
    ASSUME RoomInv, ListsFit', NEW t \in Task, NEW h, NEW R, Working(t, h, R), h.step # "settle",
           NEW X, Does(t, X), Less(X, h, R) \/ X = {}, games' = games,
           \A x \in X : x \in R \/ (\A u \in UserId : \A n \in Nat : Shows(x, u, n) => Counted(u, n)),
           db' = db, \A u \in UserId : cache'[u] = cache[u] \/ cache'[u] = None
    PROVE  RoomInv'
<1>1. RoomKept /\ IsFiniteSet(Busy)'
  BY GoesOnWithRoom
<1>2. CountsKept
  <2>1. \A x \in X : x \in Work(t)
                     \/ (\A u \in UserId : \A n \in Nat : Shows(x, u, n) => Counted(u, n))
    BY DEF Working
  <2>2. \A u \in UserId : Counted(u, (db[u].Stats)')
    BY DEF Counted
  <2>3. \A u \in UserId : cache'[u] # None => Counted(u, cache'[u].aggregate.Stats)
    BY DEF Counted
  <2>4. QED
    BY <2>1, <2>2, <2>3, CountsComeFrom
<1>3. QED
  BY <1>1, <1>2, RoomFrom

LEMMA ShowsNothing ==
    ASSUME NEW x, x.step \notin {"put", "or_put", "save", "mark"}
    PROVE  \A u \in UserId : \A n \in Nat : Shows(x, u, n) => Counted(u, n)
  BY DEF Shows, PutStep, SaveStep, MarkStep

\* What the head of t shows is counted.
LEMMA ShownByHead ==
    ASSUME NEW t \in Task, NEW h, NEW R, Working(t, h, R)
    PROVE  /\ h \in PutStep => Counted(h.user, h.aggregate.Stats)
           /\ h \in SaveStep \cup MarkStep => Counted(h.user, h.entry.aggregate.Stats)
<1>1. h \in Work(t)
  BY DEF Working
<1>2. QED
  BY <1>1 DEF Counted, Shows

LEMMA ReadsRoom ==
    ASSUME CachesAreSafe, RoomInv, NEW t \in Task,
           \/ ReadCached(t) \/ LoadAssets(t) \/ LoadStats(t) \/ LoadFails(t)
           \/ Put(t) \/ Remove(t)
    PROVE  RoomInv'
<1> DEFINE h == Head(todo[t])
           R == Rest(todo[t])
<1>0. ListsFit /\ todo[t] # <<>>
  BY DEF RoomInv, ReadCached, LoadAssets, LoadStats, LoadFails, Put, Remove, Doing
<1>1. Working(t, h, R)
  BY <1>0, WorkIsWellFormed
<1>2. games' = games /\ db' = db
  BY DEF ReadCached, LoadAssets, LoadStats, LoadFails, Put, Remove, dbVars
<1>3. /\ Less(R, h, R) /\ \A x : x.step # "mutate" => Less({x} \cup R, h, R)
  BY DEF Less
<1>4. cache \in [UserId -> Entry \cup {None}]
  BY DEF CachesAreSafe
<1> HIDE DEF h, R
<1>5. CASE ReadCached(t)
  <2>1. /\ h \in ReadStep /\ h.step = "read" /\ ListsFit'
        /\ Does(t, R) \/ Does(t, {Reload(h.user, FALSE)} \cup R)
    BY <1>0, <1>1, <1>5, ReadDoes
  <2>2. cache' = cache
    BY <1>5 DEF ReadCached
  <2>3. Reload(h.user, FALSE).step = "load"
    BY DEF Reload
  <2>4. QED
    BY <1>1, <1>2, <1>3, <2>1, <2>2, <2>3, ShowsNothing, QuietRoom
<1>6. CASE LoadAssets(t)
  <2>1. h \in LoadStep /\ Inserted(h) \in InsertStep /\ ListsFit' /\ Does(t, {Inserted(h)} \cup R)
    BY <1>0, <1>1, <1>6, LoadAssetsDoes
  <2>2. cache' = cache
    BY <1>6 DEF LoadAssets
  <2>3. Inserted(h).step \in {"insert", "or_insert"} /\ h.step # "settle"
    BY <2>1 DEF InsertStep, LoadStep
  <2>4. QED
    BY <1>1, <1>2, <1>3, <2>1, <2>2, <2>3, ShowsNothing, QuietRoom
<1>7. CASE LoadStats(t)
  <2>1. h \in InsertStep /\ Loaded(h) \in PutStep /\ ListsFit' /\ Does(t, {Loaded(h)} \cup R)
    BY <1>0, <1>1, <1>7, LoadStatsDoes
  <2>2. cache' = cache
    BY <1>7 DEF LoadStats
  <2>3. Loaded(h).step # "mutate" /\ h.step # "settle"
    BY <2>1 DEF InsertStep, PutStep
  <2>4. \A u \in UserId : \A n \in Nat : Shows(Loaded(h), u, n) => Counted(u, n)
    <3>1. Loaded(h).user = h.user /\ Loaded(h).aggregate.Stats = db[h.user].Stats
      BY DEF Loaded
    <3>2. Loaded(h) \notin SaveStep \cup MarkStep
      BY <2>1 DEF PutStep, SaveStep, MarkStep
    <3>3. QED
      BY <3>1, <3>2 DEF Shows, Counted
  <2>5. QED
    BY <1>1, <1>2, <1>3, <2>1, <2>2, <2>3, <2>4, QuietRoom
<1>8. CASE LoadFails(t)
  <2>1. /\ h \in LoadStep \cup InsertStep /\ ListsFit' /\ (Does(t, R) \/ Does(t, {}))
        /\ cache' = [cache EXCEPT ![h.user] = None] \/ cache' = cache
    BY <1>0, <1>1, <1>8, LoadFailsDoes
  <2>2. \A u \in UserId : cache'[u] = cache[u] \/ cache'[u] = None
    BY <1>4, <2>1
  <2>3. h.step # "settle"
    BY <2>1 DEF LoadStep, InsertStep
  <2>4. QED
    BY <1>1, <1>2, <1>3, <2>1, <2>2, <2>3, QuietRoom
<1>9. CASE Put(t)
  <2>1. /\ h \in PutStep /\ ListsFit' /\ Does(t, R)
        /\ cache' = IF h.step = "or_put" /\ cache[h.user] # None THEN cache
                    ELSE [cache EXCEPT ![h.user] = clean(h.aggregate)]
    BY <1>0, <1>1, <1>9, PutDoes
  <2>2. h.step # "settle"
    BY <2>1 DEF PutStep
  <2>3. RoomKept /\ IsFiniteSet(Busy)'
    BY <1>1, <1>2, <1>3, <2>1, <2>2, GoesOnWithRoom
  <2>4. \A u \in UserId : cache'[u] # None => Counted(u, cache'[u].aggregate.Stats)
    <3>1. Counted(h.user, clean(h.aggregate).aggregate.Stats)
      BY <1>1, <2>1, ShownByHead DEF clean
    <3>2. \A u \in UserId : cache'[u] = cache[u] \/ (u = h.user /\ cache'[u] = clean(h.aggregate))
      BY <1>4, <2>1
    <3>3. QED
      BY <3>1, <3>2 DEF Counted
  <2>5. \A u \in UserId : Counted(u, (db[u].Stats)')
    BY <1>2 DEF Counted
  <2>6. \A x \in R : x \in Work(t)
    BY <1>1 DEF Working
  <2>7. CountsKept
    BY <2>1, <2>4, <2>5, <2>6, CountsComeFrom
  <2>8. QED
    BY <1>2, <2>1, <2>3, <2>7, RoomFrom
<1>10. CASE Remove(t)
  <2>1. /\ h \in ReadStep /\ h.step = "evict" /\ ListsFit' /\ Does(t, R)
        /\ cache' = [cache EXCEPT ![h.user] = None]
    BY <1>0, <1>1, <1>10, RemoveDoes
  <2>2. \A u \in UserId : cache'[u] = cache[u] \/ cache'[u] = None
    BY <1>4, <2>1
  <2>3. QED
    BY <1>1, <1>2, <1>3, <2>1, <2>2, QuietRoom
<1>11. QED
  BY <1>5, <1>6, <1>7, <1>8, <1>9, <1>10

LEMMA FlushRoom ==
    ASSUME CachesAreSafe, RoomInv, NEW t \in Task,
           \/ FlushStart(t) \/ Snapshot(t) \/ SaveBucket(t) \/ SaveFails(t)
           \/ MarkFlushed(t) \/ FlushEnds(t)
    PROVE  RoomInv'
<1> DEFINE h == Head(todo[t])
           R == Rest(todo[t])
<1>0. ListsFit /\ todo[t] # <<>>
  BY DEF RoomInv, FlushStart, Snapshot, SaveBucket, SaveFails, MarkFlushed, FlushEnds, Doing
<1>1. Working(t, h, R)
  BY <1>0, WorkIsWellFormed
<1>2. games' = games
  BY DEF FlushStart, Snapshot, SaveBucket, SaveFails, MarkFlushed, FlushEnds, dbVars
<1>3. Less(R, h, R) /\ \A x : x.step # "mutate" => Less({x} \cup R, h, R)
  BY DEF Less
<1>4. cache \in [UserId -> Entry \cup {None}] /\ db \in [UserId -> Aggregate]
  BY DEF CachesAreSafe
<1>5. \A x \in R : x \in Work(t)
  BY <1>1 DEF Working
<1> HIDE DEF h, R
<1>6. CASE FlushStart(t)
  <2>1. /\ h \in ReadStep /\ h.step = "flush" /\ ListsFit'
        /\ Does(t, R) \/ Does(t, {Copied(h.user, cache[h.user])} \cup R)
    BY <1>0, <1>1, <1>6, FlushDoes
  <2>2. cache' = cache /\ db' = db
    BY <1>6 DEF FlushStart, dbVars
  <2>3. Copied(h.user, cache[h.user]).step = "snapshot"
    BY DEF Copied
  <2>4. QED
    BY <1>1, <1>2, <1>3, <2>1, <2>2, <2>3, ShowsNothing, QuietRoom
<1>7. CASE Snapshot(t)
  <2> DEFINE x == Saving(h, h.buckets, cache[h.user], FALSE)
  <2>1. /\ h \in SnapshotStep /\ ListsFit'
        /\ \/ Does(t, R)
           \/ cache[h.user] # None /\ x \in SaveStep /\ Does(t, {x} \cup R)
    BY <1>0, <1>1, <1>7, SnapshotDoes
  <2>2. cache' = cache /\ db' = db
    BY <1>7 DEF Snapshot, dbVars
  <2>3. x.step = "save" /\ x.user = h.user /\ x.entry = cache[h.user]
    BY DEF Saving
  <2>4. h.step # "settle"
    BY <2>1 DEF SnapshotStep
  <2> HIDE DEF x
  <2>5. x \notin PutStep
    BY <2>3 DEF PutStep
  <2>6. cache[h.user] # None =>
            \A u \in UserId : \A n \in Nat : Shows(x, u, n) => Counted(u, n)
    BY <2>3, <2>5 DEF Shows, Counted
  <2>7. Less({x} \cup R, h, R)
    BY <1>3, <2>3
  <2>8. CASE Does(t, R)
    BY <1>1, <1>2, <1>3, <2>1, <2>2, <2>4, <2>8, QuietRoom
  <2>9. CASE cache[h.user] # None /\ Does(t, {x} \cup R)
    BY <1>1, <1>2, <2>1, <2>2, <2>4, <2>6, <2>7, <2>9, QuietRoom
  <2>10. QED
    BY <2>1, <2>8, <2>9
<1>8. CASE SaveBucket(t)
  <2> DEFINE x == Marking(h, "Stats")
  <2>1. /\ h \in SaveStep /\ ListsFit' /\ x \in MarkStep /\ Does(t, {x} \cup R)
        /\ db' = [db EXCEPT ![h.user] = [@ EXCEPT !["Stats"] = h.entry.aggregate["Stats"]]]
    BY <1>0, <1>1, <1>8, SaveDoes
  <2>2. cache' = cache
    BY <1>8 DEF SaveBucket
  <2>3. x.step = "mark" /\ x.user = h.user /\ x.entry = h.entry
    BY DEF Marking
  <2>4. h.step # "settle" /\ h.user \in UserId
    BY <2>1 DEF SaveStep
  <2> HIDE DEF x
  <2>5. x \notin PutStep
    BY <2>3 DEF PutStep
  <2>6. Counted(h.user, h.entry.aggregate.Stats)
    BY <1>1, <2>1, ShownByHead
  <2>7. RoomKept /\ IsFiniteSet(Busy)'
    BY <1>1, <1>2, <1>3, <2>1, <2>3, <2>4, GoesOnWithRoom
  <2>8. \A u \in UserId : \A n \in Nat : Shows(x, u, n) => Counted(u, n)
    BY <2>3, <2>5, <2>6 DEF Shows
  <2>9. \A u \in UserId : Counted(u, (db[u].Stats)')
    <3>1. \A u \in UserId : u # h.user => db'[u] = db[u]
      BY <1>4, <2>1
    <3>2. db'[h.user].Stats = h.entry.aggregate.Stats
      BY <1>4, <2>1, <2>4 DEF Aggregate
    <3>3. QED
      BY <2>6, <3>1, <3>2 DEF Counted
  <2>10. \A u \in UserId : cache'[u] # None => Counted(u, cache'[u].aggregate.Stats)
    BY <2>2 DEF Counted
  <2>11. CountsKept
    BY <1>5, <2>1, <2>8, <2>9, <2>10, CountsComeFrom
  <2>12. QED
    BY <1>2, <2>1, <2>7, <2>11, RoomFrom
<1>9. CASE SaveFails(t)
  <2> DEFINE x == Failing(h)
  <2>1. /\ h \in SaveStep /\ ListsFit' /\ Does(t, {x} \cup R)
        /\ x \in SaveStep /\ x.user = h.user /\ x.entry = h.entry
    BY <1>0, <1>1, <1>9, SaveFailsDoes
  <2>2. cache' = cache /\ db' = db
    BY <1>9 DEF SaveFails, dbVars
  <2> HIDE DEF x
  <2>3. x.step = "save" /\ x \notin PutStep /\ h.step # "settle"
    BY <2>1 DEF SaveStep, PutStep
  <2>4. \A u \in UserId : \A n \in Nat : Shows(x, u, n) => Counted(u, n)
    BY <1>1, <2>1, <2>3, ShownByHead DEF Shows
  <2>5. Less({x} \cup R, h, R)
    BY <1>3, <2>3
  <2>6. QED
    BY <1>1, <1>2, <2>1, <2>2, <2>3, <2>4, <2>5, QuietRoom
<1>10. CASE MarkFlushed(t)
  <2> DEFINE x == Saving(h, h.buckets, h.entry, h.failed)
  <2>1. /\ h \in MarkStep /\ ListsFit' /\ x \in SaveStep /\ Does(t, {x} \cup R)
        /\ cache' = IF Unchanged(cache[h.user], h)
                    THEN [cache EXCEPT ![h.user].dirty["Stats"] = 0] ELSE cache
    BY <1>0, <1>1, <1>10, MarkDoes
  <2>2. db' = db
    BY <1>10 DEF MarkFlushed, dbVars
  <2>3. x.step = "save" /\ x.user = h.user /\ x.entry = h.entry
    BY DEF Saving
  <2>4. h.step # "settle" /\ h.user \in UserId
    BY <2>1 DEF MarkStep
  <2> HIDE DEF x
  <2>5. x \notin PutStep
    BY <2>3 DEF PutStep
  <2>6. RoomKept /\ IsFiniteSet(Busy)'
    BY <1>1, <1>2, <1>3, <2>1, <2>3, <2>4, GoesOnWithRoom
  <2>7. \A u \in UserId : \A n \in Nat : Shows(x, u, n) => Counted(u, n)
    BY <1>1, <2>1, <2>3, <2>5, ShownByHead DEF Shows
  <2>8. \A u \in UserId : Counted(u, (db[u].Stats)')
    BY <2>2 DEF Counted
  <2>9. \A u \in UserId : cache'[u] # None => Counted(u, cache'[u].aggregate.Stats)
    <3>1. \A u \in UserId : u # h.user => cache'[u] = cache[u]
      BY <1>4, <2>1
    <3>2. CASE Unchanged(cache[h.user], h)
      <4>1. cache[h.user] \in Entry /\ cache[h.user] # None
        BY <1>4, <2>4, <3>2 DEF Unchanged
      <4>2. cache'[h.user].aggregate = cache[h.user].aggregate
        BY <1>4, <2>1, <2>4, <3>2, <4>1 DEF Entry
      <4>3. QED
        BY <3>1, <4>1, <4>2 DEF Counted
    <3>3. CASE ~Unchanged(cache[h.user], h)
      BY <2>1, <3>3 DEF Counted
    <3>4. QED
      BY <3>2, <3>3
  <2>10. CountsKept
    BY <1>5, <2>1, <2>7, <2>8, <2>9, CountsComeFrom
  <2>11. QED
    BY <1>2, <2>1, <2>6, <2>10, RoomFrom
<1>11. CASE FlushEnds(t)
  <2>1. h \in SaveStep /\ ListsFit' /\ (Does(t, {}) \/ Does(t, R))
    BY <1>0, <1>1, <1>11, FlushEndsDoes
  <2>2. cache' = cache /\ db' = db /\ h.step # "settle"
    BY <1>11, <2>1 DEF FlushEnds, dbVars, SaveStep
  <2>3. QED
    BY <1>1, <1>2, <1>3, <2>1, <2>2, QuietRoom
<1>12. QED
  BY <1>6, <1>7, <1>8, <1>9, <1>10, <1>11

\* A game of u is counted by t: t has no other of u to count.
LEMMA OneLessToCount ==
    ASSUME RoomInv, NEW t \in Task, NEW h, NEW R, Working(t, h, R), h \in MutateStep,
           NEW X, Does(t, X), R \subseteq X, \A x \in X : x \in R \/ x.step = "snapshot"
    PROVE  /\ Cardinality(Owing(h.user)') = Cardinality(Owing(h.user)) - 1
           /\ \A v \in UserId : v # h.user => Owing(v)' = Owing(v)
<1>1. h.step = "mutate" /\ h.user \in UserId
  BY DEF MutateStep
<1>2. OnlyBumps(R) /\ (\A x \in R : x.user # h.user) /\ Work(t) = {h} \cup R
  BY <1>1 DEF Working, Fits
<1>3. PICK u \in UserId : u = h.user
  BY <1>1
<1>4. Owed(Work(t), u) /\ ~Owed(X, u)
  BY <1>1, <1>2, <1>3 DEF OnlyBumps, Owed, Bumps
<1>5. \A v \in UserId : v # u => (Owed(X, v) <=> Owed(Work(t), v))
  BY <1>1, <1>2, <1>3 DEF OnlyBumps, Owed, Bumps
<1>6. ASSUME NEW v \in UserId, v # u PROVE Owing(v)' = Owing(v)
  <2>1. \A o \in Task : o \in Owing(v)' <=> o \in Owing(v)
    BY <1>5, <1>6 DEF Owing, Does
  <2>2. QED
    BY <2>1 DEF Owing
<1>7. Owing(u)' = Owing(u) \ {t} /\ t \in Owing(u)
  <2>1. \A o \in Task : o \in Owing(u)' <=> o \in Owing(u) /\ o # t
    BY <1>4 DEF Owing, Does
  <2>2. t \in Owing(u)
    BY <1>4 DEF Owing
  <2>3. QED
    BY <2>1, <2>2 DEF Owing
<1>8. Cardinality(Owing(u)') = Cardinality(Owing(u)) - 1
  BY <1>7, FiniteSets, FS_RemoveElement
<1>9. Cardinality(Owing(h.user)') = Cardinality(Owing(h.user)) - 1
  BY <1>3, <1>8
<1>10. QED
  BY <1>3, <1>6, <1>9

\* A settlement is recorded: t has one more to count for each player.
LEMMA OneMoreToCount ==
    ASSUME RoomInv, NEW t \in Task, NEW h, NEW R, Working(t, h, R), h \in SettleStep,
           Does(t, R), h.id \notin games, games' = games \cup {h.id}, NEW u \in UserId
    PROVE  /\ u \in Players(h.id) =>
                  /\ Cardinality(Owing(u)') = Cardinality(Owing(u)) + 1
                  /\ Cardinality(GamesOf(u)') = Cardinality(GamesOf(u)) + 1
           /\ u \notin Players(h.id) => Owing(u)' = Owing(u) /\ GamesOf(u)' = GamesOf(u)
<1>1. h.step = "settle"
  BY DEF SettleStep
<1>2. ~Owed(Work(t), u) /\ (Owed(R, u) <=> u \in Players(h.id))
  BY <1>1 DEF Working, Fits, Owed, OnlyBumps
<1>3. \A o \in Task : o # t => (o \in Owing(u)' <=> o \in Owing(u))
  BY DEF Owing, Does
<1>4. t \notin Owing(u) /\ (t \in Owing(u)' <=> u \in Players(h.id))
  BY <1>2 DEF Owing, Does
<1>5. CASE u \in Players(h.id)
  <2>1. Owing(u)' = Owing(u) \cup {t}
    BY <1>3, <1>4, <1>5 DEF Owing
  <2>2. GamesOf(u)' = GamesOf(u) \cup {h.id} /\ h.id \notin GamesOf(u)
    BY <1>5 DEF GamesOf, Players
  <2>3. Cardinality(Owing(u)') = Cardinality(Owing(u)) + 1
    BY <1>4, <2>1, FiniteSets, FS_AddElement
  <2>4. Cardinality(GamesOf(u)') = Cardinality(GamesOf(u)) + 1
    BY <2>2, FiniteSets, FS_AddElement
  <2>5. QED
    BY <1>5, <2>3, <2>4
<1>6. CASE u \notin Players(h.id)
  <2>1. Owing(u)' = Owing(u)
    BY <1>3, <1>4, <1>6 DEF Owing
  <2>2. GamesOf(u)' = GamesOf(u)
    BY <1>6 DEF GamesOf, Players
  <2>3. QED
    BY <1>6, <2>1, <2>2
<1>7. QED
  BY <1>5, <1>6

\* A game is counted: one less is still to be counted.
LEMMA MutateRoom ==
    ASSUME CachesAreSafe, RoomInv, NEW t \in Task, Mutate(t)
    PROVE  RoomInv'
<1> DEFINE h == Head(todo[t])
           R == Rest(todo[t])
<1>0. ListsFit /\ todo[t] # <<>>
  BY DEF RoomInv, Mutate, Doing
<1>1. Working(t, h, R)
  BY <1>0, WorkIsWellFormed
<1>2. games' = games /\ db' = db
  BY DEF Mutate, dbVars
<1> HIDE DEF h, R
<1>2a. PICK k, Q, u : k = h /\ Q = R /\ u = k.user
  OBVIOUS
<1>2b. Working(t, k, Q)
  BY <1>1, <1>2a
<1>3. /\ k \in MutateStep /\ ListsFit'
      /\ cache[u] # None /\ cache[u] \in Entry
      /\ Bumped(u).aggregate.Stats = cache[u].aggregate.Stats + 1
      /\ cache' = [cache EXCEPT ![u] = Bumped(u)]
      /\ Does(t, Q) \/ Does(t, {Copied(u, Bumped(u))} \cup Q)
  BY <1>0, <1>2b, <1>2a, MutateDoes
<1>4. /\ k.step = "mutate" /\ u \in UserId
      /\ cache[u].aggregate.Stats \in Nat
  BY <1>3, <1>2a DEF MutateStep, Entry, Aggregate
<1>5. PICK X : /\ Does(t, X) /\ Q \subseteq X
               /\ \A x \in X : x \in Q \/ x.step = "snapshot"
  <2>1. Copied(u, Bumped(u)).step = "snapshot"
    BY DEF Copied
  <2>2. QED
    BY <1>3, <2>1
<1>6. Less(X, k, Q)
  BY <1>5 DEF Less
<1>7. RoomKept /\ IsFiniteSet(Busy)'
  BY <1>2b, <1>2, <1>4, <1>5, <1>6, GoesOnWithRoom
<1>8. ASSUME NEW n \in Nat, Room(u, n) PROVE Room(u, n + 1)'
  <2>1. k.user = u /\ Cardinality(Owing(k.user)') = Cardinality(Owing(k.user)) - 1
    BY <1>1, <1>2a, <1>3, <1>5, OneLessToCount
  <2>2. Cardinality(Owing(u)') = Cardinality(Owing(u)) - 1
    BY <2>1
  <2>3. GamesOf(u)' = GamesOf(u)
    BY <1>2 DEF GamesOf
  <2>4. QED
    BY <1>8, <2>2, <2>3, FiniteSets DEF Room
<1>9. ASSUME NEW v \in UserId, NEW n \in Nat, Counted(v, n)'
      PROVE  Room(v, n)'
  <2>1. CASE v = u /\ n = cache[u].aggregate.Stats + 1
    <3>1. Counted(u, cache[u].aggregate.Stats)
      BY <1>3 DEF Counted
    <3>2. Room(u, cache[u].aggregate.Stats)
      BY <1>4, <3>1 DEF RoomInv
    <3>3. QED
      BY <1>4, <1>8, <2>1, <3>2
  <2>2. CASE n = db'[v].Stats \/ (cache'[v] # None /\ n = cache'[v].aggregate.Stats)
    <3>1. CASE n = db'[v].Stats \/ v # u
      <4>1. Counted(v, n)
        <5>1. v # u => cache'[v] = cache[v]
          BY <1>3 DEF CachesAreSafe
        <5>2. QED
          BY <1>2, <2>2, <3>1, <5>1 DEF Counted
      <4>2. QED
        BY <1>7, <4>1 DEF RoomKept, RoomInv
    <3>2. CASE v = u /\ n # db'[v].Stats
      <4>1. cache'[u] = Bumped(u)
        BY <1>3, <1>4 DEF CachesAreSafe
      <4>2. QED
        BY <1>3, <2>1, <2>2, <3>2, <4>1
    <3>3. QED
      BY <3>1, <3>2
  <2>3. CASE \E o \in Task : \E x \in Work(o)' : Shows(x, v, n)
    <3>1. PICK o \in Task : \E x \in Work(o)' : Shows(x, v, n)
      BY <2>3
    <3>2. PICK x \in Work(o)' : Shows(x, v, n)
      BY <3>1
    <3>3. x.step # "snapshot"
      BY <3>2 DEF Shows, PutStep, SaveStep, MarkStep
    <3>4. x \in Work(o)
      <4>1. CASE o = t
        BY <1>2b, <1>5, <3>2, <3>3, <4>1 DEF Does, Working
      <4>2. CASE o # t
        BY <1>5, <3>2, <4>2 DEF Does
      <4>3. QED
        BY <4>1, <4>2
    <3>5. Counted(v, n)
      BY <3>2, <3>4 DEF Counted
    <3>6. QED
      BY <1>7, <3>5 DEF RoomKept, RoomInv
  <2>4. QED
    BY <1>9, <2>2, <2>3 DEF Counted, Shows
<1>10. QED
  BY <1>2, <1>3, <1>7, <1>9 DEF RoomInv

\* A settlement is recorded: one more is to be counted for each player.
LEMMA SettleRoom ==
    ASSUME CachesAreSafe, RoomInv, NEW t \in Task, SettleTx(t)
    PROVE  RoomInv'
<1> DEFINE h == Head(todo[t])
           R == Rest(todo[t])
<1>0. ListsFit /\ todo[t] # <<>>
  BY DEF RoomInv, SettleTx, Doing
<1>1. Working(t, h, R)
  BY <1>0, WorkIsWellFormed
<1> HIDE DEF h, R
<1>2. /\ h \in SettleStep /\ ListsFit' /\ Does(t, R) /\ Changed(Players(h.id))
      /\ h.id \notin games /\ games' = games \cup {h.id}
  BY <1>0, <1>1, SettleDoes
<1>3. h.id \in Settlement
  BY <1>2 DEF SettleStep
<1>4. RoomKept
  <2> SUFFICES ASSUME NEW u \in UserId, NEW n \in Nat, Room(u, n) PROVE Room(u, n)'
    BY DEF RoomKept
  <2>1. CASE u \in Players(h.id)
    <3>1. /\ Cardinality(Owing(u)') = Cardinality(Owing(u)) + 1
          /\ Cardinality(GamesOf(u)') = Cardinality(GamesOf(u)) + 1
      BY <1>1, <1>2, <2>1, OneMoreToCount
    <3>2. QED
      BY <3>1, FiniteSets DEF Room
  <2>2. CASE u \notin Players(h.id)
    <3>1. Owing(u)' = Owing(u) /\ GamesOf(u)' = GamesOf(u)
      BY <1>1, <1>2, <2>2, OneMoreToCount
    <3>2. QED
      BY <3>1 DEF Room
  <2>3. QED
    BY <2>1, <2>2
<1>5. \A x \in R : x \in Work(t)
  BY <1>1 DEF Working
<1>6. \A u \in UserId : Counted(u, (db[u].Stats)')
  <2> SUFFICES ASSUME NEW u \in UserId PROVE db'[u].Stats = db[u].Stats
    BY DEF Counted
  <2>1. QED
    BY <1>2 DEF Changed, CachesAreSafe, Aggregate
<1>7. cache' = cache
  BY DEF SettleTx
<1>8. CountsKept
  BY <1>2, <1>5, <1>6, <1>7, CountsComeFrom DEF Counted
<1>9. games' \subseteq Settlement
  BY <1>2, <1>3 DEF RoomInv
<1>10. QED
  BY <1>2, <1>4, <1>8, <1>9, BusyIsFinite DEF RoomInv, RoomKept, CountsKept

LEMMA OthersRoom ==
    ASSUME CachesAreSafe, RoomInv, NEW t \in Task,
           MutateMissing(t) \/ CommitTx(t) \/ TxRefused(t)
    PROVE  RoomInv'
<1> DEFINE h == Head(todo[t])
           R == Rest(todo[t])
<1>0. ListsFit /\ todo[t] # <<>>
  BY DEF RoomInv, MutateMissing, CommitTx, TxRefused, Doing
<1>1. Working(t, h, R)
  BY <1>0, WorkIsWellFormed
<1>2. games' = games /\ cache' = cache
  BY DEF MutateMissing, CommitTx, TxRefused, dbVars
<1>3. Less(R, h, R)
  BY DEF Less
<1>4. \A x \in R : x \in Work(t)
  BY <1>1 DEF Working
<1> HIDE DEF h, R
<1>5. CASE MutateMissing(t)
  <2> DEFINE x == LoadAgain(h)
             y == Again(h)
  <2>1. /\ h \in MutateStep /\ ListsFit' /\ y \in MutateStep /\ y.user = h.user
        /\ Does(t, {x, y} \cup R) \/ Does(t, {})
    BY <1>0, <1>1, <1>5, MissingDoes
  <2>2. db' = db
    BY <1>5 DEF MutateMissing, dbVars
  <2>3. x.step = "load_or_insert" /\ h.step = "mutate" /\ y.step = "mutate"
    BY <2>1 DEF LoadAgain, MutateStep
  <2> HIDE DEF x, y
  <2>4. Less({x, y} \cup R, h, R)
    BY <2>1, <2>3 DEF Less
  <2>5. QED
    BY <1>1, <1>2, <2>1, <2>2, <2>3, <2>4, ShowsNothing, QuietRoom
<1>6. CASE CommitTx(t)
  <2>1. h \in CommitStep /\ ListsFit' /\ Does(t, R) /\ Changed({h.user})
    BY <1>0, <1>1, <1>6, CommitDoes
  <2>2. h.step # "settle"
    BY <2>1 DEF CommitStep
  <2>3. RoomKept /\ IsFiniteSet(Busy)'
    BY <1>1, <1>2, <1>3, <2>1, <2>2, GoesOnWithRoom
  <2>4. \A u \in UserId : Counted(u, (db[u].Stats)')
    <3> SUFFICES ASSUME NEW u \in UserId PROVE db'[u].Stats = db[u].Stats
      BY DEF Counted
    <3>1. QED
      BY <2>1 DEF Changed, CachesAreSafe, Aggregate
  <2>5. CountsKept
    BY <1>2, <1>4, <2>1, <2>4, CountsComeFrom DEF Counted
  <2>6. QED
    BY <1>2, <2>1, <2>3, <2>5, RoomFrom
<1>7. CASE TxRefused(t)
  <2>1. ListsFit' /\ Does(t, {})
    BY <1>0, <1>1, <1>7, RefusedDoes
  <2>2. db' = db
    BY <1>7 DEF TxRefused, dbVars
  <2>3. RoomKept
    BY <1>2, <2>1, NothingOwed, OwingBefore, FewerOwing
  <2>4. CountsKept
    BY <1>2, <2>1, <2>2, CountsComeFrom DEF Counted
  <2>5. QED
    BY <1>2, <2>1, <2>3, <2>4, BusyIsFinite, RoomFrom
<1>8. QED
  BY <1>5, <1>6, <1>7

LEMMA StartRoom ==
    ASSUME CachesAreSafe, RoomInv, NEW t \in Task, Start(t)
    PROVE  RoomInv'
<1>1. PICK X : BeginsWell(X) /\ Does(t, X) /\ ListsFit'
  BY StartDoes DEF RoomInv
<1>2. games' = games /\ cache' = cache /\ db' = db
  BY DEF Start, dbVars
<1>3. RoomKept
  BY <1>1, <1>2, OwingBefore, FewerOwing DEF BeginsWell
<1>4. \A x \in X : x.step \notin {"put", "or_put", "save", "mark"}
  BY <1>1 DEF BeginsWell
<1>5. CountsKept
  BY <1>1, <1>2, <1>4, ShowsNothing, CountsComeFrom DEF Counted
<1>6. QED
  BY <1>1, <1>2, <1>3, <1>5, BusyIsFinite, RoomFrom

LEMMA CrashRoom ==
    ASSUME CachesAreSafe, RoomInv, Crash
    PROVE  RoomInv'
<1>1. /\ \A t \in Task : todo'[t] = <<>>
      /\ \A u \in UserId : cache'[u] = None
      /\ games' = games /\ db' = db
  BY DEF Crash, dbVars
<1>2. ListsFit' /\ \A t \in Task : Work(t)' = {}
  BY <1>1, NoSteps DEF ListsFit, Work
<1>3. IsFiniteSet(Busy)'
  BY <1>2, FS_EmptySet DEF Busy
<1>4. \A u \in UserId : Owing(u)' \subseteq Owing(u)
  BY <1>2 DEF Owing, Owed, Bumps
<1>5. CountsKept
  BY <1>1, <1>2 DEF CountsKept, Counted
<1>6. QED
  BY <1>1, <1>2, <1>3, <1>4, <1>5, FewerOwing, RoomFrom

LEMMA BeginsWithRoom == Init => RoomInv
<1> SUFFICES ASSUME Init PROVE RoomInv
  OBVIOUS
<1>1. /\ \A t \in Task : todo[t] = <<>>
      /\ \A u \in UserId : cache[u] = None /\ db[u].Stats = 0
      /\ games = {}
  BY DEF Init
<1>2. ListsFit /\ \A t \in Task : Work(t) = {}
  BY <1>1, NoSteps DEF ListsFit, Work
<1>3. Busy = {} /\ \A u : Owing(u) = {} /\ GamesOf(u) = {}
  BY <1>1, <1>2 DEF Busy, Owing, Owed, Bumps, GamesOf
<1>4. \A u \in UserId : \A n : Counted(u, n) => n = 0
  BY <1>1, <1>2 DEF Counted
<1>5. Cardinality({}) = 0 /\ IsFiniteSet({})
  BY FS_EmptySet
<1>6. ASSUME NEW u \in UserId, NEW n \in Nat, Counted(u, n) PROVE Room(u, n)
  <2>1. Owing(u) = {} /\ GamesOf(u) = {} /\ n = 0
    BY <1>3, <1>4, <1>6
  <2>2. QED
    BY <1>5, <2>1 DEF Room
<1>7. QED
  BY <1>1, <1>2, <1>3, <1>5, <1>6 DEF RoomInv

LEMMA KeepsRoom == CachesAreSafe /\ RoomInv /\ [Next]_vars => RoomInv'
<1> SUFFICES ASSUME CachesAreSafe, RoomInv, [Next]_vars PROVE RoomInv'
  OBVIOUS
<1>1. CASE Crash
  BY <1>1, CrashRoom
<1>2. ASSUME NEW t \in Task,
             \/ Start(t)
             \/ ReadCached(t) \/ LoadAssets(t) \/ LoadStats(t) \/ LoadFails(t)
             \/ Put(t) \/ Remove(t)
             \/ Mutate(t) \/ MutateMissing(t)
             \/ FlushStart(t) \/ Snapshot(t) \/ SaveBucket(t) \/ SaveFails(t)
             \/ MarkFlushed(t) \/ FlushEnds(t)
             \/ CommitTx(t) \/ SettleTx(t) \/ TxRefused(t)
      PROVE  RoomInv'
  BY <1>2, StartRoom, ReadsRoom, FlushRoom, MutateRoom, SettleRoom, OthersRoom
<1>3. CASE UNCHANGED vars
  <2>1. RoomKept /\ CountsKept
    BY <1>3 DEF vars, dbVars, RoomKept, CountsKept, Room, Counted, Owing, Work, GamesOf
  <2>2. ListsFit' /\ IsFiniteSet(Busy)' /\ games' = games
    BY <1>3 DEF vars, dbVars, RoomInv, ListsFit, Busy, Work
  <2>3. QED
    BY <2>1, <2>2, RoomFrom
<1>4. QED
  BY <1>1, <1>2, <1>3 DEF Next

\* The inductive invariant: wherever a count is or is about to be put, there is
\* room for the games that futures have still to count.
THEOREM RoomInvariant == Spec => []RoomInv
<1>1. Init => RoomInv
  BY BeginsWithRoom
<1>2. RepositoryInv => CachesAreSafe
  BY DEF RepositoryInv
<1>3. CachesAreSafe /\ RoomInv /\ [Next]_vars => RoomInv'
  BY KeepsRoom
<1>4. QED
  BY <1>1, <1>2, <1>3, RepositoryInvariant, PTL DEF Spec

\* No game is counted twice, in the cache or in the database, whatever futures
\* do at the same time, and whatever is retried, reloaded or written again.
THEOREM CountsAreRight == Spec => []NeverCountedTwice
<1>1. CachesAreSafe /\ RoomInv => NeverCountedTwice
  <2> SUFFICES ASSUME CachesAreSafe, RoomInv, NEW u \in UserId
               PROVE  /\ db[u].Stats <= Cardinality(GamesOf(u))
                      /\ cache[u] # None => cache[u].aggregate.Stats <= Cardinality(GamesOf(u))
    BY DEF NeverCountedTwice
  <2>1. db[u].Stats \in Nat /\ (cache[u] # None => cache[u].aggregate.Stats \in Nat)
    BY DEF CachesAreSafe, Aggregate, Entry
  <2>2. Room(u, db[u].Stats) /\ (cache[u] # None => Room(u, cache[u].aggregate.Stats))
    BY <2>1 DEF RoomInv, Counted
  <2>3. QED
    BY <2>1, <2>2, FiniteSets DEF Room
<1>2. RepositoryInv => CachesAreSafe
  BY DEF RepositoryInv
<1>3. QED
  BY <1>1, <1>2, RepositoryInvariant, RoomInvariant, PTL

-------------------------------------------------------------------------------
(* One operation at a time                                                    *)

AllSteps == UNION {Work(t) : t \in Task}

\* Unless operations have overlapped, one future at most has something to do.
Alone ==
    "overlap" \notin spoilt =>
        \A o \in Task, t \in Task : Work(o) # {} /\ Work(t) # {} => o = t

AloneInv == ListsFit /\ Alone

LEMMA AloneGoesOn ==
    ASSUME AloneInv, NEW t \in Task, NEW h, NEW R, Working(t, h, R), NEW X, Does(t, X),
           ListsFit', spoilt \subseteq spoilt'
    PROVE  AloneInv'
<1>1. Work(t) # {}
  BY DEF Working
<1>2. \A o \in Task : Work(o)' # {} => Work(o) # {}
  BY <1>1 DEF Does
<1>3. QED
  BY <1>2 DEF AloneInv, Alone

\* A future that goes on alone: what it has to do is all there is to do.
LEMMA OneAtATime ==
    ASSUME Alone, "overlap" \notin spoilt, NEW t \in Task, NEW h, NEW R, Working(t, h, R),
           NEW X, Does(t, X)
    PROVE  AllSteps = {h} \cup R /\ AllSteps' = X
<1>1. \A o \in Task : o # t => Work(o) = {}
  BY DEF Alone, Working
<1>2. AllSteps = Work(t)
  BY <1>1 DEF AllSteps
<1>3. Work(t)' = X /\ \A o \in Task : o # t => Work(o)' = {}
  BY <1>1 DEF Does
<1>4. AllSteps' = X
  <2>1. \A x : x \in AllSteps' <=> \E o \in Task : x \in Work(o)'
    BY DEF AllSteps
  <2>2. \A x : x \in AllSteps' <=> x \in X
    BY <1>3, <2>1
  <2>3. QED
    BY <2>2
<1>5. QED
  BY <1>2, <1>4 DEF Working

LEMMA StartsAlone ==
    ASSUME CachesAreSafe, AloneInv, NEW t \in Task, Start(t)
    PROVE  /\ AloneInv' /\ spoilt \subseteq spoilt'
           /\ \E X : /\ BeginsWell(X) /\ Does(t, X)
                     /\ "overlap" \notin spoilt' => AllSteps = {} /\ AllSteps' = X
<1>1. Work(t) = {} /\ ListsFit' /\ \E X : BeginsWell(X) /\ Does(t, X)
  BY StartDoes DEF AloneInv
<1>2. PICK X : BeginsWell(X) /\ Does(t, X)
  BY <1>1
<1>3. spoilt' = spoilt \cup {x \in {"overlap"} : \E o \in Task : todo[o] # <<>>}
  BY DEF Start
<1>4. "overlap" \notin spoilt' => \A o \in Task : Work(o) = {}
  BY <1>3, NoSteps DEF Work
<1>5. "overlap" \notin spoilt' => AllSteps = {} /\ AllSteps' = X
  <2> SUFFICES ASSUME "overlap" \notin spoilt' PROVE AllSteps = {} /\ AllSteps' = X
    OBVIOUS
  <2>1. AllSteps = {}
    BY <1>4 DEF AllSteps
  <2>2. Work(t)' = X /\ \A o \in Task : o # t => Work(o)' = {}
    BY <1>2, <1>4 DEF Does
  <2>3. \A x : x \in AllSteps' <=> \E o \in Task : x \in Work(o)'
    BY DEF AllSteps
  <2>4. \A x : x \in AllSteps' <=> x \in X
    BY <2>2, <2>3
  <2>5. QED
    BY <2>1, <2>4
<1>6. Alone'
  <2> SUFFICES ASSUME "overlap" \notin spoilt' PROVE \A o \in Task : Work(o)' # {} => o = t
    BY DEF Alone
  <2>1. QED
    BY <1>2, <1>4 DEF Does
<1>7. QED
  BY <1>1, <1>2, <1>3, <1>5, <1>6 DEF AloneInv

\* A future that still has to count a game spoils the counts if it fails.
LEMMA FailSpoils ==
    ASSUME NEW t \in Task, Fail(t)
    PROVE  /\ spoilt \subseteq spoilt'
           /\ "failure" \notin spoilt' => \A u \in UserId : ~Owed(Work(t), u)
<1>1. spoilt' = spoilt \cup {x \in {"failure"} : OwesStats(todo[t])}
  BY DEF Fail
<1>2. ASSUME NEW u \in UserId, Owed(Work(t), u) PROVE OwesStats(todo[t])
  BY <1>2 DEF Owed, Bumps, Work, StepsOf, OwesStats
<1>3. QED
  BY <1>1, <1>2

LEMMA SpoiltGrows ==
    ASSUME NEW t \in Task,
           \/ ReadCached(t) \/ LoadAssets(t) \/ LoadStats(t) \/ LoadFails(t)
           \/ Put(t) \/ Remove(t)
           \/ Mutate(t) \/ MutateMissing(t)
           \/ FlushStart(t) \/ Snapshot(t) \/ SaveBucket(t) \/ SaveFails(t)
           \/ MarkFlushed(t) \/ FlushEnds(t)
           \/ CommitTx(t) \/ SettleTx(t) \/ TxRefused(t)
    PROVE  spoilt \subseteq spoilt'
<1>1. Fail(t) => spoilt \subseteq spoilt'
  BY DEF Fail
<1>2. CASE ReadCached(t) \/ LoadAssets(t) \/ LoadStats(t) \/ LoadFails(t) \/ Put(t) \/ Remove(t)
  BY <1>1, <1>2 DEF ReadCached, LoadAssets, LoadStats, LoadFails, Put, Remove
<1>3. CASE Mutate(t) \/ MutateMissing(t) \/ CommitTx(t) \/ SettleTx(t) \/ TxRefused(t)
  BY <1>1, <1>3 DEF Mutate, MutateMissing, CommitTx, SettleTx, TxRefused
<1>4. CASE FlushStart(t) \/ Snapshot(t) \/ SaveBucket(t) \/ SaveFails(t) \/ MarkFlushed(t)
           \/ FlushEnds(t)
  BY <1>1, <1>4 DEF FlushStart, Snapshot, SaveBucket, SaveFails, MarkFlushed, FlushEnds
<1>5. QED
  BY <1>2, <1>3, <1>4

LEMMA AloneKeeps == CachesAreSafe /\ AloneInv /\ [Next]_vars => AloneInv'
<1> SUFFICES ASSUME CachesAreSafe, AloneInv, [Next]_vars PROVE AloneInv'
  OBVIOUS
<1>0. ListsFit /\ Alone
  BY DEF AloneInv
<1>1. CASE Crash
  <2>1. \A t \in Task : todo'[t] = <<>>
    BY <1>1 DEF Crash
  <2>2. ListsFit' /\ \A t \in Task : Work(t)' = {}
    BY <2>1, NoSteps DEF ListsFit, Work
  <2>3. QED
    BY <2>2 DEF AloneInv, Alone
<1>2. ASSUME NEW t \in Task, Start(t) PROVE AloneInv'
  BY <1>2, StartsAlone
<1>3. ASSUME NEW t \in Task,
             \/ ReadCached(t) \/ LoadAssets(t) \/ LoadStats(t) \/ LoadFails(t)
             \/ Put(t) \/ Remove(t)
             \/ Mutate(t) \/ MutateMissing(t)
             \/ FlushStart(t) \/ Snapshot(t) \/ SaveBucket(t) \/ SaveFails(t)
             \/ MarkFlushed(t) \/ FlushEnds(t)
             \/ CommitTx(t) \/ SettleTx(t) \/ TxRefused(t)
      PROVE  AloneInv'
  <2>1. todo[t] # <<>>
    BY <1>3 DEF ReadCached, LoadAssets, LoadStats, LoadFails, Put, Remove, Mutate, MutateMissing,
                FlushStart, Snapshot, SaveBucket, SaveFails, MarkFlushed, FlushEnds, CommitTx,
                SettleTx, TxRefused, Doing
  <2> DEFINE h == Head(todo[t])
             R == Rest(todo[t])
  <2>2. Working(t, h, R)
    BY <1>0, <2>1, WorkIsWellFormed
  <2> HIDE DEF h, R
  <2>3. ListsFit' /\ \E X : Does(t, X)
    <3>1. CASE ReadCached(t) \/ LoadAssets(t) \/ LoadStats(t) \/ LoadFails(t) \/ Put(t) \/ Remove(t)
      BY <1>0, <2>2, <3>1, ReadDoes, LoadAssetsDoes, LoadStatsDoes, LoadFailsDoes, PutDoes,
         RemoveDoes
    <3>2. CASE Mutate(t) \/ MutateMissing(t) \/ CommitTx(t) \/ SettleTx(t) \/ TxRefused(t)
      BY <1>0, <2>2, <3>2, MutateDoes, MissingDoes, CommitDoes, SettleDoes, RefusedDoes
    <3>3. CASE FlushStart(t) \/ Snapshot(t) \/ SaveBucket(t) \/ SaveFails(t) \/ MarkFlushed(t)
               \/ FlushEnds(t)
      BY <1>0, <2>2, <3>3, FlushDoes, SnapshotDoes, SaveDoes, SaveFailsDoes, MarkDoes,
         FlushEndsDoes
    <3>4. QED
      BY <1>3, <3>1, <3>2, <3>3
  <2>4. spoilt \subseteq spoilt'
    BY <1>3, SpoiltGrows
  <2>5. QED
    BY <2>2, <2>3, <2>4, AloneGoesOn
<1>4. CASE UNCHANGED vars
  BY <1>4 DEF vars, AloneInv, ListsFit, Alone, Work
<1>5. QED
  BY <1>1, <1>2, <1>3, <1>4 DEF Next

\* Unless operations overlap, one future at most has something to do.
THEOREM OneWorksAtATime == Spec => []AloneInv
<1>1. Init => AloneInv
  <2> SUFFICES ASSUME Init PROVE AloneInv
    OBVIOUS
  <2>1. \A t \in Task : todo[t] = <<>>
    BY DEF Init
  <2>2. QED
    BY <2>1, NoSteps DEF AloneInv, ListsFit, Alone, Work
<1>2. RepositoryInv => CachesAreSafe
  BY DEF RepositoryInv
<1>3. QED
  BY <1>1, <1>2, AloneKeeps, RepositoryInvariant, PTL DEF Spec

-------------------------------------------------------------------------------
(* The cache shows the assets that are in the database                        *)

\* The cache shows old assets of u, and not because a mail was claimed.
Stale(u) ==
    u \notin bypassed /\ cache[u] # None /\ cache[u].aggregate.Assets # db[u].Assets

\* One of the steps W brings the entry of u up to date, or drops it.
Refreshes(x, u) == x.step \in {"load", "insert", "put", "evict"} /\ x.user = u
Refreshed(W, u) == \E x \in W : Refreshes(x, u)

\* What x of the steps W has read is as in the database, and only what is not
\* cached is loaded by an operation that has nothing to count.
ReadsFresh(x, W) ==
    /\ x.step \in {"insert", "or_insert"} => x.assets = db[x.user].Assets
    /\ x.step \in {"put", "or_put"} => x.aggregate.Assets = db[x.user].Assets
    /\ x.step \in {"load", "insert"} /\ ~x.sync /\ ~Bumps(W, x.user) => cache[x.user] = None

FreshNow(W) ==
    /\ \A u \in UserId : Stale(u) => Refreshed(W, u) /\ ~HasTransaction(W)
    /\ \A x \in W : ReadsFresh(x, W)

FreshInv == spoilt \subseteq {"eviction"} => FreshNow(AllSteps)

\* A step of a future that goes on with R, or with another step before R.
LEMMA FreshGoesOn ==
    ASSUME NEW t \in Task, NEW h, NEW R, Working(t, h, R), FreshNow({h} \cup R),
           NEW X, R \subseteq X,
           \A x \in X : x \in R \/ (x.step \notin {"commit", "claim", "settle"} /\ ReadsFresh(x, X)'),
           \A u \in UserId : Stale(u)' => Stale(u),
           \A u \in UserId : Stale(u)' /\ Refreshes(h, u) => Refreshed(X, u),
           OnlyBumps(R) \/ (h.step # "mutate" /\ \A u \in UserId : cache[u] = None => cache'[u] = None)
    PROVE  FreshNow(X)'
<1>1. \A x \in R : x.step \in Waiting
  BY DEF Working, Fits
<1>2. ASSUME NEW u \in UserId, Stale(u)'
      PROVE  Refreshed(X, u) /\ ~HasTransaction(X)
  <2>1. Refreshed({h} \cup R, u) /\ ~HasTransaction({h} \cup R)
    BY <1>2 DEF FreshNow
  <2>2. ~HasTransaction(X)
    BY <2>1 DEF HasTransaction
  <2>3. Refreshed(X, u)
    BY <1>2, <2>1 DEF Refreshed
  <2>4. QED
    BY <2>2, <2>3
<1>3. ASSUME NEW x \in R PROVE ReadsFresh(x, X)'
  <2>1. x.step \notin {"insert", "or_insert", "put", "or_put"}
    BY <1>1 DEF Waiting
  <2>2. CASE OnlyBumps(R)
    BY <2>1, <2>2 DEF OnlyBumps, Bumps, ReadsFresh
  <2>3. CASE h.step # "mutate" /\ \A u \in UserId : cache[u] = None => cache'[u] = None
    <3>1. ReadsFresh(x, {h} \cup R)
      BY DEF FreshNow
    <3>2. Bumps({h} \cup R, x.user) => Bumps(X, x.user)
      BY <2>3 DEF Bumps
    <3>3. x.step \in {"load", "insert"} => x.user \in UserId
      <4>1. x \in SafeStep
        BY DEF Working
      <4>2. QED
        BY <4>1, StepKinds DEF LoadStep, InsertStep
    <3>4. QED
      BY <2>1, <2>3, <3>1, <3>2, <3>3 DEF ReadsFresh
  <2>4. QED
    BY <2>2, <2>3
<1>4. QED
  BY <1>2, <1>3 DEF FreshNow

\* A future that ends.
LEMMA FreshEnds ==
    ASSUME \A u \in UserId : ~Stale(u)
    PROVE  FreshNow({})
  BY DEF FreshNow

\* If nothing is to be counted once it has failed, nothing is stale.
LEMMA FailsFresh ==
    ASSUME NEW t \in Task, NEW h, NEW R, Working(t, h, R), FreshNow({h} \cup R),
           OnlyBumps(R), \A u \in UserId : ~Owed(Work(t), u), h.step # "settle",
           \A u \in UserId : Refreshes(h, u) => h.step \in {"load", "insert"} /\ ~h.sync,
           h.step \in {"load", "insert"} => h.user \in UserId
    PROVE  \A u \in UserId : ~Stale(u)
<1> SUFFICES ASSUME NEW u \in UserId, Stale(u) PROVE FALSE
  OBVIOUS
<1>1. Work(t) = {h} \cup R
  BY DEF Working
<1>2. ~Bumps({h} \cup R, u)
  BY <1>1 DEF Owed, OnlyBumps
<1>3. PICK x \in {h} \cup R : Refreshes(x, u)
  BY DEF FreshNow, Refreshed
<1>4. CASE x = h
  <2>1. ReadsFresh(h, {h} \cup R)
    BY DEF FreshNow
  <2>2. QED
    BY <1>2, <1>3, <1>4, <2>1 DEF ReadsFresh, Refreshes, Stale
<1>5. CASE x \in R
  BY <1>2, <1>3, <1>5 DEF OnlyBumps, Refreshes, Bumps
<1>6. QED
  BY <1>3, <1>4, <1>5

LEMMA FreshStep ==
    ASSUME AloneInv, FreshInv, NEW t \in Task, NEW h, NEW R, Working(t, h, R),
           NEW X, Does(t, X), spoilt \subseteq spoilt',
           spoilt' \subseteq {"eviction"} /\ FreshNow({h} \cup R) => FreshNow(X)'
    PROVE  FreshInv'
<1> SUFFICES ASSUME spoilt' \subseteq {"eviction"} PROVE FreshNow(AllSteps)'
  BY DEF FreshInv
<1>1. spoilt \subseteq {"eviction"} /\ "overlap" \notin spoilt
  OBVIOUS
<1>2. AllSteps = {h} \cup R /\ AllSteps' = X
  BY <1>1, OneAtATime DEF AloneInv
<1>3. FreshNow(X)'
  BY <1>1, <1>2 DEF FreshInv
<1>4. QED
  BY <1>2, <1>3 DEF FreshNow

LEMMA ReadsStayFresh ==
    ASSUME CachesAreSafe, AloneInv, FreshInv, NEW t \in Task,
           \/ ReadCached(t) \/ LoadAssets(t) \/ LoadStats(t) \/ LoadFails(t)
           \/ Put(t) \/ Remove(t)
    PROVE  FreshInv'
<1> DEFINE h == Head(todo[t])
           R == Rest(todo[t])
<1>0. ListsFit /\ todo[t] # <<>>
  BY DEF AloneInv, ReadCached, LoadAssets, LoadStats, LoadFails, Put, Remove, Doing
<1>1. Working(t, h, R)
  BY <1>0, WorkIsWellFormed
<1>2. PICK k, Q : k = h /\ Q = R
  OBVIOUS
<1> HIDE DEF h, R
<1>3. Working(t, k, Q)
  BY <1>1, <1>2
<1>4. db' = db /\ spoilt \subseteq spoilt'
  BY SpoiltGrows DEF ReadCached, LoadAssets, LoadStats, LoadFails, Put, Remove, dbVars
<1>5. cache \in [UserId -> Entry \cup {None}]
  BY DEF CachesAreSafe
<1>6. k.step \in Loading => OnlyBumps(Q)
  BY <1>3 DEF Working, Fits
<1>7. CASE ReadCached(t)
  <2>1. /\ k \in ReadStep /\ k.step = "read"
        /\ \/ Does(t, Q)
           \/ cache[k.user] = None /\ Does(t, {Reload(k.user, FALSE)} \cup Q)
    BY <1>0, <1>3, <1>7, ReadDoes
  <2>2. cache' = cache /\ bypassed' = bypassed
    BY <1>7 DEF ReadCached, dbVars
  <2>3. PICK X : /\ Does(t, X) /\ Q \subseteq X
                 /\ \A x \in X : x \in Q \/ (/\ x = Reload(k.user, FALSE)
                                             /\ cache[k.user] = None)
    BY <2>1
  <2>4. \A x \in X : x \in Q \/ (x.step \notin {"commit", "claim", "settle"} /\ ReadsFresh(x, X)')
    BY <2>2, <2>3 DEF ReadsFresh, Reload
  <2>5. \A u \in UserId : (Stale(u)' => Stale(u)) /\ ~Refreshes(k, u)
    BY <1>4, <2>1, <2>2 DEF Stale, Refreshes
  <2>6. OnlyBumps(Q)
    BY <1>6, <2>1 DEF Loading
  <2>7. FreshNow({k} \cup Q) => FreshNow(X)'
    BY <1>3, <2>3, <2>4, <2>5, <2>6, FreshGoesOn
  <2>8. QED
    BY <1>3, <1>4, <2>3, <2>7, FreshStep
<1>8. CASE LoadAssets(t)
  <2>1. k \in LoadStep /\ Does(t, {Inserted(k)} \cup Q)
    BY <1>0, <1>3, <1>8, LoadAssetsDoes
  <2>2. cache' = cache /\ bypassed' = bypassed
    BY <1>8 DEF LoadAssets, dbVars
  <2>3. PICK x : x = Inserted(k)
    OBVIOUS
  <2>4. /\ x.step = IF k.step = "load" THEN "insert" ELSE "or_insert"
        /\ x.user = k.user /\ x.sync = k.sync /\ x.assets = db[k.user].Assets
    BY <2>3 DEF Inserted
  <2>5. OnlyBumps(Q) /\ k.step \in {"load", "load_or_insert"}
    BY <1>6, <2>1 DEF LoadStep, Loading
  <2>6. FreshNow({k} \cup Q) => FreshNow({x} \cup Q)'
    <3> SUFFICES ASSUME FreshNow({k} \cup Q) PROVE FreshNow({x} \cup Q)'
      OBVIOUS
    <3>1. ReadsFresh(x, {x} \cup Q)'
      <4>1. ReadsFresh(k, {k} \cup Q)
        BY DEF FreshNow
      <4>2. Bumps({k} \cup Q, k.user) => Bumps({x} \cup Q, k.user)
        BY <2>5 DEF Bumps
      <4>3. QED
        BY <1>4, <2>2, <2>4, <2>5, <4>1, <4>2 DEF ReadsFresh
    <3>2. \A u \in UserId : (Stale(u)' => Stale(u)) /\ (Refreshes(k, u) => Refreshes(x, u))
      BY <1>4, <2>2, <2>4, <2>5 DEF Stale, Refreshes
    <3>3. x.step \notin {"commit", "claim", "settle"}
      BY <2>4
    <3>4. QED
      BY <1>3, <2>5, <3>1, <3>2, <3>3, FreshGoesOn DEF Refreshed
  <2>7. QED
    BY <1>3, <1>4, <2>1, <2>3, <2>6, FreshStep
<1>9. CASE LoadStats(t)
  <2>1. k \in InsertStep /\ Does(t, {Loaded(k)} \cup Q)
    BY <1>0, <1>3, <1>9, LoadStatsDoes
  <2>2. cache' = cache /\ bypassed' = bypassed
    BY <1>9 DEF LoadStats, dbVars
  <2>3. PICK x : x = Loaded(k)
    OBVIOUS
  <2>4. /\ x.step = IF k.step = "insert" THEN "put" ELSE "or_put"
        /\ x.user = k.user /\ x.aggregate.Assets = k.assets
    BY <2>3 DEF Loaded
  <2>5. OnlyBumps(Q) /\ k.step \in {"insert", "or_insert"}
    BY <1>6, <2>1 DEF InsertStep, Loading
  <2>6. FreshNow({k} \cup Q) => FreshNow({x} \cup Q)'
    <3> SUFFICES ASSUME FreshNow({k} \cup Q) PROVE FreshNow({x} \cup Q)'
      OBVIOUS
    <3>1. ReadsFresh(x, {x} \cup Q)'
      <4>1. ReadsFresh(k, {k} \cup Q)
        BY DEF FreshNow
      <4>2. QED
        BY <1>4, <2>4, <2>5, <4>1 DEF ReadsFresh
    <3>2. \A u \in UserId : (Stale(u)' => Stale(u)) /\ (Refreshes(k, u) => Refreshes(x, u))
      BY <1>4, <2>2, <2>4, <2>5 DEF Stale, Refreshes
    <3>3. x.step \notin {"commit", "claim", "settle"}
      BY <2>4
    <3>4. QED
      BY <1>3, <2>5, <3>1, <3>2, <3>3, FreshGoesOn DEF Refreshed
  <2>7. QED
    BY <1>3, <1>4, <2>1, <2>3, <2>6, FreshStep
<1>10. CASE LoadFails(t)
  <2>1. /\ k \in LoadStep \cup InsertStep
        /\ \/ k.sync /\ cache' = [cache EXCEPT ![k.user] = None] /\ Does(t, Q)
           \/ ~k.sync /\ Fail(t) /\ cache' = cache /\ Does(t, {})
    BY <1>0, <1>3, <1>10, LoadFailsDoes
  <2>2. /\ k.step \in {"load", "load_or_insert", "insert", "or_insert"} /\ k.user \in UserId
        /\ OnlyBumps(Q)
    BY <1>6, <2>1 DEF LoadStep, InsertStep, Loading
  <2>6. bypassed' = bypassed
    BY <1>10 DEF LoadFails, dbVars
  <2>3. CASE k.sync /\ cache' = [cache EXCEPT ![k.user] = None] /\ Does(t, Q)
    <3>1. \A u \in UserId : (Stale(u)' => Stale(u)) /\ ~(Stale(u)' /\ Refreshes(k, u))
      BY <1>4, <1>5, <2>2, <2>3, <2>6 DEF Stale, Refreshes
    <3>2. FreshNow({k} \cup Q) => FreshNow(Q)'
      BY <1>3, <2>2, <3>1, FreshGoesOn
    <3>3. QED
      BY <1>3, <1>4, <2>3, <3>2, FreshStep
  <2>4. CASE ~k.sync /\ Fail(t) /\ cache' = cache /\ Does(t, {})
    <3>1. ASSUME spoilt' \subseteq {"eviction"}, FreshNow({k} \cup Q) PROVE FreshNow({})'
      <4>1. \A u \in UserId : ~Owed(Work(t), u)
        BY <2>4, <3>1, FailSpoils
      <4>2. \A u \in UserId : ~Stale(u)
        BY <1>3, <2>2, <2>4, <3>1, <4>1, FailsFresh DEF Refreshes
      <4>3. QED
        BY <1>4, <2>4, <2>6, <4>2 DEF FreshNow, Stale
    <3>2. QED
      BY <1>3, <1>4, <2>4, <3>1, FreshStep
  <2>5. QED
    BY <2>1, <2>3, <2>4
<1>11. CASE Put(t)
  <2>1. /\ k \in PutStep /\ Does(t, Q)
        /\ \/ k.step = "or_put" /\ cache' = cache /\ bypassed' = bypassed
           \/ /\ cache' = [cache EXCEPT ![k.user] = clean(k.aggregate)]
              /\ bypassed' = bypassed \ {k.user}
    <3>1. \/ k.step = "or_put" /\ cache' = cache /\ bypassed' = bypassed
          \/ /\ cache' = [cache EXCEPT ![k.user] = clean(k.aggregate)]
             /\ bypassed' = bypassed \ {k.user}
      BY <1>3, <1>11 DEF Put, Working
    <3>2. QED
      BY <1>0, <1>3, <1>11, <3>1, PutDoes
  <2>2. k.step \in {"put", "or_put"} /\ k.user \in UserId /\ OnlyBumps(Q)
    BY <1>6, <2>1 DEF PutStep, Loading
  <2>3. FreshNow({k} \cup Q) => FreshNow(Q)'
    <3> SUFFICES ASSUME FreshNow({k} \cup Q) PROVE FreshNow(Q)'
      OBVIOUS
    <3>1. k.aggregate.Assets = db[k.user].Assets
      BY <2>2 DEF FreshNow, ReadsFresh
    <3>2. \A u \in UserId : (Stale(u)' => Stale(u)) /\ ~(Stale(u)' /\ Refreshes(k, u))
      <4> SUFFICES ASSUME NEW u \in UserId, Stale(u)' PROVE Stale(u) /\ ~Refreshes(k, u)
        OBVIOUS
      <4>1. CASE cache' = cache /\ bypassed' = bypassed /\ k.step = "or_put"
        BY <1>4, <4>1 DEF Stale, Refreshes
      <4>2. CASE cache' = [cache EXCEPT ![k.user] = clean(k.aggregate)]
        <5>1. u # k.user
          BY <1>4, <1>5, <2>2, <3>1, <4>2 DEF Stale, clean
        <5>2. u \in bypassed => u \in bypassed'
          BY <2>1, <5>1
        <5>3. QED
          BY <1>4, <1>5, <4>2, <5>1, <5>2 DEF Stale, Refreshes
      <4>3. QED
        BY <2>1, <4>1, <4>2
    <3>3. QED
      BY <1>3, <2>2, <3>2, FreshGoesOn
  <2>4. QED
    BY <1>3, <1>4, <2>1, <2>3, FreshStep
<1>12. CASE Remove(t)
  <2>1. /\ k \in ReadStep /\ k.step = "evict" /\ Does(t, Q)
        /\ cache' = [cache EXCEPT ![k.user] = None]
    BY <1>0, <1>3, <1>12, RemoveDoes
  <2>2. k.user \in UserId /\ bypassed' = bypassed
    BY <1>12, <2>1 DEF ReadStep, Remove, dbVars
  <2>3. \A u \in UserId : (Stale(u)' => Stale(u)) /\ ~(Stale(u)' /\ Refreshes(k, u))
    BY <1>4, <1>5, <2>1, <2>2 DEF Stale, Refreshes
  <2>4. k.step # "mutate" /\ \A u \in UserId : cache[u] = None => cache'[u] = None
    BY <1>5, <2>1
  <2>5. FreshNow({k} \cup Q) => FreshNow(Q)'
    BY <1>3, <2>3, <2>4, FreshGoesOn
  <2>6. QED
    BY <1>3, <1>4, <2>1, <2>5, FreshStep
<1>13. QED
  BY <1>7, <1>8, <1>9, <1>10, <1>11, <1>12

\* A flush changes no assets: neither in the cache nor in the database.
LEMMA FlushStaysFresh ==
    ASSUME CachesAreSafe, AloneInv, FreshInv, NEW t \in Task,
           \/ FlushStart(t) \/ Snapshot(t) \/ SaveBucket(t) \/ SaveFails(t)
           \/ MarkFlushed(t) \/ FlushEnds(t)
    PROVE  FreshInv'
<1> DEFINE h == Head(todo[t])
           R == Rest(todo[t])
<1>0. ListsFit /\ todo[t] # <<>>
  BY DEF AloneInv, FlushStart, Snapshot, SaveBucket, SaveFails, MarkFlushed, FlushEnds, Doing
<1>1. Working(t, h, R)
  BY <1>0, WorkIsWellFormed
<1>2. PICK k, Q : k = h /\ Q = R
  OBVIOUS
<1> HIDE DEF h, R
<1>3. Working(t, k, Q)
  BY <1>1, <1>2
<1>4. spoilt \subseteq spoilt'
  BY SpoiltGrows
<1>5. cache \in [UserId -> Entry \cup {None}] /\ db \in [UserId -> Aggregate]
  BY DEF CachesAreSafe
<1>6. k.step \in Flushing
  BY <1>2 DEF h, FlushStart, Snapshot, SaveBucket, SaveFails, MarkFlushed, FlushEnds, Doing,
              Flushing
<1>7. \A u \in UserId : db'[u].Assets = db[u].Assets
  <2>1. CASE SaveBucket(t)
    <3>1. /\ k \in SaveStep
          /\ db' = [db EXCEPT ![k.user] = [@ EXCEPT !["Stats"] = k.entry.aggregate["Stats"]]]
      BY <1>0, <1>3, <2>1, SaveDoes
    <3>2. QED
      BY <1>5, <3>1 DEF Aggregate
  <2>2. CASE ~SaveBucket(t)
    BY <2>2 DEF FlushStart, Snapshot, SaveFails, MarkFlushed, FlushEnds, dbVars
  <2>3. QED
    BY <2>1, <2>2
<1>8. \A u \in UserId : /\ cache[u] = None => cache'[u] = None
                        /\ cache'[u] # None => /\ cache[u] # None
                                               /\ cache'[u].aggregate = cache[u].aggregate
  <2>1. CASE MarkFlushed(t)
    <3>1. /\ k \in MarkStep
          /\ cache' = IF Unchanged(cache[k.user], k)
                      THEN [cache EXCEPT ![k.user].dirty["Stats"] = 0] ELSE cache
      BY <1>0, <1>3, <2>1, MarkDoes
    <3>2. k.user \in UserId
      BY <3>1 DEF MarkStep
    <3>3. CASE Unchanged(cache[k.user], k)
      <4>1. cache[k.user] \in Entry /\ cache[k.user] # None
        BY <1>5, <3>2, <3>3 DEF Unchanged
      <4>2. cache'[k.user].aggregate = cache[k.user].aggregate
        BY <1>5, <3>1, <3>2, <3>3, <4>1 DEF Entry
      <4>3. QED
        BY <1>5, <3>1, <3>2, <3>3, <4>1, <4>2
    <3>4. CASE ~Unchanged(cache[k.user], k)
      BY <3>1, <3>4
    <3>5. QED
      BY <3>3, <3>4
  <2>2. CASE ~MarkFlushed(t)
    BY <2>2 DEF FlushStart, Snapshot, SaveBucket, SaveFails, FlushEnds
  <2>3. QED
    BY <2>1, <2>2
<1>14. bypassed' = bypassed
  BY DEF FlushStart, Snapshot, SaveBucket, SaveFails, MarkFlushed, FlushEnds, dbVars
<1>9. \A u \in UserId : (Stale(u)' => Stale(u)) /\ ~Refreshes(k, u)
  BY <1>6, <1>7, <1>8, <1>14 DEF Stale, Refreshes, Flushing
<1>10. \/ \E X : /\ Does(t, X) /\ Q \subseteq X
                 /\ \A x \in X : x \in Q \/ x.step \in Flushing
       \/ Fail(t) /\ Does(t, {}) /\ db' = db /\ cache' = cache
  <2>1. /\ \A e : Copied(k.user, e).step \in Flushing
        /\ \A B, e, f : Saving(k, B, e, f).step \in Flushing
        /\ Marking(k, "Stats").step \in Flushing
        /\ Failing(k) \in SaveStep => Failing(k).step \in Flushing
    BY DEF Copied, Saving, Marking, SaveStep, Flushing
  <2> DEFINE GoesOnWith(X) == /\ Does(t, X) /\ Q \subseteq X
                              /\ \A x \in X : x \in Q \/ x.step \in Flushing
  <2>2. Does(t, Q) => GoesOnWith(Q)
    OBVIOUS
  <2>3. \A x : x.step \in Flushing /\ Does(t, {x} \cup Q) => GoesOnWith({x} \cup Q)
    OBVIOUS
  <2> SUFFICES (\E X : GoesOnWith(X)) \/ (Fail(t) /\ Does(t, {}) /\ db' = db /\ cache' = cache)
    OBVIOUS
  <2> HIDE DEF GoesOnWith
  <2>4. CASE FlushStart(t)
    BY <1>0, <1>3, <2>1, <2>2, <2>3, <2>4, FlushDoes
  <2>5. CASE Snapshot(t)
    BY <1>0, <1>3, <2>1, <2>2, <2>3, <2>5, SnapshotDoes
  <2>6. CASE SaveBucket(t)
    BY <1>0, <1>3, <2>1, <2>2, <2>3, <2>6, SaveDoes
  <2>7. CASE SaveFails(t)
    BY <1>0, <1>3, <2>1, <2>2, <2>3, <2>7, SaveFailsDoes
  <2>8. CASE MarkFlushed(t)
    BY <1>0, <1>3, <2>1, <2>2, <2>3, <2>8, MarkDoes
  <2>9. CASE FlushEnds(t)
    <3>1. db' = db /\ cache' = cache
      BY <2>9 DEF FlushEnds, dbVars
    <3>2. (Fail(t) /\ Does(t, {})) \/ Does(t, Q)
      BY <1>0, <1>3, <2>9, FlushEndsDoes
    <3>3. QED
      BY <2>2, <3>1, <3>2
  <2>10. QED
    BY <2>4, <2>5, <2>6, <2>7, <2>8, <2>9
<1>11. CASE \E X : /\ Does(t, X) /\ Q \subseteq X
                   /\ \A x \in X : x \in Q \/ x.step \in Flushing
  <2>1. PICK X : /\ Does(t, X) /\ Q \subseteq X
                 /\ \A x \in X : x \in Q \/ x.step \in Flushing
    BY <1>11
  <2>2. \A x \in X : x \in Q \/ (x.step \notin {"commit", "claim", "settle"} /\ ReadsFresh(x, X)')
    BY <2>1 DEF Flushing, ReadsFresh
  <2>3. k.step # "mutate"
    BY <1>6 DEF Flushing
  <2>4. FreshNow({k} \cup Q) => FreshNow(X)'
    BY <1>3, <1>8, <1>9, <2>1, <2>2, <2>3, FreshGoesOn
  <2>5. QED
    BY <1>3, <1>4, <2>1, <2>4, FreshStep
<1>12. CASE Fail(t) /\ Does(t, {}) /\ db' = db /\ cache' = cache
  <2>1. ASSUME spoilt' \subseteq {"eviction"}, FreshNow({k} \cup Q) PROVE FreshNow({})'
    <3>1. \A u \in UserId : ~Owed(Work(t), u)
      BY <1>12, <2>1, FailSpoils
    <3>2. HasTransaction(Q) \/ OnlyBumps(Q)
      BY <1>3, <1>6 DEF Working, Fits
    <3>3. \A u \in UserId : ~Stale(u)
      <4>1. CASE HasTransaction(Q)
        BY <2>1, <4>1 DEF FreshNow, HasTransaction
      <4>2. CASE OnlyBumps(Q)
        BY <1>3, <1>6, <1>9, <2>1, <3>1, <4>2, FailsFresh DEF Flushing
      <4>3. QED
        BY <3>2, <4>1, <4>2
    <3>4. QED
      BY <1>12, <1>14, <3>3 DEF FreshNow, Stale
  <2>2. QED
    BY <1>3, <1>4, <1>12, <2>1, FreshStep
<1>13. QED
  BY <1>10, <1>11, <1>12

LEMMA ChangesStayFresh ==
    ASSUME CachesAreSafe, AloneInv, FreshInv, NEW t \in Task,
           Mutate(t) \/ MutateMissing(t) \/ CommitTx(t) \/ SettleTx(t) \/ TxRefused(t)
    PROVE  FreshInv'
<1> DEFINE h == Head(todo[t])
           R == Rest(todo[t])
<1>0. ListsFit /\ todo[t] # <<>>
  BY DEF AloneInv, Mutate, MutateMissing, CommitTx, SettleTx, TxRefused, Doing
<1>1. Working(t, h, R)
  BY <1>0, WorkIsWellFormed
<1>2. PICK k, Q : k = h /\ Q = R
  OBVIOUS
<1> HIDE DEF h, R
<1>3. Working(t, k, Q)
  BY <1>1, <1>2
<1>4. spoilt \subseteq spoilt'
  BY SpoiltGrows
<1>5. cache \in [UserId -> Entry \cup {None}] /\ db \in [UserId -> Aggregate]
  BY DEF CachesAreSafe
<1>6. k.step = "mutate" => OnlyBumps(Q)
  BY <1>3 DEF Working, Fits
<1>7. CASE Mutate(t)
  <2>1. /\ k \in MutateStep
        /\ cache[k.user] # None /\ cache[k.user] \in Entry
        /\ Bumped(k.user).aggregate.Assets = cache[k.user].aggregate.Assets
        /\ cache' = [cache EXCEPT ![k.user] = Bumped(k.user)]
        /\ Does(t, Q) \/ Does(t, {Copied(k.user, Bumped(k.user))} \cup Q)
    BY <1>0, <1>3, <1>7, MutateDoes
  <2>2. k.step = "mutate" /\ k.user \in UserId /\ db' = db /\ bypassed' = bypassed
    BY <1>7, <2>1 DEF MutateStep, Mutate, dbVars
  <2>3. PICK X : /\ Does(t, X) /\ Q \subseteq X
                 /\ \A x \in X : x \in Q \/ x.step = "snapshot"
    BY <2>1 DEF Copied
  <2>4. \A x \in X : x \in Q \/ (x.step \notin {"commit", "claim", "settle"} /\ ReadsFresh(x, X)')
    BY <2>3 DEF ReadsFresh
  <2>5. \A u \in UserId : (Stale(u)' => Stale(u)) /\ ~Refreshes(k, u)
    <3> SUFFICES ASSUME NEW u \in UserId, Stale(u)' PROVE Stale(u)
      BY <2>2 DEF Refreshes
    <3>1. CASE u = k.user
      <4>1. cache'[u].aggregate.Assets = cache[u].aggregate.Assets
        BY <1>5, <2>1, <2>2, <3>1
      <4>2. QED
        BY <2>1, <2>2, <3>1, <4>1 DEF Stale
    <3>2. CASE u # k.user
      BY <1>5, <2>1, <2>2, <3>2 DEF Stale
    <3>3. QED
      BY <3>1, <3>2
  <2>6. FreshNow({k} \cup Q) => FreshNow(X)'
    BY <1>3, <1>6, <2>2, <2>3, <2>4, <2>5, FreshGoesOn
  <2>7. QED
    BY <1>3, <1>4, <2>3, <2>6, FreshStep
<1>8. CASE MutateMissing(t)
  <2>1. /\ k \in MutateStep /\ Again(k) \in MutateStep
        /\ Does(t, {LoadAgain(k), Again(k)} \cup Q) \/ (Fail(t) /\ Does(t, {}))
    BY <1>0, <1>3, <1>8, MissingDoes
  <2>2. k.step = "mutate" /\ db' = db /\ cache' = cache /\ bypassed' = bypassed
    BY <1>8, <2>1 DEF MutateStep, MutateMissing, dbVars
  <2>3. CASE Does(t, {LoadAgain(k), Again(k)} \cup Q)
    <3>1. PICK X : X = {LoadAgain(k), Again(k)} \cup Q
      OBVIOUS
    <3>2. \A x \in X : x \in Q \/ x.step \in {"load_or_insert", "mutate"}
      BY <2>1, <3>1 DEF LoadAgain, MutateStep
    <3>3. \A x \in X : x \in Q \/ (x.step \notin {"commit", "claim", "settle"} /\ ReadsFresh(x, X)')
      BY <3>2 DEF ReadsFresh
    <3>4. \A u \in UserId : (Stale(u)' => Stale(u)) /\ ~Refreshes(k, u)
      BY <2>2 DEF Stale, Refreshes
    <3>5. FreshNow({k} \cup Q) => FreshNow(X)'
      BY <1>3, <1>6, <2>2, <3>1, <3>3, <3>4, FreshGoesOn
    <3>6. QED
      BY <1>3, <1>4, <2>3, <3>1, <3>5, FreshStep
  <2>4. CASE Fail(t) /\ Does(t, {})
    <3>1. k.user \in UserId
      BY <2>1 DEF MutateStep
    <3>2. Owed(Work(t), k.user)
      BY <1>3, <1>6, <2>2 DEF Working, Owed, Bumps, OnlyBumps
    <3>3. ~(spoilt' \subseteq {"eviction"})
      BY <2>4, <3>1, <3>2, FailSpoils
    <3>4. QED
      BY <3>3 DEF FreshInv
  <2>5. QED
    BY <2>1, <2>3, <2>4
<1>9. CASE CommitTx(t)
  <2>1. k \in CommitStep /\ Does(t, Q) /\ Changed({k.user})
    BY <1>0, <1>3, <1>9, CommitDoes
  <2>2. k.step \in {"commit", "claim"} /\ k.user \in UserId /\ cache' = cache
    BY <1>9, <2>1 DEF CommitStep, CommitTx
  <2>3. /\ k.step = "commit" => Q = {Reload(k.user, TRUE)} \/ Q = {Evict(k.user)}
        /\ k.step = "claim" => Q = {}
    BY <1>3 DEF Working, Fits
  <2>6. bypassed' = bypassed \cup {u \in {k.user} : k.step = "claim"}
    BY <1>3, <1>9 DEF CommitTx, Working
  <2>4. FreshNow({k} \cup Q) => FreshNow(Q)'
    <3> SUFFICES ASSUME FreshNow({k} \cup Q) PROVE FreshNow(Q)'
      OBVIOUS
    <3>1. \A u \in UserId : ~Stale(u)
      BY <2>2 DEF FreshNow, HasTransaction
    <3>2. \A u \in UserId : Stale(u)' => u = k.user /\ k.step = "commit"
      <4> SUFFICES ASSUME NEW u \in UserId, Stale(u)' PROVE u = k.user /\ k.step = "commit"
        OBVIOUS
      <4>1. u \notin bypassed
        BY <2>6 DEF Stale
      <4>2. u = k.user
        BY <2>1, <2>2, <3>1, <4>1 DEF Changed, Stale
      <4>3. QED
        BY <2>2, <2>6, <4>2 DEF Stale
    <3>3. k.step = "commit" => Refreshed(Q, k.user) /\ ~HasTransaction(Q)
      <4> SUFFICES ASSUME k.step = "commit" PROVE Refreshed(Q, k.user) /\ ~HasTransaction(Q)
        OBVIOUS
      <4>1. PICK x : Q = {x} /\ x.step \in {"load", "evict"} /\ x.user = k.user
        <5>1. /\ Reload(k.user, TRUE).step = "load" /\ Reload(k.user, TRUE).user = k.user
              /\ Evict(k.user).step = "evict" /\ Evict(k.user).user = k.user
          BY DEF Reload, Evict
        <5>2. QED
          BY <2>3, <5>1
      <4>2. QED
        BY <4>1 DEF Refreshed, Refreshes, HasTransaction
    <3>4. \A x \in Q : ReadsFresh(x, Q)'
      BY <2>2, <2>3 DEF ReadsFresh, Reload, Evict
    <3>5. QED
      BY <3>2, <3>3, <3>4 DEF FreshNow
  <2>5. QED
    BY <1>3, <1>4, <2>1, <2>4, FreshStep
<1>10. CASE SettleTx(t)
  <2>1. k \in SettleStep /\ Does(t, Q) /\ Changed(Players(k.id))
    BY <1>0, <1>3, <1>10, SettleDoes
  <2>2. k.step = "settle" /\ cache' = cache /\ bypassed' = bypassed
    BY <1>10, <2>1 DEF SettleStep, SettleTx
  <2>3. OnlyBumps(Q) /\ \A u \in Players(k.id) : Loads(Q, u)
    BY <1>3, <2>2 DEF Working, Fits
  <2>4. FreshNow({k} \cup Q) => FreshNow(Q)'
    <3> SUFFICES ASSUME FreshNow({k} \cup Q) PROVE FreshNow(Q)'
      OBVIOUS
    <3>1. \A u \in UserId : ~Stale(u)
      BY <2>2 DEF FreshNow, HasTransaction
    <3>2. \A u \in UserId : Stale(u)' => u \in Players(k.id)
      BY <2>1, <2>2, <3>1 DEF Changed, Stale
    <3>3. (\A u \in Players(k.id) : Refreshed(Q, u)) /\ ~HasTransaction(Q)
      BY <2>3 DEF Refreshed, Refreshes, HasTransaction, Loads, OnlyBumps
    <3>4. \A x \in Q : ReadsFresh(x, Q)'
      BY <2>3 DEF ReadsFresh, OnlyBumps
    <3>5. QED
      BY <3>2, <3>3, <3>4 DEF FreshNow
  <2>5. QED
    BY <1>3, <1>4, <2>1, <2>4, FreshStep
<1>11. CASE TxRefused(t)
  <2>1. k \in CommitStep \cup SettleStep /\ Does(t, {})
    BY <1>0, <1>3, <1>11, RefusedDoes
  <2>2. /\ k.step \in {"commit", "claim", "settle"}
        /\ cache' = cache /\ db' = db /\ bypassed' = bypassed
    BY <1>11, <2>1 DEF CommitStep, SettleStep, TxRefused, dbVars
  <2>3. FreshNow({k} \cup Q) => FreshNow({})'
    BY <2>2 DEF FreshNow, HasTransaction, Stale
  <2>4. QED
    BY <1>3, <1>4, <2>1, <2>3, FreshStep
<1>12. QED
  BY <1>7, <1>8, <1>9, <1>10, <1>11

LEMMA StartsFresh ==
    ASSUME CachesAreSafe, AloneInv, FreshInv, NEW t \in Task, Start(t)
    PROVE  FreshInv'
<1> SUFFICES ASSUME spoilt' \subseteq {"eviction"} PROVE FreshNow(AllSteps)'
  BY DEF FreshInv
<1>1. spoilt \subseteq spoilt'
        /\ \E X : BeginsWell(X) /\ ("overlap" \notin spoilt' => AllSteps = {} /\ AllSteps' = X)
  BY StartsAlone
<1>2. PICK X : BeginsWell(X) /\ AllSteps = {} /\ AllSteps' = X
  BY <1>1
<1>3. cache' = cache /\ db' = db /\ bypassed' = bypassed
  BY DEF Start, dbVars
<1>4. \A u \in UserId : ~Stale(u)'
  BY <1>1, <1>2, <1>3 DEF FreshInv, FreshNow, Refreshed, Stale
<1>5. \A x \in X : ReadsFresh(x, X)'
  BY <1>2 DEF BeginsWell, ReadsFresh
<1>6. QED
  BY <1>2, <1>4, <1>5 DEF FreshNow

LEMMA FreshKeeps == CachesAreSafe /\ AloneInv /\ FreshInv /\ [Next]_vars => FreshInv'
<1> SUFFICES ASSUME CachesAreSafe, AloneInv, FreshInv, [Next]_vars PROVE FreshInv'
  OBVIOUS
<1>1. CASE Crash
  <2>1. (\A t \in Task : todo'[t] = <<>>) /\ \A u \in UserId : cache'[u] = None
    BY <1>1 DEF Crash
  <2>2. AllSteps' = {} /\ \A u \in UserId : ~Stale(u)'
    BY <2>1, NoSteps DEF AllSteps, Work, Stale
  <2>3. QED
    BY <2>2 DEF FreshInv, FreshNow
<1>2. ASSUME NEW t \in Task,
             \/ Start(t)
             \/ ReadCached(t) \/ LoadAssets(t) \/ LoadStats(t) \/ LoadFails(t)
             \/ Put(t) \/ Remove(t)
             \/ Mutate(t) \/ MutateMissing(t)
             \/ FlushStart(t) \/ Snapshot(t) \/ SaveBucket(t) \/ SaveFails(t)
             \/ MarkFlushed(t) \/ FlushEnds(t)
             \/ CommitTx(t) \/ SettleTx(t) \/ TxRefused(t)
      PROVE  FreshInv'
  BY <1>2, StartsFresh, ReadsStayFresh, FlushStaysFresh, ChangesStayFresh
<1>3. CASE UNCHANGED vars
  BY <1>3 DEF vars, dbVars, FreshInv, FreshNow, AllSteps, Work, Stale, ReadsFresh
<1>4. QED
  BY <1>1, <1>2, <1>3 DEF Next

\* The inductive invariant: an entry with old assets is about to be brought up
\* to date or dropped, and what was read to do so is not old itself.
THEOREM FreshInvariant == Spec => []FreshInv
<1>1. Init => FreshInv
  <2> SUFFICES ASSUME Init PROVE FreshInv
    OBVIOUS
  <2>1. (\A t \in Task : todo[t] = <<>>) /\ \A u \in UserId : cache[u] = None
    BY DEF Init
  <2>2. AllSteps = {} /\ \A u \in UserId : ~Stale(u)
    BY <2>1, NoSteps DEF AllSteps, Work, Stale
  <2>3. QED
    BY <2>2 DEF FreshInv, FreshNow
<1>2. RepositoryInv => CachesAreSafe
  BY DEF RepositoryInv
<1>3. QED
  BY <1>1, <1>2, FreshKeeps, RepositoryInvariant, OneWorksAtATime, PTL DEF Spec

\* As long as operations follow one another and none fails after its commit, the
\* cache shows the assets that are in the database, with entries dropped or not;
\* but for a player whose mail was claimed since the entry was loaded.
THEOREM CacheIsFresh == Spec => []FreshWhenAlone
<1>1. FreshInv => FreshWhenAlone
  <2> SUFFICES ASSUME FreshInv, spoilt \subseteq {"eviction"}, AtRest, NEW u \in UserId \ bypassed
               PROVE  ~Stale(u)
    BY DEF FreshWhenAlone, Stale
  <2>1. AllSteps = {}
    BY NoSteps DEF AtRest, AllSteps, Work
  <2>2. QED
    BY <2>1 DEF FreshInv, FreshNow, Refreshed
<1>2. QED
  BY <1>1, FreshInvariant, PTL

-------------------------------------------------------------------------------
(* Every game that was recorded is counted                                    *)

\* The games counted and those still to be counted are those recorded.
Balanced(u) == CountedGames(u) + Cardinality(Owing(u)) = Cardinality(GamesOf(u))

CleanIsWritten ==
    \A u \in UserId : cache[u] # None /\ ~IsDirty(cache[u]) =>
        cache[u].aggregate.Stats = db[u].Stats

\* What step x of the steps W loses nothing by: what is dirty is flushed before
\* it is loaded again; what was read is as in the database; a flush takes what is
\* dirty, and what it writes is what the cache holds.
LosesNothing(x, W) ==
    /\ x.step \in {"load", "insert", "put"} /\ IsDirty(cache[x.user]) =>
           \E f \in W : f.step \in Flushing /\ f.user = x.user
    /\ x.step \in {"load_or_insert", "or_insert"} => ~x.sync
    /\ x.step \in {"put", "or_put"} => x.aggregate.Stats = db[x.user].Stats
    /\ x.step = "snapshot" /\ IsDirty(cache[x.user]) => "Stats" \in x.buckets
    /\ x.step = "save" =>
           /\ "Stats" \in x.buckets => x.entry = cache[x.user]
           /\ IsDirty(cache[x.user]) => x.failed \/ "Stats" \in x.buckets
    /\ x.step = "mark" => /\ x.entry = cache[x.user] /\ x.entry.aggregate.Stats = db[x.user].Stats
                          /\ "Stats" \notin x.buckets

CountNow(W) ==
    /\ \A u \in UserId : Balanced(u)
    /\ CleanIsWritten
    /\ \A x \in W : LosesNothing(x, W)

CountInv == spoilt = {} => CountNow(AllSteps)

LEMMA CountStep ==
    ASSUME AloneInv, CountInv, NEW t \in Task, NEW h, NEW R, Working(t, h, R),
           NEW X, Does(t, X), spoilt \subseteq spoilt',
           spoilt' = {} /\ CountNow({h} \cup R) => CountNow(X)'
    PROVE  CountInv'
<1> SUFFICES ASSUME spoilt' = {} PROVE CountNow(AllSteps)'
  BY DEF CountInv
<1>1. spoilt = {} /\ "overlap" \notin spoilt
  OBVIOUS
<1>2. AllSteps = {h} \cup R /\ AllSteps' = X
  BY <1>1, OneAtATime DEF AloneInv
<1>3. CountNow(X)'
  BY <1>1, <1>2 DEF CountInv
<1>4. QED
  BY <1>2, <1>3 DEF CountNow

LEMMA OwingSame ==
    ASSUME NEW t \in Task, NEW X, Does(t, X), NEW u, Owed(X, u) <=> Owed(Work(t), u)
    PROVE  Owing(u)' = Owing(u)
<1>1. \A o \in Task : o \in Owing(u)' <=> o \in Owing(u)
  BY DEF Owing, Does
<1>2. QED
  BY <1>1 DEF Owing

\* A step that counts nothing and records no settlement, and that leaves R to be
\* done, perhaps after other steps.
LEMMA CountGoesOn ==
    ASSUME NEW t \in Task, NEW h, NEW R, Working(t, h, R), CountNow({h} \cup R),
           NEW X, Does(t, X), R \subseteq X,
           \A u \in UserId : Owed(X, u) <=> Owed(Work(t), u),
           \A x \in X : x \in R \/ LosesNothing(x, X)',
           games' = games, CleanIsWritten',
           \A u \in UserId : CountedGames(u)' = CountedGames(u),
           \A u \in UserId : IsDirty(cache'[u]) => IsDirty(cache[u]),
           \A u \in UserId : IsDirty(cache'[u]) /\ h.step \in Flushing /\ h.user = u =>
               \E f \in X : f.step \in Flushing /\ f.user = u
    PROVE  CountNow(X)'
<1>1. ASSUME NEW u \in UserId PROVE Balanced(u)'
  <2>1. Owing(u)' = Owing(u) /\ GamesOf(u)' = GamesOf(u)
    BY OwingSame DEF GamesOf
  <2>2. QED
    BY <2>1 DEF CountNow, Balanced
<1>2. ASSUME NEW x \in R PROVE LosesNothing(x, X)'
  <2>1. x.step \in Waiting /\ x \in SafeStep
    BY DEF Working, Fits
  <2>2. x.step = "load" => x.user \in UserId
    BY <2>1, StepKinds DEF LoadStep
  <2>3. LosesNothing(x, {h} \cup R)
    BY DEF CountNow
  <2>4. ASSUME x.step = "load", IsDirty(cache'[x.user])
        PROVE  \E f \in X : f.step \in Flushing /\ f.user = x.user
    <3>1. \E f \in {h} \cup R : f.step \in Flushing /\ f.user = x.user
      BY <2>2, <2>3, <2>4 DEF LosesNothing
    <3>2. QED
      BY <2>2, <2>4, <3>1
  <2>5. QED
    BY <2>1, <2>4 DEF LosesNothing, Waiting
<1>3. QED
  BY <1>1, <1>2 DEF CountNow

\* The same, of a step that changes neither the cache nor the database.
LEMMA CountIdles ==
    ASSUME NEW t \in Task, NEW h, NEW R, Working(t, h, R), CountNow({h} \cup R),
           NEW X, Does(t, X), R \subseteq X, h.step \notin {"mutate", "settle"},
           \A x \in X : x \in R \/ (x.step \notin {"mutate", "settle"} /\ LosesNothing(x, X)'),
           games' = games, cache' = cache, db' = db,
           \A u \in UserId : IsDirty(cache[u]) /\ h.step \in Flushing /\ h.user = u =>
               \E f \in X : f.step \in Flushing /\ f.user = u
    PROVE  CountNow(X)'
<1>1. \A u \in UserId : Owed(X, u) <=> Owed(Work(t), u)
  BY DEF Working, Owed, Bumps
<1>2. CleanIsWritten'
  BY DEF CountNow, CleanIsWritten
<1>3. \A u \in UserId : CountedGames(u)' = CountedGames(u)
  BY DEF CountedGames
<1>4. QED
  BY <1>1, <1>2, <1>3, CountGoesOn

\* A future ends that has nothing to count.
LEMMA CountEnds ==
    ASSUME NEW t \in Task, NEW W, CountNow(W), Does(t, {}),
           \A u \in UserId : ~Owed(Work(t), u), games' = games, cache' = cache, db' = db
    PROVE  CountNow({})'
<1>1. ASSUME NEW u \in UserId PROVE Balanced(u)'
  <2>1. Owing(u)' = Owing(u) /\ GamesOf(u)' = GamesOf(u)
    BY OwingSame, NothingOwed DEF GamesOf
  <2>2. CountedGames(u)' = CountedGames(u)
    BY DEF CountedGames
  <2>3. QED
    BY <2>1, <2>2 DEF CountNow, Balanced
<1>2. CleanIsWritten'
  BY DEF CountNow, CleanIsWritten
<1>3. QED
  BY <1>1, <1>2 DEF CountNow

LEMMA NoneIsClean == ~IsDirty(None)
  BY DEF IsDirty

LEMMA ReadsLoseNothing ==
    ASSUME CachesAreSafe, AloneInv, CountInv, NEW t \in Task,
           \/ ReadCached(t) \/ LoadAssets(t) \/ LoadStats(t) \/ LoadFails(t)
           \/ Put(t) \/ Remove(t)
    PROVE  CountInv'
<1> DEFINE h == Head(todo[t])
           R == Rest(todo[t])
<1>0. ListsFit /\ todo[t] # <<>>
  BY DEF AloneInv, ReadCached, LoadAssets, LoadStats, LoadFails, Put, Remove, Doing
<1>1. Working(t, h, R)
  BY <1>0, WorkIsWellFormed
<1>2. PICK k, Q : k = h /\ Q = R
  OBVIOUS
<1> HIDE DEF h, R
<1>3. Working(t, k, Q)
  BY <1>1, <1>2
<1>4. db' = db /\ games' = games /\ spoilt \subseteq spoilt'
  BY SpoiltGrows DEF ReadCached, LoadAssets, LoadStats, LoadFails, Put, Remove, dbVars
<1>5. cache \in [UserId -> Entry \cup {None}]
  BY DEF CachesAreSafe
<1>6. k.step \in Loading => OnlyBumps(Q)
  BY <1>3 DEF Working, Fits
\* Nothing is flushed after a player is loaded: it is not dirty.
<1>7. CountNow({k} \cup Q) /\ k.step \in {"load", "insert", "put"} => ~IsDirty(cache[k.user])
  <2> SUFFICES ASSUME CountNow({k} \cup Q), k.step \in {"load", "insert", "put"},
                      IsDirty(cache[k.user])
               PROVE  FALSE
    OBVIOUS
  <2>1. LosesNothing(k, {k} \cup Q)
    BY DEF CountNow
  <2>2. \E f \in {k} \cup Q : f.step \in Flushing
    BY <2>1 DEF LosesNothing
  <2>3. OnlyBumps(Q)
    BY <1>6 DEF Loading
  <2>4. QED
    BY <2>2, <2>3 DEF Flushing, OnlyBumps
<1>8. CASE ReadCached(t)
  <2>1. /\ k \in ReadStep /\ k.step = "read"
        /\ \/ Does(t, Q)
           \/ cache[k.user] = None /\ Does(t, {Reload(k.user, FALSE)} \cup Q)
    BY <1>0, <1>3, <1>8, ReadDoes
  <2>2. cache' = cache
    BY <1>8 DEF ReadCached
  <2>3. PICK X : /\ Does(t, X) /\ Q \subseteq X
                 /\ \A x \in X : x \in Q \/ (/\ x = Reload(k.user, FALSE)
                                             /\ cache[k.user] = None)
    BY <2>1
  <2>4. \A x \in X : x \in Q \/ (x.step \notin {"mutate", "settle"} /\ LosesNothing(x, X)')
    <3> SUFFICES ASSUME NEW x \in X, x = Reload(k.user, FALSE), cache[k.user] = None
                 PROVE  x.step \notin {"mutate", "settle"} /\ LosesNothing(x, X)'
      BY <2>3
    <3>1. x.step = "load" /\ x.user = k.user
      BY DEF Reload
    <3>2. QED
      BY <2>2, <3>1, NoneIsClean DEF LosesNothing
  <2>5. k.step \notin Flushing /\ k.step \notin {"mutate", "settle"}
    BY <2>1 DEF Flushing
  <2>6. CountNow({k} \cup Q) => CountNow(X)'
    BY <1>3, <1>4, <2>2, <2>3, <2>4, <2>5, CountIdles
  <2>7. QED
    BY <1>3, <1>4, <2>3, <2>6, CountStep
<1>9. CASE LoadAssets(t)
  <2>1. k \in LoadStep /\ Does(t, {Inserted(k)} \cup Q)
    BY <1>0, <1>3, <1>9, LoadAssetsDoes
  <2>2. cache' = cache
    BY <1>9 DEF LoadAssets
  <2>3. PICK x : x = Inserted(k)
    OBVIOUS
  <2>4. /\ x.step = IF k.step = "load" THEN "insert" ELSE "or_insert"
        /\ x.user = k.user /\ x.sync = k.sync
    BY <2>3 DEF Inserted
  <2>5. k.step \in {"load", "load_or_insert"}
    BY <2>1 DEF LoadStep
  <2>6. CountNow({k} \cup Q) => CountNow({x} \cup Q)'
    <3> SUFFICES ASSUME CountNow({k} \cup Q) PROVE CountNow({x} \cup Q)'
      OBVIOUS
    <3>1. LosesNothing(k, {k} \cup Q)
      BY DEF CountNow
    <3>2. LosesNothing(x, {x} \cup Q)'
      BY <1>7, <2>2, <2>4, <2>5, <3>1 DEF LosesNothing
    <3>3. k.step \notin Flushing /\ k.step \notin {"mutate", "settle"}
          /\ x.step \notin {"mutate", "settle"}
      BY <2>4, <2>5 DEF Flushing
    <3>4. Does(t, {x} \cup Q)
      BY <2>1, <2>3
    <3>5. QED
      BY <1>3, <1>4, <2>2, <3>2, <3>3, <3>4, CountIdles
  <2>7. QED
    BY <1>3, <1>4, <2>1, <2>3, <2>6, CountStep
<1>10. CASE LoadStats(t)
  <2>1. k \in InsertStep /\ Does(t, {Loaded(k)} \cup Q)
    BY <1>0, <1>3, <1>10, LoadStatsDoes
  <2>2. cache' = cache
    BY <1>10 DEF LoadStats
  <2>3. PICK x : x = Loaded(k)
    OBVIOUS
  <2>4. /\ x.step = IF k.step = "insert" THEN "put" ELSE "or_put"
        /\ x.user = k.user /\ x.aggregate.Stats = db[k.user].Stats
    BY <2>3 DEF Loaded
  <2>5. k.step \in {"insert", "or_insert"}
    BY <2>1 DEF InsertStep
  <2>6. CountNow({k} \cup Q) => CountNow({x} \cup Q)'
    <3> SUFFICES ASSUME CountNow({k} \cup Q) PROVE CountNow({x} \cup Q)'
      OBVIOUS
    <3>1. LosesNothing(x, {x} \cup Q)'
      BY <1>4, <1>7, <2>2, <2>4, <2>5 DEF LosesNothing
    <3>2. k.step \notin Flushing /\ k.step \notin {"mutate", "settle"}
          /\ x.step \notin {"mutate", "settle"}
      BY <2>4, <2>5 DEF Flushing
    <3>3. Does(t, {x} \cup Q)
      BY <2>1, <2>3
    <3>4. QED
      BY <1>3, <1>4, <2>2, <3>1, <3>2, <3>3, CountIdles
  <2>7. QED
    BY <1>3, <1>4, <2>1, <2>3, <2>6, CountStep
<1>11. CASE LoadFails(t)
  <2>1. /\ k \in LoadStep \cup InsertStep
        /\ \/ k.sync /\ cache' = [cache EXCEPT ![k.user] = None] /\ Does(t, Q)
           \/ ~k.sync /\ Fail(t) /\ cache' = cache /\ Does(t, {})
    BY <1>0, <1>3, <1>11, LoadFailsDoes
  <2>2. /\ k.step \in {"load", "load_or_insert", "insert", "or_insert"} /\ k.user \in UserId
    BY <2>1 DEF LoadStep, InsertStep
  <2>3. CASE k.sync /\ cache' = [cache EXCEPT ![k.user] = None] /\ Does(t, Q)
    <3>1. CountNow({k} \cup Q) => CountNow(Q)'
      <4> SUFFICES ASSUME CountNow({k} \cup Q) PROVE CountNow(Q)'
        OBVIOUS
      <4>1. k.step \in {"load", "insert"}
        BY <2>2, <2>3 DEF CountNow, LosesNothing
      <4>2. ~IsDirty(cache[k.user])
        BY <1>7, <4>1
      <4>3. \A u \in UserId : cache'[u] = cache[u] \/ (u = k.user /\ cache'[u] = None)
        BY <1>5, <2>2, <2>3
      <4>4. \A u \in UserId : /\ IsDirty(cache'[u]) => IsDirty(cache[u])
                              /\ CountedGames(u)' = CountedGames(u)
        BY <1>4, <4>2, <4>3, NoneIsClean DEF CountedGames
      <4>5. CleanIsWritten'
        BY <1>4, <4>3 DEF CountNow, CleanIsWritten
      <4>6. \A u \in UserId : Owed(Q, u) <=> Owed(Work(t), u)
        BY <1>3, <2>2 DEF Working, Owed, Bumps
      <4>7. k.step \notin Flushing
        BY <2>2 DEF Flushing
      <4>8. QED
        BY <1>3, <1>4, <2>3, <4>4, <4>5, <4>6, <4>7, CountGoesOn
    <3>2. QED
      BY <1>3, <1>4, <2>3, <3>1, CountStep
  <2>4. CASE ~k.sync /\ Fail(t) /\ cache' = cache /\ Does(t, {})
    <3>1. ASSUME spoilt' = {}, CountNow({k} \cup Q) PROVE CountNow({})'
      BY <1>4, <2>4, <3>1, FailSpoils, CountEnds
    <3>2. QED
      BY <1>3, <1>4, <2>4, <3>1, CountStep
  <2>5. QED
    BY <2>1, <2>3, <2>4
<1>12. CASE Put(t)
  <2>1. /\ k \in PutStep /\ Does(t, Q)
        /\ cache' = IF k.step = "or_put" /\ cache[k.user] # None THEN cache
                    ELSE [cache EXCEPT ![k.user] = clean(k.aggregate)]
    BY <1>0, <1>3, <1>12, PutDoes
  <2>2. k.step \in {"put", "or_put"} /\ k.user \in UserId
    BY <2>1 DEF PutStep
  <2>3. CountNow({k} \cup Q) => CountNow(Q)'
    <3> SUFFICES ASSUME CountNow({k} \cup Q) PROVE CountNow(Q)'
      OBVIOUS
    <3>1. k.aggregate.Stats = db[k.user].Stats
      BY <2>2 DEF CountNow, LosesNothing
    <3>2. \A u \in UserId :
              cache'[u] = cache[u] \/ (/\ u = k.user /\ cache'[u] = clean(k.aggregate)
                                      /\ ~IsDirty(cache[u]))
      BY <1>5, <1>7, <2>1, <2>2, NoneIsClean
    <3>3. ~IsDirty(clean(k.aggregate)) /\ clean(k.aggregate).aggregate = k.aggregate
      BY DEF IsDirty, clean
    <3>4. \A u \in UserId : /\ IsDirty(cache'[u]) => IsDirty(cache[u])
                            /\ CountedGames(u)' = CountedGames(u)
      BY <1>4, <3>2, <3>3 DEF CountedGames
    <3>5. CleanIsWritten'
      BY <1>4, <3>1, <3>2, <3>3 DEF CountNow, CleanIsWritten
    <3>6. \A u \in UserId : Owed(Q, u) <=> Owed(Work(t), u)
      BY <1>3, <2>2 DEF Working, Owed, Bumps
    <3>7. k.step \notin Flushing
      BY <2>2 DEF Flushing
    <3>8. QED
      BY <1>3, <1>4, <2>1, <3>4, <3>5, <3>6, <3>7, CountGoesOn
  <2>4. QED
    BY <1>3, <1>4, <2>1, <2>3, CountStep
<1>13. CASE Remove(t)
  <2>1. spoilt' # {}
    BY <1>13 DEF Remove
  <2>2. QED
    BY <2>1 DEF CountInv
<1>14. QED
  BY <1>8, <1>9, <1>10, <1>11, <1>12, <1>13

\* Steps of a flush that only read, or do not succeed.
LEMMA FlushLosesNothing ==
    ASSUME CachesAreSafe, AloneInv, CountInv, NEW t \in Task,
           FlushStart(t) \/ Snapshot(t) \/ SaveFails(t) \/ FlushEnds(t)
    PROVE  CountInv'
<1> DEFINE h == Head(todo[t])
           R == Rest(todo[t])
<1>0. ListsFit /\ todo[t] # <<>>
  BY DEF AloneInv, FlushStart, Snapshot, SaveFails, FlushEnds, Doing
<1>1. Working(t, h, R)
  BY <1>0, WorkIsWellFormed
<1>2. PICK k, Q : k = h /\ Q = R
  OBVIOUS
<1> HIDE DEF h, R
<1>3. Working(t, k, Q)
  BY <1>1, <1>2
<1>4. db' = db /\ cache' = cache /\ games' = games /\ spoilt \subseteq spoilt'
  BY SpoiltGrows DEF FlushStart, Snapshot, SaveFails, FlushEnds, dbVars
<1>5. k.step \in Flushing /\ k.step \notin {"mutate", "settle"}
  BY <1>2 DEF h, FlushStart, Snapshot, SaveFails, FlushEnds, Doing, Flushing
\* The flush goes on with step x for the same player.
<1>6. ASSUME NEW x, x.step \in Flushing, x.user = k.user, Does(t, {x} \cup Q),
             CountNow({k} \cup Q) => LosesNothing(x, {x} \cup Q)'
      PROVE  CountInv'
  <2>1. x.step \notin {"mutate", "settle"}
    BY <1>6 DEF Flushing
  <2>2. CountNow({k} \cup Q) => CountNow({x} \cup Q)'
    BY <1>3, <1>4, <1>5, <1>6, <2>1, CountIdles
  <2>3. QED
    BY <1>3, <1>4, <1>6, <2>2, CountStep
\* There is nothing to flush.
<1>7. ASSUME Does(t, Q), CountNow({k} \cup Q) => ~IsDirty(cache[k.user])
      PROVE  CountInv'
  <2>1. CountNow({k} \cup Q) => CountNow(Q)'
    BY <1>3, <1>4, <1>5, <1>7, CountIdles
  <2>2. QED
    BY <1>3, <1>4, <1>7, <2>1, CountStep
<1>8. CASE FlushStart(t)
  <2>1. /\ k \in ReadStep
        /\ \/ ~IsDirty(cache[k.user]) /\ Does(t, Q)
           \/ /\ IsDirty(cache[k.user]) /\ cache[k.user] \in Entry
              /\ Does(t, {Copied(k.user, cache[k.user])} \cup Q)
    BY <1>0, <1>3, <1>8, FlushDoes
  <2>2. CASE ~IsDirty(cache[k.user]) /\ Does(t, Q)
    BY <1>7, <2>2
  <2>3. CASE IsDirty(cache[k.user]) /\ cache[k.user] \in Entry
             /\ Does(t, {Copied(k.user, cache[k.user])} \cup Q)
    <3>1. PICK x : x = Copied(k.user, cache[k.user])
      OBVIOUS
    <3>2. x.step = "snapshot" /\ x.user = k.user /\ x.buckets = dirty_buckets(cache[k.user])
      BY <3>1 DEF Copied
    <3>3. "Stats" \in x.buckets
      <4>1. k.user \in UserId
        BY <2>1 DEF ReadStep
      <4>2. QED
        BY <2>3, <3>2, <4>1, CopiedIsStep
    <3>4. LosesNothing(x, {x} \cup Q)'
      BY <3>2, <3>3 DEF LosesNothing
    <3>5. QED
      BY <1>6, <2>3, <3>1, <3>2, <3>4 DEF Flushing
  <2>4. QED
    BY <2>1, <2>2, <2>3
<1>9. CASE Snapshot(t)
  <2> DEFINE y == Saving(k, k.buckets, cache[k.user], FALSE)
  <2>1. /\ k \in SnapshotStep
        /\ (cache[k.user] = None /\ Does(t, Q)) \/ Does(t, {y} \cup Q)
    BY <1>0, <1>3, <1>9, SnapshotDoes
  <2>2. CASE cache[k.user] = None /\ Does(t, Q)
    BY <1>7, <2>2, NoneIsClean
  <2>3. CASE Does(t, {y} \cup Q)
    <3>1. PICK x : x = y
      OBVIOUS
    <3>2. /\ x.step = "save" /\ x.user = k.user /\ x.buckets = k.buckets
          /\ x.entry = cache[k.user] /\ x.failed = FALSE
      BY <3>1 DEF Saving
    <3> HIDE DEF y
    <3>3. CountNow({k} \cup Q) => LosesNothing(k, {k} \cup Q)
      BY DEF CountNow
    <3>4. k.step = "snapshot"
      BY <2>1 DEF SnapshotStep
    <3>5. CountNow({k} \cup Q) => LosesNothing(x, {x} \cup Q)'
      BY <1>4, <3>2, <3>3, <3>4 DEF LosesNothing
    <3>6. QED
      BY <1>6, <2>3, <3>1, <3>2, <3>5 DEF Flushing
  <2>4. QED
    BY <2>1, <2>2, <2>3
<1>10. CASE SaveFails(t)
  <2>1. /\ k \in SaveStep /\ Does(t, {Failing(k)} \cup Q)
        /\ Failing(k) \in SaveStep /\ Failing(k).user = k.user
        /\ Failing(k).buckets = {} /\ Failing(k).failed
    BY <1>0, <1>3, <1>10, SaveFailsDoes
  <2>2. PICK x : x = Failing(k)
    OBVIOUS
  <2>3. x.step = "save" /\ x.user = k.user /\ x.buckets = {} /\ x.failed
    BY <2>1, <2>2 DEF SaveStep
  <2>4. LosesNothing(x, {x} \cup Q)'
    BY <2>3 DEF LosesNothing
  <2>5. QED
    BY <1>6, <2>1, <2>2, <2>3, <2>4 DEF Flushing
<1>11. CASE FlushEnds(t)
  <2>1. /\ k \in SaveStep /\ k.buckets = {}
        /\ (Fail(t) /\ Does(t, {})) \/ (~k.failed /\ Does(t, Q))
    BY <1>0, <1>3, <1>11, FlushEndsDoes
  <2>2. CASE Fail(t) /\ Does(t, {})
    <3>1. ASSUME spoilt' = {}, CountNow({k} \cup Q) PROVE CountNow({})'
      BY <1>4, <2>2, <3>1, FailSpoils, CountEnds
    <3>2. QED
      BY <1>3, <1>4, <2>2, <3>1, CountStep
  <2>3. CASE ~k.failed /\ Does(t, Q)
    <3>1. k.step = "save"
      BY <2>1 DEF SaveStep
    <3>2. CountNow({k} \cup Q) => ~IsDirty(cache[k.user])
      BY <2>1, <2>3, <3>1 DEF CountNow, LosesNothing
    <3>3. QED
      BY <1>7, <2>3, <3>2
  <2>4. QED
    BY <2>1, <2>2, <2>3
<1>12. QED
  BY <1>8, <1>9, <1>10, <1>11

\* The row that is written shows what the cache counts.
LEMMA WritesLoseNothing ==
    ASSUME CachesAreSafe, AloneInv, CountInv, NEW t \in Task, SaveBucket(t) \/ MarkFlushed(t)
    PROVE  CountInv'
<1> DEFINE h == Head(todo[t])
           R == Rest(todo[t])
<1>0. ListsFit /\ todo[t] # <<>>
  BY DEF AloneInv, SaveBucket, MarkFlushed, Doing
<1>1. Working(t, h, R)
  BY <1>0, WorkIsWellFormed
<1>2. PICK k, Q : k = h /\ Q = R
  OBVIOUS
<1> HIDE DEF h, R
<1>3. Working(t, k, Q)
  BY <1>1, <1>2
<1>4. games' = games /\ spoilt \subseteq spoilt'
  BY SpoiltGrows DEF SaveBucket, MarkFlushed, dbVars
<1>5. cache \in [UserId -> Entry \cup {None}] /\ db \in [UserId -> Aggregate]
  BY DEF CachesAreSafe
<1>6. None \notin Entry
  BY NoneIsNoEntry DEF Entry, Aggregate
<1>7. CASE SaveBucket(t)
  <2>1. /\ k \in SaveStep /\ "Stats" \in k.buckets
        /\ Marking(k, "Stats") \in MarkStep /\ Does(t, {Marking(k, "Stats")} \cup Q)
        /\ db' = [db EXCEPT ![k.user] = [@ EXCEPT !["Stats"] = k.entry.aggregate["Stats"]]]
    BY <1>0, <1>3, <1>7, SaveDoes
  <2>2. PICK x : x = Marking(k, "Stats")
    OBVIOUS
  <2>3. /\ x.step = "mark" /\ x.user = k.user /\ x.entry = k.entry
        /\ x.buckets = k.buckets \ {"Stats"}
    BY <2>2 DEF Marking
  <2>4. k.step = "save" /\ k.user \in UserId /\ k.entry \in Entry /\ cache' = cache
    BY <1>7, <2>1 DEF SaveStep, SaveBucket
  <2>5. ASSUME CountNow({k} \cup Q) PROVE CountNow({x} \cup Q)'
    <3>1. k.entry = cache[k.user]
      BY <2>1, <2>4, <2>5 DEF CountNow, LosesNothing
    <3>2. /\ db'[k.user].Stats = cache[k.user].aggregate.Stats
          /\ \A u \in UserId : u # k.user => db'[u] = db[u]
      BY <1>5, <2>1, <2>4, <3>1 DEF Aggregate
    <3>3. CleanIsWritten'
      BY <2>4, <2>5, <3>2 DEF CountNow, CleanIsWritten
    <3>4. \A u \in UserId : CountedGames(u)' = CountedGames(u)
      <4> TAKE u \in UserId
      <4>1. CASE u = k.user /\ ~IsDirty(cache[u])
        <5>1. cache[u] # None
          BY <1>6, <2>4, <3>1, <4>1
        <5>2. QED
          BY <2>4, <2>5, <3>2, <4>1, <5>1 DEF CountedGames, CountNow, CleanIsWritten
      <4>2. CASE u # k.user \/ IsDirty(cache[u])
        BY <2>4, <3>2, <4>2 DEF CountedGames
      <4>3. QED
        BY <4>1, <4>2
    <3>5. LosesNothing(x, {x} \cup Q)'
      BY <2>3, <2>4, <3>1, <3>2 DEF LosesNothing
    <3>6. \A u \in UserId : Owed({x} \cup Q, u) <=> Owed(Work(t), u)
      BY <1>3, <2>3, <2>4 DEF Working, Owed, Bumps
    <3>7. Does(t, {x} \cup Q)
      BY <2>1, <2>2
    <3>8. \A u \in UserId : k.user = u => \E f \in {x} \cup Q : f.step \in Flushing /\ f.user = u
      BY <2>3 DEF Flushing
    <3>9. \A u \in UserId : IsDirty(cache'[u]) => IsDirty(cache[u])
      BY <2>4
    <3>10. \A y \in {x} \cup Q : y \in Q \/ LosesNothing(y, {x} \cup Q)'
      BY <3>5
    <3>11. Q \subseteq {x} \cup Q
      OBVIOUS
    <3>12. QED
      BY <1>3, <1>4, <2>5, <3>3, <3>4, <3>6, <3>7, <3>8, <3>9, <3>10, <3>11, CountGoesOn
  <2>6. QED
    BY <1>3, <1>4, <2>1, <2>2, <2>5, CountStep
<1>8. CASE MarkFlushed(t)
  <2>1. /\ k \in MarkStep
        /\ Does(t, {Saving(k, k.buckets, k.entry, k.failed)} \cup Q)
        /\ cache' = IF Unchanged(cache[k.user], k)
                    THEN [cache EXCEPT ![k.user].dirty["Stats"] = 0] ELSE cache
    BY <1>0, <1>3, <1>8, MarkDoes
  <2>2. PICK x : x = Saving(k, k.buckets, k.entry, k.failed)
    OBVIOUS
  <2>3. x.step = "save" /\ x.user = k.user /\ x.buckets = k.buckets
    BY <2>2 DEF Saving
  <2>4. k.step = "mark" /\ k.user \in UserId /\ k.entry \in Entry /\ k.bucket = "Stats"
    BY <2>1 DEF MarkStep
  <2>5. db' = db
    BY <1>8 DEF MarkFlushed, dbVars
  <2>6. ASSUME CountNow({k} \cup Q) PROVE CountNow({x} \cup Q)'
    <3>1. /\ k.entry = cache[k.user] /\ k.entry.aggregate.Stats = db[k.user].Stats
          /\ "Stats" \notin k.buckets
      BY <2>4, <2>6 DEF CountNow, LosesNothing
    <3>2. cache[k.user] \in Entry /\ cache[k.user] # None
      BY <1>6, <2>4, <3>1
    <3>3. /\ cache'[k.user].aggregate = cache[k.user].aggregate
          /\ ~IsDirty(cache'[k.user])
          /\ \A u \in UserId : u # k.user => cache'[u] = cache[u]
      <4>1. cache[k.user].dirty \in Dirty /\ cache[k.user].dirty["Assets"] = 0
        BY <3>2 DEF Entry
      <4>2. CASE Unchanged(cache[k.user], k)
        <5>1. cache' = [cache EXCEPT ![k.user].dirty["Stats"] = 0]
          BY <2>1, <4>2
        <5>2. cache'[k.user] = [cache[k.user] EXCEPT !.dirty["Stats"] = 0]
          BY <1>5, <2>4, <5>1
        <5>3. /\ cache'[k.user].aggregate = cache[k.user].aggregate
              /\ cache'[k.user].dirty = [cache[k.user].dirty EXCEPT !["Stats"] = 0]
          BY <3>2, <5>2 DEF Entry
        <5>4. ~IsDirty(cache'[k.user])
          BY <4>1, <5>3 DEF IsDirty, Dirty, DirtyBucket
        <5>5. QED
          BY <1>5, <5>1, <5>3, <5>4
      <4>3. CASE ~Unchanged(cache[k.user], k)
        <5>1. cache[k.user].dirty["Stats"] = 0
          BY <2>4, <3>1, <3>2, <4>3 DEF Unchanged
        <5>2. QED
          BY <2>1, <4>1, <4>3, <5>1 DEF IsDirty, DirtyBucket
      <4>4. QED
        BY <4>2, <4>3
    <3>4. CleanIsWritten'
      <4> SUFFICES ASSUME NEW u \in UserId, cache'[u] # None, ~IsDirty(cache'[u])
                   PROVE  cache'[u].aggregate.Stats = db'[u].Stats
        BY DEF CleanIsWritten
      <4>1. CASE u = k.user
        BY <2>5, <3>1, <3>3, <4>1
      <4>2. CASE u # k.user
        BY <2>5, <2>6, <3>3, <4>2 DEF CountNow, CleanIsWritten
      <4>3. QED
        BY <4>1, <4>2
    <3>5. \A u \in UserId : CountedGames(u)' = CountedGames(u)
      <4> TAKE u \in UserId
      <4>1. CASE u = k.user
        BY <2>5, <3>1, <3>3, <4>1 DEF CountedGames
      <4>2. CASE u # k.user
        BY <2>5, <3>3, <4>2 DEF CountedGames
      <4>3. QED
        BY <4>1, <4>2
    <3>6. LosesNothing(x, {x} \cup Q)'
      BY <2>3, <3>1, <3>3 DEF LosesNothing
    <3>7. \A u \in UserId : Owed({x} \cup Q, u) <=> Owed(Work(t), u)
      BY <1>3, <2>3, <2>4 DEF Working, Owed, Bumps
    <3>8. Does(t, {x} \cup Q)
      BY <2>1, <2>2
    <3>9. \A u \in UserId : /\ IsDirty(cache'[u]) => IsDirty(cache[u])
                            /\ ~(IsDirty(cache'[u]) /\ k.user = u)
      BY <3>3
    <3>10. QED
      BY <1>3, <1>4, <2>6, <3>4, <3>5, <3>6, <3>7, <3>8, <3>9, CountGoesOn
  <2>7. QED
    BY <1>3, <1>4, <2>1, <2>2, <2>6, CountStep
<1>9. QED
  BY <1>7, <1>8

\* A game is counted: the cache shows it, and it is to be written.
LEMMA MutateLosesNothing ==
    ASSUME CachesAreSafe, RoomInv, AloneInv, CountInv, NEW t \in Task, Mutate(t)
    PROVE  CountInv'
<1> DEFINE h == Head(todo[t])
           R == Rest(todo[t])
<1>0. ListsFit /\ todo[t] # <<>>
  BY DEF AloneInv, Mutate, Doing
<1>1. Working(t, h, R)
  BY <1>0, WorkIsWellFormed
<1>2. PICK k, Q : k = h /\ Q = R
  OBVIOUS
<1> HIDE DEF h, R
<1>3. Working(t, k, Q)
  BY <1>1, <1>2
<1>4. db' = db /\ games' = games /\ spoilt \subseteq spoilt'
  BY SpoiltGrows DEF Mutate, dbVars
<1>5. cache \in [UserId -> Entry \cup {None}]
  BY DEF CachesAreSafe
<1>6. /\ k \in MutateStep
      /\ cache[k.user] # None /\ cache[k.user] \in Entry
      /\ Bumped(k.user) \in Entry /\ IsDirty(Bumped(k.user))
      /\ Bumped(k.user).aggregate.Stats = cache[k.user].aggregate.Stats + 1
      /\ cache' = [cache EXCEPT ![k.user] = Bumped(k.user)]
      /\ Does(t, Q) \/ Does(t, {Copied(k.user, Bumped(k.user))} \cup Q)
  BY <1>0, <1>3, MutateDoes
<1>7. k.step = "mutate" /\ k.user \in UserId
  BY <1>6 DEF MutateStep
<1>8. OnlyBumps(Q) /\ \A x \in Q : x.user # k.user
  BY <1>3, <1>7 DEF Working, Fits
<1>9. /\ Copied(k.user, Bumped(k.user)).step = "snapshot"
      /\ "Stats" \in Copied(k.user, Bumped(k.user)).buckets
  BY <1>6, <1>7, CopiedIsStep DEF Copied
<1>10. PICK X : /\ Does(t, X) /\ Q \subseteq X
                /\ \A x \in X : x \in Q \/ (x.step = "snapshot" /\ "Stats" \in x.buckets)
  BY <1>6, <1>9
<1>11. /\ Cardinality(Owing(k.user)') = Cardinality(Owing(k.user)) - 1
       /\ \A v \in UserId : v # k.user => Owing(v)' = Owing(v)
  BY <1>3, <1>6, <1>10, OneLessToCount
<1>12. /\ cache'[k.user] = Bumped(k.user)
       /\ \A v \in UserId : v # k.user => cache'[v] = cache[v]
  BY <1>5, <1>6, <1>7
<1>13. ASSUME CountNow({k} \cup Q) PROVE CountNow(X)'
  <2>1. CountedGames(k.user) = cache[k.user].aggregate.Stats
    BY <1>6, <1>7, <1>13 DEF CountNow, CleanIsWritten, CountedGames
  <2>2. CountedGames(k.user)' = cache[k.user].aggregate.Stats + 1
    BY <1>6, <1>12 DEF CountedGames
  <2>3. cache[k.user].aggregate.Stats \in Nat
    BY <1>6 DEF Entry, Aggregate
  <2>4. ASSUME NEW u \in UserId PROVE Balanced(u)'
    <3>1. GamesOf(u)' = GamesOf(u) /\ Balanced(u)
      BY <1>4, <1>13 DEF GamesOf, CountNow
    <3>2. CASE u = k.user
      <4>1. PICK a, b, c : /\ a = Cardinality(Owing(u)) /\ b = Cardinality(Owing(u)')
                           /\ c = CountedGames(u)
        OBVIOUS
      <4>2. b = a - 1 /\ a \in Nat /\ c \in Nat /\ CountedGames(u)' = c + 1
        BY <1>11, <2>1, <2>2, <2>3, <3>2, <4>1, FiniteSets
      <4>3. c + a = Cardinality(GamesOf(u))
        BY <3>1, <4>1 DEF Balanced
      <4>4. QED
        BY <3>1, <4>1, <4>2, <4>3 DEF Balanced
    <3>3. CASE u # k.user
      <4>1. CountedGames(u)' = CountedGames(u)
        BY <1>4, <1>12, <3>3 DEF CountedGames
      <4>2. QED
        BY <1>11, <3>1, <3>3, <4>1 DEF Balanced
    <3>4. QED
      BY <3>2, <3>3
  <2>5. CleanIsWritten'
    BY <1>4, <1>6, <1>12, <1>13 DEF CountNow, CleanIsWritten
  <2>6. ASSUME NEW x \in X PROVE LosesNothing(x, X)'
    <3>1. CASE x \in Q
      <4>1. x.step \in {"load", "mutate"} /\ x.user # k.user /\ x \in SafeStep
        BY <1>3, <1>8, <3>1 DEF OnlyBumps, Working
      <4>2. x.step = "load" => x.user \in UserId
        BY <4>1, StepKinds DEF LoadStep
      <4>3. LosesNothing(x, {k} \cup Q)
        BY <1>13, <3>1 DEF CountNow
      <4>4. x.step = "load" => ~IsDirty(cache[x.user])
        <5>1. \A f \in {k} \cup Q : f.step \notin Flushing
          BY <1>7, <1>8 DEF OnlyBumps, Flushing
        <5>2. QED
          BY <4>3, <5>1 DEF LosesNothing
      <4>5. x.step = "load" => ~IsDirty(cache'[x.user])
        BY <1>12, <4>1, <4>2, <4>4
      <4>6. QED
        BY <4>1, <4>5 DEF LosesNothing
    <3>2. CASE x.step = "snapshot" /\ "Stats" \in x.buckets
      BY <3>2 DEF LosesNothing
    <3>3. QED
      BY <1>10, <3>1, <3>2
  <2>7. QED
    BY <2>4, <2>5, <2>6 DEF CountNow
<1>14. QED
  BY <1>3, <1>4, <1>10, <1>13, CountStep

LEMMA MissingLosesNothing ==
    ASSUME CachesAreSafe, AloneInv, CountInv, NEW t \in Task, MutateMissing(t)
    PROVE  CountInv'
<1> DEFINE h == Head(todo[t])
           R == Rest(todo[t])
<1>0. ListsFit /\ todo[t] # <<>>
  BY DEF AloneInv, MutateMissing, Doing
<1>1. Working(t, h, R)
  BY <1>0, WorkIsWellFormed
<1>2. PICK k, Q : k = h /\ Q = R
  OBVIOUS
<1> HIDE DEF h, R
<1>3. Working(t, k, Q)
  BY <1>1, <1>2
<1>4. db' = db /\ cache' = cache /\ games' = games /\ spoilt \subseteq spoilt'
  BY SpoiltGrows DEF MutateMissing, dbVars
<1>5. /\ k \in MutateStep /\ Again(k) \in MutateStep /\ Again(k).user = k.user
      /\ Does(t, {LoadAgain(k), Again(k)} \cup Q) \/ (Fail(t) /\ Does(t, {}))
  BY <1>0, <1>3, MissingDoes
<1>6. k.step = "mutate" /\ k.user \in UserId /\ Again(k).step = "mutate"
  BY <1>5 DEF MutateStep
<1>7. OnlyBumps(Q)
  BY <1>3, <1>6 DEF Working, Fits
<1>8. CASE Does(t, {LoadAgain(k), Again(k)} \cup Q)
  <2>1. PICK X : X = {LoadAgain(k), Again(k)} \cup Q
    OBVIOUS
  <2>2. /\ LoadAgain(k).step = "load_or_insert" /\ LoadAgain(k).sync = FALSE
    BY DEF LoadAgain
  <2>3. \A x \in X : x \in Q \/ LosesNothing(x, X)'
    <3>1. LosesNothing(LoadAgain(k), X)' /\ LosesNothing(Again(k), X)'
      BY <1>6, <2>2 DEF LosesNothing
    <3>2. QED
      BY <2>1, <3>1
  <2>4. \A u \in UserId : Owed(X, u) <=> Owed(Work(t), u)
    <3>1. \A u \in UserId : Bumps(X, u) <=> Bumps(Work(t), u)
      BY <1>3, <1>5, <1>6, <2>1, <2>2 DEF Working, Bumps
    <3>2. \A x \in X \cup Work(t) : x.step # "settle"
      BY <1>3, <1>6, <1>7, <2>1, <2>2 DEF Working, OnlyBumps
    <3>3. QED
      BY <3>1, <3>2 DEF Owed
  <2>5. CountNow({k} \cup Q) => CountNow(X)'
    <3> SUFFICES ASSUME CountNow({k} \cup Q) PROVE CountNow(X)'
      OBVIOUS
    <3>1. CleanIsWritten' /\ \A u \in UserId : CountedGames(u)' = CountedGames(u)
      BY <1>4 DEF CountNow, CleanIsWritten, CountedGames
    <3>2. k.step \notin Flushing /\ Q \subseteq X
      BY <1>6, <2>1 DEF Flushing
    <3>3. QED
      BY <1>3, <1>4, <1>8, <2>1, <2>3, <2>4, <3>1, <3>2, CountGoesOn
  <2>6. QED
    BY <1>3, <1>4, <1>8, <2>1, <2>5, CountStep
<1>9. CASE Fail(t) /\ Does(t, {})
  <2>1. Owed(Work(t), k.user)
    BY <1>3, <1>6, <1>7 DEF Working, Owed, Bumps, OnlyBumps
  <2>2. spoilt' # {}
    BY <1>6, <1>9, <2>1, FailSpoils
  <2>3. QED
    BY <2>2 DEF CountInv
<1>10. QED
  BY <1>5, <1>8, <1>9

\* A transaction leaves the counts alone; a settlement adds a game to be counted.
LEMMA TransactionsLoseNothing ==
    ASSUME CachesAreSafe, RoomInv, AloneInv, CountInv, NEW t \in Task,
           CommitTx(t) \/ SettleTx(t) \/ TxRefused(t)
    PROVE  CountInv'
<1> DEFINE h == Head(todo[t])
           R == Rest(todo[t])
<1>0. ListsFit /\ todo[t] # <<>>
  BY DEF AloneInv, CommitTx, SettleTx, TxRefused, Doing
<1>1. Working(t, h, R)
  BY <1>0, WorkIsWellFormed
<1>2. PICK k, Q : k = h /\ Q = R
  OBVIOUS
<1> HIDE DEF h, R
<1>3. Working(t, k, Q)
  BY <1>1, <1>2
<1>4. cache' = cache /\ spoilt \subseteq spoilt'
  BY SpoiltGrows DEF CommitTx, SettleTx, TxRefused
<1>5. ASSUME NEW U, Changed(U) PROVE \A u \in UserId : db'[u].Stats = db[u].Stats
  BY <1>5 DEF Changed, CachesAreSafe, Aggregate
<1>6. ASSUME \A u \in UserId : db'[u].Stats = db[u].Stats, CountNow({k} \cup Q)
      PROVE  CleanIsWritten' /\ \A u \in UserId : CountedGames(u)' = CountedGames(u)
  BY <1>4, <1>6 DEF CountNow, CleanIsWritten, CountedGames
<1>7. CASE CommitTx(t)
  <2>1. k \in CommitStep /\ Does(t, Q) /\ Changed({k.user}) /\ games' = games
    BY <1>0, <1>3, <1>7, CommitDoes DEF CommitTx
  <2>2. k.step \in {"commit", "claim"}
    BY <2>1 DEF CommitStep
  <2>3. CountNow({k} \cup Q) => CountNow(Q)'
    <3> SUFFICES ASSUME CountNow({k} \cup Q) PROVE CountNow(Q)'
      OBVIOUS
    <3>1. CleanIsWritten' /\ \A u \in UserId : CountedGames(u)' = CountedGames(u)
      BY <1>5, <1>6, <2>1
    <3>2. \A u \in UserId : Owed(Q, u) <=> Owed(Work(t), u)
      BY <1>3, <2>2 DEF Working, Owed, Bumps
    <3>3. k.step \notin Flushing
      BY <2>2 DEF Flushing
    <3>4. QED
      BY <1>3, <1>4, <2>1, <3>1, <3>2, <3>3, CountGoesOn
  <2>4. QED
    BY <1>3, <1>4, <2>1, <2>3, CountStep
<1>8. CASE SettleTx(t)
  <2>1. /\ k \in SettleStep /\ Does(t, Q) /\ Changed(Players(k.id))
        /\ k.id \notin games /\ games' = games \cup {k.id}
    BY <1>0, <1>3, <1>8, SettleDoes
  <2>2. k.step = "settle"
    BY <2>1 DEF SettleStep
  <2>3. OnlyBumps(Q)
    BY <1>3, <2>2 DEF Working, Fits
  <2>4. CountNow({k} \cup Q) => CountNow(Q)'
    <3> SUFFICES ASSUME CountNow({k} \cup Q) PROVE CountNow(Q)'
      OBVIOUS
    <3>1. CleanIsWritten' /\ \A u \in UserId : CountedGames(u)' = CountedGames(u)
      BY <1>5, <1>6, <2>1
    <3>2. ASSUME NEW u \in UserId PROVE Balanced(u)'
      <4>1. CountedGames(u) \in Nat /\ Balanced(u)
        BY DEF CountNow, CountedGames, CachesAreSafe, Entry, Aggregate, IsDirty
      <4>2. CASE u \in Players(k.id)
        <5>1. /\ Cardinality(Owing(u)') = Cardinality(Owing(u)) + 1
              /\ Cardinality(GamesOf(u)') = Cardinality(GamesOf(u)) + 1
          BY <1>3, <2>1, <4>2, OneMoreToCount
        <5>2. QED
          BY <3>1, <4>1, <5>1, FiniteSets DEF Balanced
      <4>3. CASE u \notin Players(k.id)
        <5>1. Owing(u)' = Owing(u) /\ GamesOf(u)' = GamesOf(u)
          BY <1>3, <2>1, <4>3, OneMoreToCount
        <5>2. QED
          BY <3>1, <4>1, <5>1 DEF Balanced
      <4>4. QED
        BY <4>2, <4>3
    <3>3. ASSUME NEW x \in Q PROVE LosesNothing(x, Q)'
      <4>1. x.step \in {"load", "mutate"} /\ LosesNothing(x, {k} \cup Q)
        BY <2>3 DEF OnlyBumps, CountNow
      <4>2. \A f \in {k} \cup Q : f.step \notin Flushing
        BY <2>2, <2>3 DEF OnlyBumps, Flushing
      <4>3. QED
        BY <1>4, <4>1, <4>2 DEF LosesNothing
    <3>4. QED
      BY <3>1, <3>2, <3>3 DEF CountNow
  <2>5. QED
    BY <1>3, <1>4, <2>1, <2>4, CountStep
<1>9. CASE TxRefused(t)
  <2>1. k \in CommitStep \cup SettleStep /\ Does(t, {}) /\ db' = db /\ games' = games
    BY <1>0, <1>3, <1>9, RefusedDoes DEF TxRefused, dbVars
  <2>2. k.step \in {"commit", "claim", "settle"}
    BY <2>1 DEF CommitStep, SettleStep
  <2>3. \A u \in UserId : ~Owed(Work(t), u)
    <3>1. CASE k.step = "settle"
      BY <1>3, <3>1 DEF Working, Owed
    <3>2. CASE k.step \in {"commit", "claim"}
      <4>1. Q = {} \/ Q = {Reload(k.user, TRUE)} \/ Q = {Evict(k.user)}
        BY <1>3, <3>2 DEF Working, Fits
      <4>2. \A x \in {k} \cup Q : x.step # "mutate"
        BY <3>2, <4>1 DEF Reload, Evict
      <4>3. QED
        BY <1>3, <4>2 DEF Working, Owed, Bumps
    <3>3. QED
      BY <2>2, <3>1, <3>2
  <2>4. CountNow({k} \cup Q) => CountNow({})'
    BY <1>4, <2>1, <2>3, CountEnds
  <2>5. QED
    BY <1>3, <1>4, <2>1, <2>4, CountStep
<1>10. QED
  BY <1>7, <1>8, <1>9

LEMMA StartsLosingNothing ==
    ASSUME CachesAreSafe, AloneInv, CountInv, NEW t \in Task, Start(t)
    PROVE  CountInv'
<1> SUFFICES ASSUME spoilt' = {} PROVE CountNow(AllSteps)'
  BY DEF CountInv
<1>1. /\ spoilt \subseteq spoilt'
      /\ \E X : /\ BeginsWell(X) /\ Does(t, X)
                /\ "overlap" \notin spoilt' => AllSteps = {} /\ AllSteps' = X
  BY StartsAlone
<1>2. PICK X : BeginsWell(X) /\ Does(t, X) /\ AllSteps = {} /\ AllSteps' = X
  BY <1>1
<1>3. cache' = cache /\ db' = db /\ games' = games
  BY DEF Start, dbVars
<1>4. CountNow({})
  BY <1>1, <1>2 DEF CountInv
<1>5. Work(t) = {}
  BY <1>2 DEF AllSteps
<1>6. \A u \in UserId : Owed(X, u) <=> Owed(Work(t), u)
  BY <1>2, <1>5, NothingOwed DEF BeginsWell
<1>7. ASSUME NEW u \in UserId PROVE Balanced(u)'
  <2>1. Owing(u)' = Owing(u) /\ GamesOf(u)' = GamesOf(u) /\ CountedGames(u)' = CountedGames(u)
    BY <1>2, <1>3, <1>6, OwingSame DEF GamesOf, CountedGames
  <2>2. QED
    BY <1>4, <2>1 DEF CountNow, Balanced
<1>8. CleanIsWritten'
  BY <1>3, <1>4 DEF CountNow, CleanIsWritten
<1>9. \A x \in X : LosesNothing(x, X)'
  BY <1>2 DEF BeginsWell, LosesNothing, Flushing
<1>10. QED
  BY <1>2, <1>7, <1>8, <1>9 DEF CountNow

\* Nothing is lost by a crash if nothing was dirty, and nothing to be counted.
LEMMA CrashLosesNothing ==
    ASSUME CachesAreSafe, AloneInv, CountInv, Crash
    PROVE  CountInv'
<1> SUFFICES ASSUME spoilt' = {} PROVE CountNow(AllSteps)'
  BY DEF CountInv
<1>1. /\ \A t \in Task : todo'[t] = <<>>
      /\ \A u \in UserId : cache'[u] = None
      /\ games' = games /\ db' = db
  BY DEF Crash, dbVars
<1>2. /\ spoilt = {}
      /\ \A u \in UserId : ~IsDirty(cache[u])
      /\ \A t \in Task : ~OwesStats(todo[t])
  BY DEF Crash
<1>3. AllSteps' = {} /\ \A t \in Task : Work(t)' = {}
  BY <1>1, NoSteps DEF AllSteps, Work
<1>4. \A u \in UserId : \A t \in Task : ~Owed(Work(t), u)
  BY <1>2 DEF Owed, Bumps, Work, StepsOf, OwesStats
<1>5. ASSUME NEW u \in UserId PROVE Balanced(u)'
  <2>1. Owing(u) = {} /\ Owing(u)' = {}
    BY <1>3, <1>4, NothingOwed DEF Owing
  <2>2. CountedGames(u)' = CountedGames(u) /\ GamesOf(u)' = GamesOf(u)
    BY <1>1, <1>2, NoneIsClean DEF CountedGames, GamesOf
  <2>3. QED
    BY <1>2, <2>1, <2>2 DEF CountInv, CountNow, Balanced
<1>6. CleanIsWritten'
  BY <1>1 DEF CleanIsWritten
<1>7. QED
  BY <1>3, <1>5, <1>6 DEF CountNow

LEMMA CountKeeps ==
    CachesAreSafe /\ RoomInv /\ AloneInv /\ CountInv /\ [Next]_vars => CountInv'
<1> SUFFICES ASSUME CachesAreSafe, RoomInv, AloneInv, CountInv, [Next]_vars PROVE CountInv'
  OBVIOUS
<1>1. CASE Crash
  BY <1>1, CrashLosesNothing
<1>2. ASSUME NEW t \in Task,
             \/ Start(t)
             \/ ReadCached(t) \/ LoadAssets(t) \/ LoadStats(t) \/ LoadFails(t)
             \/ Put(t) \/ Remove(t)
             \/ Mutate(t) \/ MutateMissing(t)
             \/ FlushStart(t) \/ Snapshot(t) \/ SaveBucket(t) \/ SaveFails(t)
             \/ MarkFlushed(t) \/ FlushEnds(t)
             \/ CommitTx(t) \/ SettleTx(t) \/ TxRefused(t)
      PROVE  CountInv'
  BY <1>2, StartsLosingNothing, ReadsLoseNothing, FlushLosesNothing, WritesLoseNothing,
     MutateLosesNothing, MissingLosesNothing, TransactionsLoseNothing
<1>3. CASE UNCHANGED vars
  <2>1. /\ AllSteps' = AllSteps /\ spoilt' = spoilt /\ CleanIsWritten' = CleanIsWritten
        /\ \A u \in UserId : Balanced(u)' = Balanced(u)
    BY <1>3 DEF vars, dbVars, AllSteps, Work, CleanIsWritten, Balanced, Owing, CountedGames, GamesOf
  <2>2. \A x \in AllSteps : LosesNothing(x, AllSteps)' = LosesNothing(x, AllSteps)
    BY <1>3, <2>1 DEF vars, dbVars, LosesNothing
  <2>3. QED
    BY <2>1, <2>2 DEF CountInv, CountNow
<1>4. QED
  BY <1>1, <1>2, <1>3 DEF Next

\* The inductive invariant: until something is lost, the games counted and those
\* that a future has still to count are together those that were recorded.
THEOREM CountInvariant == Spec => []CountInv
<1>1. Init => CountInv
  <2> SUFFICES ASSUME Init PROVE CountInv
    OBVIOUS
  <2>1. /\ \A t \in Task : todo[t] = <<>>
        /\ \A u \in UserId : cache[u] = None /\ db[u].Stats = 0
        /\ games = {}
    BY DEF Init
  <2>2. AllSteps = {} /\ \A t \in Task : Work(t) = {}
    BY <2>1, NoSteps DEF AllSteps, Work
  <2>3. \A u \in UserId : Owing(u) = {} /\ GamesOf(u) = {} /\ CountedGames(u) = 0
    BY <2>1, <2>2, NothingOwed, NoneIsClean DEF Owing, GamesOf, CountedGames
  <2>4. \A u \in UserId : Balanced(u)
    BY <2>3, FS_EmptySet DEF Balanced
  <2>5. CleanIsWritten
    BY <2>1 DEF CleanIsWritten
  <2>6. QED
    BY <2>2, <2>4, <2>5 DEF CountInv, CountNow
<1>2. RepositoryInv => CachesAreSafe
  BY DEF RepositoryInv
<1>3. QED
  BY <1>1, <1>2, CountKeeps, RepositoryInvariant, RoomInvariant, OneWorksAtATime, PTL DEF Spec

\* As long as operations follow one another and nothing that was committed is
\* dropped or fails, every game that was recorded is counted, once.
THEOREM GamesAreCounted == Spec => []CountedWhenAlone
<1>1. CachesAreSafe /\ CountInv => CountedWhenAlone
  <2> SUFFICES ASSUME CachesAreSafe, CountInv, spoilt = {}, AtRest, NEW u \in UserId
               PROVE  CountedGames(u) = Cardinality(GamesOf(u))
    BY DEF CountedWhenAlone
  <2>1. \A t \in Task : Work(t) = {}
    BY NoSteps DEF AtRest, Work
  <2>2. Owing(u) = {}
    BY <2>1, NothingOwed DEF Owing
  <2>3. CountedGames(u) \in Nat /\ Balanced(u)
    BY DEF CountInv, CountNow, CountedGames, CachesAreSafe, Entry, Aggregate, IsDirty
  <2>4. QED
    BY <2>2, <2>3, FS_EmptySet DEF Balanced
<1>2. RepositoryInv => CachesAreSafe
  BY DEF RepositoryInv
<1>3. QED
  BY <1>1, <1>2, CountInvariant, RepositoryInvariant, PTL
===============================================================================
