---------------------------- MODULE PlayerRepository ----------------------------
(***************************************************************************)
(* PlayerRepository (src/player/repository.rs): the cache of player        *)
(* aggregates in front of the database, with its dirty buckets and their   *)
(* flush, the operations that change a player, and the claim of a mail's   *)
(* reward (src/database/inbox.rs), which writes the same rows without it.  *)
(*                                                                         *)
(* The operations are futures on several threads.  Each has a list of      *)
(* steps to do: a step is one access to the cache (the guard of an entry   *)
(* is not held over an await), one statement, or one transaction, and may  *)
(* put other steps in its place.                                           *)
(*                                                                         *)
(* Abstractions.  Of an aggregate two buckets are told apart: Stats, the   *)
(* games counted, which changes in the cache and is written back later,    *)
(* and Assets, all that transactions write to the database (rating,        *)
(* inventory, quests, achievements, levels), of which the number of        *)
(* changes is kept.  A transaction is one step: it locks the rows it       *)
(* depends on, and the answer to its COMMIT arrives.  Whether it refuses   *)
(* (no funds, an expired code, a quest not done) is a choice.  The rows    *)
(* that ensure_mode_progress inserts, of level 0, read as the missing rows *)
(* they replace.  A user is never deleted.  Of changed_at only the order   *)
(* is kept, and any dirty bucket may be due.                               *)
(*                                                                         *)
(* An operator described as a mistake is not the code: it takes the place  *)
(* of the definition after it to show that a property would notice.        *)
(***************************************************************************)
EXTENDS Naturals, Sequences, FiniteSets

CONSTANTS
    UserId,
    Settlement,         \* settlement ids
    Winner, Loser,      \* [Settlement -> UserId]
    Key,                \* idempotency keys of the other operations
    Task,               \* the futures that may run at one time
    None,
    MaxOps              \* bound: operations started

ASSUME RepositoryAssumption ==
    /\ Winner \in [Settlement -> UserId] /\ Loser \in [Settlement -> UserId]
    /\ \A s \in Settlement : Winner[s] # Loser[s]
    /\ IsFiniteSet(Settlement)
    /\ None \notin Key
    /\ MaxOps \in Nat

VARIABLES
    \* PlayerRepository
    flush_immediately,  \* PLAYER_CACHE_FLUSH_IMMEDIATELY
    cache,              \* None, or the PlayerCacheEntry of a user
    todo,               \* what each future has still to do
    \* the database
    db,                 \* the rows of a user
    games,              \* the settlement ids recorded
    operations,         \* the other idempotency keys recorded
    \* history
    committed,          \* transactions committed for each user
    bypassed,           \* users whose rows were written past the cache since
                        \* an entry of theirs was last put into it
    now,                \* changes made in the cache
    ops,                \* operations started
    spoilt              \* overlap, eviction, failure: which of them has happened

dbVars == <<db, games, operations, committed, bypassed>>
vars == <<flush_immediately, cache, todo, dbVars, now, ops, spoilt>>

DirtyBucket == {"Assets", "Stats"}
PlayerAggregate == [Assets : Nat, Stats : 0..Cardinality(Settlement)]
\* changed_at of each bucket, 0 for one that is clean.
Dirty == [DirtyBucket -> Nat]
PlayerCacheEntry == [aggregate : PlayerAggregate, dirty : Dirty]

ASSUME NoneIsNoEntry == None \notin [aggregate : [Assets : Nat, Stats : Nat], dirty : Dirty]

Step ==
         [step : {"read", "flush", "evict"}, user : UserId]
    \cup [step : {"commit", "claim"}, user : UserId, key : Key \cup {None}]
    \cup [step : {"settle"}, id : Settlement]
    \cup [step : {"mutate"}, user : UserId, loaded : BOOLEAN]
    \cup [step : {"load", "load_or_insert"}, user : UserId, sync : BOOLEAN]
    \cup [step : {"insert", "or_insert"}, user : UserId, sync : BOOLEAN, assets : Nat]
    \cup [step : {"put", "or_put"}, user : UserId, aggregate : PlayerAggregate]
    \cup [step : {"snapshot"}, user : UserId, buckets : SUBSET DirtyBucket]
    \cup [step : {"save"}, user : UserId, buckets : SUBSET DirtyBucket,
          entry : PlayerCacheEntry, failed : BOOLEAN]
    \cup [step : {"mark"}, user : UserId, buckets : SUBSET DirtyBucket,
          entry : PlayerCacheEntry, failed : BOOLEAN, bucket : DirtyBucket]

\* Types; and nobody has more games counted than there are settlements.
TypeOK ==
    /\ flush_immediately \in BOOLEAN
    /\ cache \in [UserId -> PlayerCacheEntry \cup {None}]
    /\ todo \in [Task -> Seq(Step)]
    /\ db \in [UserId -> PlayerAggregate]
    /\ games \subseteq Settlement
    /\ operations \subseteq Key
    /\ committed \in [UserId -> Nat]
    /\ bypassed \subseteq UserId
    /\ now \in Nat /\ ops \in 0..MaxOps
    /\ spoilt \subseteq {"overlap", "eviction", "failure"}

Init ==
    /\ flush_immediately \in BOOLEAN
    /\ cache = [u \in UserId |-> None]
    /\ todo = [t \in Task |-> <<>>]
    /\ db = [u \in UserId |-> [Assets |-> 0, Stats |-> 0]]
    /\ games = {} /\ operations = {}
    /\ committed = [u \in UserId |-> 0]
    /\ bypassed = {}
    /\ now = 0 /\ ops = 0
    /\ spoilt = {}

-------------------------------------------------------------------------------
(* Lists of steps                                                           *)

Doing(t, names) == todo[t] # <<>> /\ Head(todo[t]).step \in names

\* The step done is replaced by others, or the future ends (? on an error).
Goto(t, steps) == todo' = [todo EXCEPT ![t] = steps \o Tail(@)]
Return(t) == Goto(t, <<>>)
End(t) == todo' = [todo EXCEPT ![t] = <<>>]

\* What T has still to do includes a change of the statistics of a committed
\* settlement: it is lost if T ends here.
OwesStats(T) ==
    /\ \E i \in DOMAIN T : T[i].step = "mutate"
    /\ \A i \in DOMAIN T : T[i].step # "settle"

Fail(t) ==
    /\ End(t)
    /\ spoilt' = spoilt \cup {x \in {"failure"} : OwesStats(todo[t])}

IsDirty(e) == e # None /\ \E b \in DirtyBucket : e.dirty[b] # 0
dirty_buckets(e) == {b \in DirtyBucket : e.dirty[b] # 0}
clean(a) == [aggregate |-> a, dirty |-> [b \in DirtyBucket |-> 0]]

-------------------------------------------------------------------------------
(* The operations                                                           *)

Flush(u) == [step |-> "flush", user |-> u]
\* reload_player; sync: reload_player_after_sync_write
Reload(u, sync) == [step |-> "load", user |-> u, sync |-> sync]
Commit(u, k) == [step |-> "commit", user |-> u, key |-> k]
Evict(u) == [step |-> "evict", user |-> u]

BumpStats(u) == <<Reload(u, FALSE), [step |-> "mutate", user |-> u, loaded |-> FALSE]>>

GetReadonly(u) == <<[step |-> "read", user |-> u]>>
FlushPlayer(u) == <<Flush(u)>>
TickFlush(u, due) == <<[step |-> "snapshot", user |-> u, buckets |-> due]>>

\* A mistake: the cache is brought up to date before the transaction.
SyncWriteEarly(u, k) == <<Flush(u), Reload(u, TRUE), Commit(u, k)>>

\* What purchases and rewards have in common: the dirty buckets are written, the
\* transaction is recorded under its key, and the cache is brought up to date.
SyncWrite(u, k) == <<Flush(u), Commit(u, k), Reload(u, TRUE)>>

\* Without a request id a purchase has a key of its own: None.
Purchase(u, request_id) == SyncWrite(u, request_id)
RedeemInvite(u, k) == SyncWrite(u, k)
ClaimQuestReward(u, k) == SyncWrite(u, k)

TriggerQuestEvent(u) == <<Commit(u, None), Evict(u)>>
CompleteLevel(u, k) == <<Commit(u, k), Evict(u)>>

\* claim_inbox: the reward of a mail is added to the inventory, and nothing is
\* done about the cache.  The key is the mail's.
ClaimInbox(u, k) == <<[step |-> "claim", user |-> u, key |-> k]>>

\* A mistake: what a settlement of a moment ago has left dirty is not flushed.
SettleGameUnflushed(s) ==
    <<[step |-> "settle", id |-> s]>> \o BumpStats(Winner[s]) \o BumpStats(Loser[s])

SettleGame(s) ==
    <<Flush(Winner[s]), Flush(Loser[s]), [step |-> "settle", id |-> s]>>
        \o BumpStats(Winner[s]) \o BumpStats(Loser[s])

Operation ==
    {GetReadonly(u) : u \in UserId} \cup {FlushPlayer(u) : u \in UserId}
    \cup {Purchase(u, k) : u \in UserId, k \in Key \cup {None}}
    \cup {RedeemInvite(u, k) : u \in UserId, k \in Key}
    \cup {ClaimQuestReward(u, k) : u \in UserId, k \in Key}
    \cup {ClaimInbox(u, k) : u \in UserId, k \in Key}
    \cup {CompleteLevel(u, k) : u \in UserId, k \in Key}
    \cup {TriggerQuestEvent(u) : u \in UserId}
    \cup {SettleGame(s) : s \in Settlement}
    \cup UNION {{TickFlush(u, due) : due \in (SUBSET dirty_buckets(cache[u])) \ {{}}} :
                u \in {v \in UserId : IsDirty(cache[v])}}

Start(t) ==
    /\ todo[t] = <<>>
    /\ ops < MaxOps
    /\ ops' = ops + 1
    /\ \E op \in Operation : todo' = [todo EXCEPT ![t] = op]
    /\ spoilt' = spoilt \cup {x \in {"overlap"} : \E o \in Task : todo[o] # <<>>}
    /\ UNCHANGED <<flush_immediately, cache, dbVars, now>>

-------------------------------------------------------------------------------
(* The cache and what is loaded into it                                     *)

\* get_readonly
ReadCached(t) ==
    /\ Doing(t, {"read"})
    /\ LET u == Head(todo[t]).user
       IN IF cache[u] # None THEN Return(t) ELSE Goto(t, <<Reload(u, FALSE)>>)
    /\ UNCHANGED <<flush_immediately, cache, dbVars, now, ops, spoilt>>

\* load_aggregate reads one table after the other, outside a transaction:
\* the statistics after the assets.
LoadAssets(t) ==
    /\ Doing(t, {"load", "load_or_insert"})
    /\ LET h == Head(todo[t])
       IN Goto(t, <<[step |-> IF h.step = "load" THEN "insert" ELSE "or_insert",
                     user |-> h.user, sync |-> h.sync, assets |-> db[h.user].Assets]>>)
    /\ UNCHANGED <<flush_immediately, cache, dbVars, now, ops, spoilt>>

LoadStats(t) ==
    /\ Doing(t, {"insert", "or_insert"})
    /\ LET h == Head(todo[t])
       IN Goto(t, <<[step |-> IF h.step = "insert" THEN "put" ELSE "or_put", user |-> h.user,
                     aggregate |-> [Assets |-> h.assets, Stats |-> db[h.user].Stats]]>>)
    /\ UNCHANGED <<flush_immediately, cache, dbVars, now, ops, spoilt>>

\* A statement of load_aggregate fails: after a synchronous write the old
\* entry is removed, otherwise the operation fails.
LoadFails(t) ==
    /\ Doing(t, {"load", "load_or_insert", "insert", "or_insert"})
    /\ LET h == Head(todo[t])
       IN IF h.sync
          THEN /\ cache' = [cache EXCEPT ![h.user] = None]
               /\ Return(t) /\ UNCHANGED spoilt
          ELSE Fail(t) /\ UNCHANGED cache
    /\ UNCHANGED <<flush_immediately, dbVars, now, ops>>

\* cache.insert, and entry().or_insert_with
Put(t) ==
    /\ Doing(t, {"put", "or_put"})
    /\ LET h == Head(todo[t])
       IN IF h.step = "or_put" /\ cache[h.user] # None THEN UNCHANGED <<cache, bypassed>>
          ELSE /\ cache' = [cache EXCEPT ![h.user] = clean(h.aggregate)]
               /\ bypassed' = bypassed \ {h.user}
    /\ Return(t)
    /\ UNCHANGED <<flush_immediately, db, games, operations, committed, now, ops, spoilt>>

\* cache.remove, in trigger_quest_event and complete_level
Remove(t) ==
    /\ Doing(t, {"evict"})
    /\ cache' = [cache EXCEPT ![Head(todo[t]).user] = None]
    /\ spoilt' = spoilt \cup {"eviction"}
    /\ Return(t)
    /\ UNCHANGED <<flush_immediately, dbVars, now, ops>>

-------------------------------------------------------------------------------
(* Changes in the cache                                                     *)

\* A mistake: bump_stats names a bucket it does not change.
BumpBucketsAll == DirtyBucket

BumpBuckets == {"Stats"}

\* with_player_mut of bump_stats, on an entry that is there ...
Mutate(t) ==
    /\ Doing(t, {"mutate"})
    /\ LET u == Head(todo[t]).user
           e == [aggregate |-> [cache[u].aggregate EXCEPT !.Stats = @ + 1],
                 dirty |-> [b \in DirtyBucket |->
                              IF b \in BumpBuckets THEN now + 1 ELSE cache[u].dirty[b]]]
       IN /\ cache[u] # None
          /\ cache' = [cache EXCEPT ![u] = e]
          /\ IF flush_immediately
             THEN Goto(t, <<[step |-> "snapshot", user |-> u, buckets |-> dirty_buckets(e)]>>)
             ELSE Return(t)
    /\ now' = now + 1
    /\ UNCHANGED <<flush_immediately, dbVars, ops, spoilt>>

\* ... and on one that was removed since: it is loaded once, and NotFound if
\* it is removed again.
MutateMissing(t) ==
    /\ Doing(t, {"mutate"})
    /\ LET h == Head(todo[t])
       IN /\ cache[h.user] = None
          /\ \/ /\ ~h.loaded
                /\ Goto(t, <<[step |-> "load_or_insert", user |-> h.user, sync |-> FALSE],
                             [h EXCEPT !.loaded = TRUE]>>)
                /\ UNCHANGED spoilt
             \/ h.loaded /\ Fail(t)
    /\ UNCHANGED <<flush_immediately, cache, dbVars, now, ops>>

-------------------------------------------------------------------------------
(* Flushing                                                                 *)

\* flush_player: which buckets are dirty
FlushStart(t) ==
    /\ Doing(t, {"flush"})
    /\ LET u == Head(todo[t]).user
       IN IF IsDirty(cache[u])
          THEN Goto(t, <<[step |-> "snapshot", user |-> u, buckets |-> dirty_buckets(cache[u])]>>)
          ELSE Return(t)
    /\ UNCHANGED <<flush_immediately, cache, dbVars, now, ops, spoilt>>

\* flush_player_buckets: a copy of the aggregate and of changed_at.  (A bucket
\* that was flushed meanwhile is written again.)
Snapshot(t) ==
    /\ Doing(t, {"snapshot"})
    /\ LET h == Head(todo[t])
       IN IF cache[h.user] = None THEN Return(t)
          ELSE Goto(t, <<[step |-> "save", user |-> h.user, buckets |-> h.buckets,
                          entry |-> cache[h.user], failed |-> FALSE]>>)
    /\ UNCHANGED <<flush_immediately, cache, dbVars, now, ops, spoilt>>

\* save_bucket: the row with bucket b of aggregate a
Written(row, b, a) == [row EXCEPT ![b] = a[b]]

SaveBucket(t) ==
    /\ Doing(t, {"save"})
    /\ LET h == Head(todo[t])
       IN \E b \in h.buckets :
            /\ db' = [db EXCEPT ![h.user] = Written(@, b, h.entry.aggregate)]
            /\ Goto(t, <<[step |-> "mark", user |-> h.user, buckets |-> h.buckets \ {b},
                          entry |-> h.entry, failed |-> h.failed, bucket |-> b]>>)
    /\ UNCHANGED <<flush_immediately, cache, games, operations, committed, bypassed, now, ops, spoilt>>

\* The bucket stays dirty, and the others are tried.
SaveFails(t) ==
    /\ Doing(t, {"save"})
    /\ LET h == Head(todo[t])
       IN \E b \in h.buckets :
            Goto(t, <<[h EXCEPT !.buckets = @ \ {b}, !.failed = TRUE]>>)
    /\ UNCHANGED <<flush_immediately, cache, dbVars, now, ops, spoilt>>

\* A mistake: a change made while the bucket was written is not noticed.
UnchangedAlways(e, h) == e # None

\* Bucket h.bucket of entry e has not changed since it was copied to be written.
Unchanged(e, h) ==
    /\ e # None
    /\ e.dirty[h.bucket] # 0
    /\ e.dirty[h.bucket] = h.entry.dirty[h.bucket]

MarkFlushed(t) ==
    /\ Doing(t, {"mark"})
    /\ LET h == Head(todo[t])
       IN /\ cache' = IF Unchanged(cache[h.user], h)
                      THEN [cache EXCEPT ![h.user].dirty[h.bucket] = 0]
                      ELSE cache
          /\ Goto(t, <<[step |-> "save", user |-> h.user, buckets |-> h.buckets,
                        entry |-> h.entry, failed |-> h.failed]>>)
    /\ UNCHANGED <<flush_immediately, dbVars, now, ops, spoilt>>

FlushEnds(t) ==
    /\ Doing(t, {"save"})
    /\ LET h == Head(todo[t])
       IN /\ h.buckets = {}
          /\ IF h.failed THEN Fail(t) ELSE Return(t) /\ UNCHANGED spoilt
    /\ UNCHANGED <<flush_immediately, cache, dbVars, now, ops>>

-------------------------------------------------------------------------------
(* Transactions                                                             *)

\* The database after a transaction has changed the assets of users U.
Changed(U) ==
    /\ db' = [u \in UserId |-> IF u \in U THEN [db[u] EXCEPT !.Assets = @ + 1] ELSE db[u]]
    /\ committed' = [u \in UserId |-> IF u \in U THEN committed[u] + 1 ELSE committed[u]]

\* The transaction of an operation with an idempotency key, or without one.
CommitTx(t) ==
    /\ Doing(t, {"commit", "claim"})
    /\ LET h == Head(todo[t])
       IN /\ h.key \notin operations
          /\ operations' = operations \cup ({h.key} \ {None})
          /\ Changed({h.user})
          /\ bypassed' = bypassed \cup {u \in {h.user} : h.step = "claim"}
    /\ Return(t)
    /\ UNCHANGED <<flush_immediately, cache, games, now, ops, spoilt>>

\* A mistake: a settlement that was recorded before is taken as done now.
SettleTxRepeated(t) ==
    /\ Doing(t, {"settle"})
    /\ LET s == Head(todo[t]).id
       IN IF s \in games THEN UNCHANGED <<db, committed>> ELSE Changed({Winner[s], Loser[s]})
    /\ games' = games \cup {Head(todo[t]).id}
    /\ Return(t)
    /\ UNCHANGED <<flush_immediately, cache, operations, bypassed, now, ops, spoilt>>

SettleTx(t) ==
    /\ Doing(t, {"settle"})
    /\ LET s == Head(todo[t]).id
       IN /\ s \notin games
          /\ games' = games \cup {s}
          /\ Changed({Winner[s], Loser[s]})
    /\ Return(t)
    /\ UNCHANGED <<flush_immediately, cache, operations, bypassed, now, ops, spoilt>>

\* It was done before, is refused, or fails: nothing is written.
TxRefused(t) ==
    /\ Doing(t, {"commit", "claim", "settle"})
    /\ End(t)
    /\ UNCHANGED <<flush_immediately, cache, dbVars, now, ops, spoilt>>

\* The process ends: what was only in memory is gone.
Crash ==
    /\ cache' = [u \in UserId |-> None]
    /\ todo' = [t \in Task |-> <<>>]
    /\ spoilt' = spoilt \cup {x \in {"failure"} : \/ \E u \in UserId : IsDirty(cache[u])
                                                  \/ \E t \in Task : OwesStats(todo[t])}
    /\ UNCHANGED <<flush_immediately, dbVars, now, ops>>

-------------------------------------------------------------------------------
Next ==
    \/ Crash
    \/ \E t \in Task :
        \/ Start(t)
        \/ ReadCached(t) \/ LoadAssets(t) \/ LoadStats(t) \/ LoadFails(t)
        \/ Put(t) \/ Remove(t)
        \/ Mutate(t) \/ MutateMissing(t)
        \/ FlushStart(t) \/ Snapshot(t) \/ SaveBucket(t) \/ SaveFails(t)
        \/ MarkFlushed(t) \/ FlushEnds(t)
        \/ CommitTx(t) \/ SettleTx(t) \/ TxRefused(t)

Spec == Init /\ [][Next]_vars

-------------------------------------------------------------------------------
(* Properties                                                               *)

AtRest == \A t \in Task : todo[t] = <<>>

\* What transactions have given and taken is never undone by a flush of an
\* older aggregate: the rows of a user show every transaction that was
\* committed for it (save_bucket replaces the whole bucket, from a copy).
NothingWrittenBack == \A u \in UserId : db[u].Assets = committed[u]

\* The settlements of user u.
GamesOf(u) == {s \in games : u \in {Winner[s], Loser[s]}}

\* No game is counted twice, in the cache or in the database, whatever is
\* retried, announced again, reloaded or written again.
NeverCountedTwice ==
    \A u \in UserId :
        /\ db[u].Stats <= Cardinality(GamesOf(u))
        /\ cache[u] # None => cache[u].aggregate.Stats <= Cardinality(GamesOf(u))

\* A bucket becomes clean by a flush only if what the cache holds is what that
\* flush has written: a change made meanwhile stays dirty.
MarkedIsWritten == [][
    \A t \in Task :
        LET h == Head(todo[t])
            before == cache[h.user]
            after == cache'[h.user]
        IN Doing(t, {"mark"}) /\ todo'[t] # todo[t] /\ after # None /\ after # before =>
               before.aggregate[h.bucket] = h.entry.aggregate[h.bucket]]_vars

\* The games of u that are counted: by the cache if it has a count to write,
\* by the database otherwise.
CountedGames(u) ==
    IF IsDirty(cache[u]) THEN cache[u].aggregate.Stats ELSE db[u].Stats

\* As long as operations follow one another, none drops the entry, and neither
\* a settlement nor the process fails after a commit, every game that was
\* recorded is counted: refused transactions, failed flushes and failed reloads
\* lose nothing.
CountedWhenAlone ==
    spoilt = {} /\ AtRest => \A u \in UserId : CountedGames(u) = Cardinality(GamesOf(u))

\* The same, but for entries that are dropped: openspec's design asks of every
\* operation that removes or replaces an entry that it writes first what is dirty.
StatsSurvive ==
    spoilt \subseteq {"eviction"} /\ AtRest =>
        \A u \in UserId : CountedGames(u) = Cardinality(GamesOf(u))

\* openspec's design promises that a reload follows every change of assets: as
\* long as operations follow one another and none fails half-way, what the cache
\* shows of the assets is what the database has.  claim_inbox breaks the promise,
\* and it alone: the assets of a player are stale in the cache only from the claim
\* of a mail to the next time the player is loaded.
FreshWhenAlone ==
    spoilt \subseteq {"eviction"} /\ AtRest =>
        \A u \in UserId \ bypassed : cache[u] # None => cache[u].aggregate.Assets = db[u].Assets
===============================================================================
