-------------------------------- MODULE Rewards --------------------------------
(* The transactions by which a player comes by items (player/repository.rs,   *)
(* database/inbox.rs): purchases, invites, quest rewards, levels and their    *)
(* milestones, and the inbox.  A transaction begins by reading, under locks   *)
(* on the rows that are there; a row that is not there cannot be locked, so   *)
(* two transactions may both find it missing.  It ends with a commit, or      *)
(* leaves nothing: a statement fails, the database ends a deadlock, the       *)
(* server crashes.  Locks are taken all at once: another order of taking them *)
(* only adds deadlocks, which fail.  What the cached players make of all this *)
(* is the matter of PlayerRepository.                                         *)
(* An operator described as a mistake is not the code: it takes the place of  *)
(* the definition after it to show which property notices.                   *)
EXTENDS Requests, Integers, FiniteSets, FiniteSetsExt

CONSTANTS
    OperationId,     \* request_id of purchases
    PRICE, STOCK,    \* shop_items: an item, for coins
    MAX_USES,        \* invite_codes: of the one code there is
    Quest, DailyQuest,    \* quests, and those of quest_type 'daily'
    Previous,        \* the story quest before each quest, or None
    SortOrder,       \* sort_order: the order in which an event meets the quests
    ConditionType,   \* the event each quest counts
    ConditionValue,  \* and how many of them complete it
    MilestoneInit,
    MilestoneGap,    \* achievement_progressive: init and gap
    Coins,           \* the coins each player has to begin with
    MaxLevel,        \* bound: the levels of the mode
    MaxEvents        \* bound: events that are no purchase and no level

ASSUME QuantitiesAreNumbers ==
    /\ {PRICE, STOCK, MAX_USES, MilestoneInit, Coins, MaxLevel, MaxEvents} \subseteq Nat
    /\ MilestoneInit # 0                  \* or a milestone is due before the first level
    /\ MilestoneGap \in Nat \ {0}         \* or the milestones of one level never end
ASSUME QuestsAreDefined ==
    /\ DailyQuest \subseteq Quest
    /\ Previous \in [Quest -> (Quest \ DailyQuest) \cup {None}]
    /\ SortOrder \in [Quest -> Nat]
    /\ \A q \in Quest : Previous[q] # None => SortOrder[Previous[q]] < SortOrder[q]
    /\ ConditionType \in [Quest -> {"ItemPurchased", "LevelCompleted", "InviteCreated"}]
    /\ ConditionValue \in [Quest -> Nat \ {0}]
    /\ None \notin [value : Nat, completed : BOOLEAN, rewarded : BOOLEAN]

VARIABLES
    inventory,       \* user_inventory
    ledger,          \* asset_ledger
    op_keys,         \* player_operation_idempotency
    stock, uses,     \* of the shop's item, of the invite
    quest_row,       \* user_quest_progress of the story and of today, or None
    counted,         \* the events committed that had found the quest open (history)
    level,           \* player_mode_progress, of one mode
    milestone,       \* user_progressive_achievement_progress.step
    mail,            \* user_inbox: the reward of each milestone
    tx               \* the transaction of each future, or None

rewardVars == <<inventory, ledger, op_keys, stock, uses, quest_row, counted, level,
                milestone, mail, tx>>

Item == {"coin", "ticket"}
QuestRow == [value : Nat, completed : BOOLEAN, rewarded : BOOLEAN]
MailState == {"none", "unclaimed", "claimed", "deleted"}

RewardsInit ==
    /\ inventory = [u \in UserId |-> [i \in Item |-> IF i = "coin" THEN Coins ELSE 0]]
    /\ ledger = {}
    /\ op_keys = {}
    /\ stock = STOCK
    /\ uses = 0
    /\ quest_row = [u \in UserId |-> [q \in Quest |-> None]]
    /\ counted = [u \in UserId |-> [q \in Quest |-> 0]]
    /\ level = [u \in UserId |-> 0]
    /\ milestone = [u \in UserId |-> 0]
    /\ mail = [u \in UserId |-> [n \in 1..MaxLevel |-> "none"]]
    /\ tx = [r \in Request |-> None]

------------------------------------------------------------------------------

\* The rows and keys that transactions under way hold.
Locked == UNION {tx[r].locks : r \in {q \in Request : tx[q] # None}}

QuestsOf(event) == {q \in Quest : ConditionType[q] = event}
Counted(q, n) == [value |-> n, completed |-> n >= ConditionValue[q], rewarded |-> FALSE]
Completed(row) == row # None /\ row.completed

\* What apply_quest_event_in_tx makes of the rows it reads: a quest in progress
\* counts, and one whose row is missing begins if it is a daily one or the first,
\* or if the one before is completed, by this very event perhaps (sort_order).
QuestRows(u, event) ==
    LET After[q \in Quest] ==
            LET row == quest_row[u][q]
            IN  IF ConditionType[q] # event \/ Completed(row) THEN row
                ELSE IF row # None THEN Counted(q, row.value + 1)
                ELSE IF q \in DailyQuest \/ Previous[q] = None \/ Completed(After[Previous[q]])
                     THEN Counted(q, 1) ELSE None
    IN  After

\* A transaction begins: what it has read, under the locks on it, and the rows
\* the quests are to get.  A row that is there is locked as it is read.
Begins(r, op, u, arg, event, locks) ==
    LET rows  == QuestRows(u, event)
        moves == {q \in QuestsOf(event) : rows[q] # None}
        all   == locks \cup {<<"quest", u, q>> : q \in {p \in moves : quest_row[u][p] # None}}
    IN  /\ tx[r] = None
        /\ all \cap Locked = {}
        /\ tx' = [tx EXCEPT ![r] = [op |-> op, user |-> u, arg |-> arg, locks |-> all,
                                    quests |-> [q \in moves |-> rows[q]],
                                    missing |-> {q \in moves : quest_row[u][q] = None}]]
        /\ UNCHANGED <<inventory, ledger, op_keys, stock, uses, quest_row, counted, level,
                       milestone, mail>>

TxIs(r, op) == tx[r] # None /\ tx[r].op = op
TxEnds(r) == tx' = [tx EXCEPT ![r] = None]
Key(r) == <<tx[r].op, tx[r].user, tx[r].arg>>

\* A mistake: a story row that has come to be there is left as it is, too.
QuestEventLenient(r) ==
    LET u       == tx[r].user
        Kept(q) == q \in tx[r].missing /\ quest_row[u][q] # None
    IN  /\ quest_row' = [quest_row EXCEPT ![u] = [q \in Quest |->
               IF q \in DOMAIN tx[r].quests /\ ~Kept(q) THEN tx[r].quests[q] ELSE @[q]]]
        /\ counted' = [counted EXCEPT ![u] = [q \in Quest |->
               IF q \in DOMAIN tx[r].quests THEN @[q] + 1 ELSE @[q]]]

\* The rows are written.  A row that was missing and has come to be there since
\* fails the transaction, if it is of a story quest; of a daily one it is left as
\* it is (ON CONFLICT DO NOTHING), and this event is not counted.
QuestEvent(r) ==
    LET u       == tx[r].user
        Kept(q) == q \in tx[r].missing /\ quest_row[u][q] # None
    IN  /\ \A q \in DOMAIN tx[r].quests : Kept(q) => q \in DailyQuest
        /\ quest_row' = [quest_row EXCEPT ![u] = [q \in Quest |->
               IF q \in DOMAIN tx[r].quests /\ ~Kept(q) THEN tx[r].quests[q] ELSE @[q]]]
        /\ counted' = [counted EXCEPT ![u] = [q \in Quest |->
               IF q \in DOMAIN tx[r].quests THEN @[q] + 1 ELSE @[q]]]

\* add_inventory_in_tx and insert_asset_ledger.
Deposit(u, item, qty, key) ==
    /\ inventory' = [inventory EXCEPT ![u][item] = @ + qty]
    /\ ledger' = ledger \cup {[user |-> u, item |-> item, delta |-> qty, key |-> key]}

------------------------------------------------------------------------------

\* A mistake: the coins are taken without looking how many there are.
PurchaseOnCredit(r, u, id) ==
    /\ <<"purchase", u, id>> \notin op_keys
    /\ stock > 0
    /\ Begins(r, "purchase", u, id, "ItemPurchased",
              {<<"purchase", u, id>>, <<"shop">>, <<"coin", u>>})

\* purchase: the key, the stock and the price, each under its lock.
Purchase(r, u, id) ==
    /\ <<"purchase", u, id>> \notin op_keys
    /\ stock > 0
    /\ inventory[u]["coin"] >= PRICE
    /\ Begins(r, "purchase", u, id, "ItemPurchased",
              {<<"purchase", u, id>>, <<"shop">>, <<"coin", u>>})

CommitPurchase(r) ==
    LET u == tx[r].user
    IN  /\ TxIs(r, "purchase")
        /\ inventory' = [inventory EXCEPT ![u]["coin"] = @ - PRICE, ![u]["ticket"] = @ + 1]
        /\ ledger' = ledger \cup
               {[user |-> u, item |-> "coin", delta |-> -PRICE, key |-> Key(r)],
                [user |-> u, item |-> "ticket", delta |-> 1, key |-> Key(r)]}
        /\ op_keys' = op_keys \cup {Key(r)}
        /\ stock' = stock - 1
        /\ QuestEvent(r)
        /\ TxEnds(r)
        /\ UNCHANGED <<uses, level, milestone, mail>>

\* A mistake: the uses are read without a lock on the code.
RedeemInviteUnlocked(r, u) ==
    /\ uses < MAX_USES
    /\ <<"invite", u, None>> \notin op_keys
    /\ Begins(r, "invite", u, None, None, {<<"invite", u, None>>, <<"coin", u>>})

\* redeem_invite: the code's row is locked before its uses are read.
RedeemInvite(r, u) ==
    /\ uses < MAX_USES
    /\ <<"invite", u, None>> \notin op_keys
    /\ Begins(r, "invite", u, None, None, {<<"code">>, <<"invite", u, None>>, <<"coin", u>>})

CommitInvite(r) ==
    /\ TxIs(r, "invite")
    /\ Deposit(tx[r].user, "coin", 1, Key(r))
    /\ op_keys' = op_keys \cup {Key(r)}
    /\ uses' = uses + 1
    /\ TxEnds(r)
    /\ UNCHANGED <<stock, quest_row, counted, level, milestone, mail>>

\* claim_quest_reward: completed and not rewarded, under the lock of the row.
ClaimQuestReward(r, u, q) ==
    /\ quest_row[u][q] # None
    /\ quest_row[u][q].completed /\ ~quest_row[u][q].rewarded
    /\ <<"quest", u, q>> \notin op_keys
    /\ Begins(r, "quest", u, q, None, {<<"quest", u, q>>, <<"coin", u>>})

CommitQuestReward(r) ==
    /\ TxIs(r, "quest")
    /\ Deposit(tx[r].user, "coin", 1, Key(r))
    /\ op_keys' = op_keys \cup {Key(r)}
    /\ quest_row' = [quest_row EXCEPT ![tx[r].user][tx[r].arg].rewarded = TRUE]
    /\ TxEnds(r)
    /\ UNCHANGED <<stock, uses, counted, level, milestone, mail>>

\* trigger_quest_event, for an invite that has been created: no key stops a second.
TriggerQuestEvent(r, u) ==
    /\ \A q \in QuestsOf("InviteCreated") : counted[u][q] < MaxEvents
    /\ Begins(r, "event", u, None, "InviteCreated", {})

CommitQuestEvent(r) ==
    /\ TxIs(r, "event")
    /\ QuestEvent(r)
    /\ TxEnds(r)
    /\ UNCHANGED <<inventory, ledger, op_keys, stock, uses, level, milestone, mail>>

\* complete_level: the next level of the mode, under the lock of its row.
CompleteLevel(r, u, l) ==
    /\ <<"level", u, l>> \notin op_keys
    /\ l = level[u] + 1
    /\ Begins(r, "level", u, l, "LevelCompleted", {<<"level", u, l>>, <<"mode", u>>})

\* check_progressive_achievements_in_tx: the loop over the thresholds.
MilestoneAfter(u, l) ==
    CHOOSE n \in milestone[u]..(milestone[u] + l + 1) :
        /\ l < (MilestoneInit + n) * MilestoneGap
        /\ \A s \in milestone[u]..(n - 1) : l >= (MilestoneInit + s) * MilestoneGap

CommitLevel(r) ==
    LET u == tx[r].user
        n == MilestoneAfter(u, tx[r].arg)
    IN  /\ TxIs(r, "level")
        /\ op_keys' = op_keys \cup {Key(r)}
        /\ level' = [level EXCEPT ![u] = tx[r].arg]
        /\ milestone' = [milestone EXCEPT ![u] = n]
        /\ mail' = [mail EXCEPT ![u] = [i \in 1..MaxLevel |->
               IF i \in (milestone[u] + 1)..n THEN "unclaimed" ELSE @[i]]]
        /\ QuestEvent(r)
        /\ TxEnds(r)
        /\ UNCHANGED <<inventory, ledger, stock, uses>>

\* claim_inbox: not yet claimed, under the lock of the message.
ClaimInbox(r, u, i) ==
    /\ mail[u][i] = "unclaimed"
    /\ Begins(r, "inbox_claim", u, i, None, {<<"mail", u, i>>, <<"coin", u>>})

CommitInbox(r) ==
    /\ TxIs(r, "inbox_claim")
    /\ Deposit(tx[r].user, "coin", tx[r].arg, Key(r))
    /\ mail' = [mail EXCEPT ![tx[r].user][tx[r].arg] = "claimed"]
    /\ TxEnds(r)
    /\ UNCHANGED <<op_keys, stock, uses, quest_row, counted, level, milestone>>

\* A mistake: a message can be deleted with its reward.
DeleteInboxAny(r, u, i) ==
    /\ mail[u][i] \in {"unclaimed", "claimed"}
    /\ Begins(r, "delete", u, i, None, {})

\* delete_inbox: the message is read, without a transaction ..
DeleteInbox(r, u, i) ==
    /\ mail[u][i] = "claimed"
    /\ Begins(r, "delete", u, i, None, {})

\* .. and deleted, if it is still there; a claim in progress holds the row.
DeleteRuns(r) ==
    /\ TxIs(r, "delete")
    /\ <<"mail", tx[r].user, tx[r].arg>> \notin Locked
    /\ mail' = [mail EXCEPT ![tx[r].user][tx[r].arg] = "deleted"]
    /\ TxEnds(r)
    /\ UNCHANGED <<inventory, ledger, op_keys, stock, uses, quest_row, counted, level,
                   milestone>>

\* rollback, a failure or a crash: nothing is left of the transaction.
Rollback(r) ==
    /\ tx[r] # None
    /\ TxEnds(r)
    /\ UNCHANGED <<inventory, ledger, op_keys, stock, uses, quest_row, counted, level,
                   milestone, mail>>

Commits(r) ==
    \/ CommitPurchase(r)
    \/ CommitInvite(r)
    \/ CommitQuestReward(r)
    \/ CommitQuestEvent(r)
    \/ CommitLevel(r)
    \/ CommitInbox(r)
    \/ DeleteRuns(r)

RewardsNext ==
    \E r \in Request :
        \/ \E u \in UserId :
             \/ \E id \in OperationId : Purchase(r, u, id)
             \/ RedeemInvite(r, u)
             \/ \E q \in Quest : ClaimQuestReward(r, u, q)
             \/ TriggerQuestEvent(r, u)
             \/ \E l \in 1..MaxLevel : CompleteLevel(r, u, l)
             \/ \E i \in 1..MaxLevel : ClaimInbox(r, u, i) \/ DeleteInbox(r, u, i)
        \/ Commits(r)
        \/ Rollback(r)

RewardsSpec == RewardsInit /\ [][RewardsNext]_rewardVars

------------------------------------------------------------------------------

\* What a player has is what he began with and what the ledger says he was
\* given and paid, however purchases, claims and repetitions of them overlap:
\* each change of the inventory has its one entry (repository.rs:653-977,
\* inbox.rs:73-144), and nobody pays with coins he has not.
LedgerBalances ==
    \A u \in UserId, i \in Item :
        /\ inventory[u][i] = (IF i = "coin" THEN Coins ELSE 0)
               + MapThenSumSet(LAMBDA e : e.delta,
                                {e \in ledger : e.user = u /\ e.item = i})
        /\ inventory[u][i] >= 0

\* No more is sold than there was, no code is used more often than it may be,
\* and each sale and each use is one operation (repository.rs:684-704, 773-790).
LimitsHold ==
    /\ stock >= 0
    /\ STOCK - stock = Cardinality({k \in op_keys : k[1] = "purchase"})
    /\ uses <= MAX_USES
    /\ uses = Cardinality({k \in op_keys : k[1] = "invite"})

\* A story quest has counted every event since it could be begun, and none
\* before: of two first events at once one is refused, not lost.  A daily quest
\* may miss one (ON CONFLICT DO NOTHING), but counts none twice.
QuestsCountEvents ==
    \A u \in UserId, q \in Quest :
        LET row == quest_row[u][q]
            due == IF counted[u][q] < ConditionValue[q] THEN counted[u][q] ELSE ConditionValue[q]
        IN  IF row = None THEN counted[u][q] = 0
            ELSE /\ row.value <= due
                 /\ q \notin DailyQuest => row.value = due
                 /\ q \notin DailyQuest /\ Previous[q] # None =>
                      quest_row[u][Previous[q]] # None /\ quest_row[u][Previous[q]].completed

\* Each milestone up to the player's level has sent its reward, once, and no
\* other has; and a reward is only deleted after it has been paid out
\* (repository.rs:1288-1325, inbox.rs:158-180).
MilestonesAreMailed ==
    \A u \in UserId : \A i \in 1..MaxLevel :
        /\ mail[u][i] # "none" <=> level[u] >= (MilestoneInit + i - 1) * MilestoneGap
        /\ mail[u][i] \in {"claimed", "deleted"} <=>
             \E e \in ledger : e.key = <<"inbox_claim", u, i>>
===============================================================================
