----------------------------- MODULE MinigameTasks -----------------------------
(* Scores, sign-ins and task rewards of a minigame (api/minigame_tasks.rs,   *)
(* api/minigame_leaderboard.rs and the statements behind them): the rows of  *)
(* one player of one game, which meet those of nobody else.  A handler takes *)
(* the date once, reads, and writes what follows from it; other requests of  *)
(* the player, and midnight, come in between.                               *)
(* An operator described as a mistake is not the code: it takes the place of *)
(* the definition after it to show which property notices.                  *)
EXTENDS Requests, Integers, FiniteSets, Sequences, Functions

CONSTANTS
    Level,         \* the levels of the game
    Stars,         \* what a level can be finished with, after clamp(0, 3)
    RoundGap, RoundCap, \* "perfectionist": the stars of a round, and how many rounds
    MaxDay,        \* bound: the last day
    MaxPlays,      \* bound: the games played in a day
    MaxSignins     \* bound: sign-ins begin while fewer have been counted

ASSUME StarsAreNumbers == Stars \subseteq Nat
ASSUME LevelsAreFinite == IsFiniteSet(Level)
ASSUME RoundsAreNumbers == RoundGap \in Nat /\ RoundCap \in Nat
ASSUME BoundsAreNumbers == MaxDay \in Nat \ {0} /\ MaxPlays \in Nat /\ MaxSignins \in Nat

VARIABLES
    today,         \* the date of Utc::now()
    best,          \* minigame_level_score: best_stars of each level, or None
    plays,         \* minigame_daily_activity: the games of each day
    signin,        \* minigame_signin_stat: the row, or None
    claimed,       \* minigame_task_claim: <<task, day>>
    step,          \* minigame_task_achievement_progress: rounds counted
    paid,          \* the rounds whose rewards were answered, in order (history)
    task_call      \* what each future is doing

taskVars == <<today, best, plays, signin, claimed, step, paid, task_call>>

Day == 0..MaxDay
EPOCH == 0                           \* epoch(): the day of what is claimed once
DailyTask == {"daily_play_5", "daily_signin"}
SimpleTask == {"story_clear_1", "story_signin_1"} \cup DailyTask
Achievement == {"perfectionist", "signin_streak"}

SigninRow == [total : Nat, last_date : Day, streak : Nat]

ASSUME NoneIsNoSignin == None \notin SigninRow
ASSUME NoneIsNoStars == None \notin Stars

\* What a future holds: its date, what it has read, what it is about to write.
TaskCall ==
    [kind : {"score"}, pc : {"submit", "activity"}, level : Level, stars : Stars]
    \cup [kind : {"signin"}, pc : {"read"}, day : Day]
    \cup [kind : {"signin"}, pc : {"write"}, day : Day, streak : Nat, bump : {0, 1}]
    \cup [kind : {"claim"}, pc : {"read"}, day : Day, task : SimpleTask \cup Achievement]
    \cup [kind : {"claim"}, pc : {"record", "step"}, day : Day,
          task : SimpleTask \cup Achievement, value : Nat]
    \cup [kind : {"claim"}, pc : {"advance"}, day : Day, task : Achievement, step : Nat]

TasksTypeOK ==
    /\ today \in Day
    /\ best \in [Level -> Stars \cup {None}]
    /\ plays \in [Day -> Nat]
    /\ signin \in SigninRow \cup {None}
    /\ claimed \subseteq SimpleTask \X Day
    /\ step \in [Achievement -> Nat]
    /\ paid \in [Achievement -> Seq(Nat)]
    /\ task_call \in [Request -> TaskCall \cup {None}]

TasksInit ==
    /\ today = 1
    /\ best = [l \in Level |-> None]
    /\ plays = [d \in Day |-> 0]
    /\ signin = None
    /\ claimed = {}
    /\ step = [a \in Achievement |-> 0]
    /\ paid = [a \in Achievement |-> <<>>]
    /\ task_call = [r \in Request |-> None]

------------------------------------------------------------------------------

StarsOf(l) == IF best[l] = None THEN 0 ELSE best[l]

\* Ctx::value, by the metric of each task definition.
Value(task, day) ==
    CASE task = "story_clear_1"  -> Cardinality({l \in Level : StarsOf(l) >= 1})
      [] task = "perfectionist"  -> FoldFunction(+, 0, [l \in Level |-> StarsOf(l)])
      [] task = "daily_play_5"   -> plays[day]
      [] task = "story_signin_1" -> IF signin = None THEN 0 ELSE signin.total
      [] task = "signin_streak"  -> IF signin = None THEN 0 ELSE signin.streak
      [] task = "daily_signin"   ->
            IF signin # None /\ signin.last_date = day THEN 1 ELSE 0

\* SimpleDef::target, the games of "daily_play_5" by the bound on them.
Target(task) == IF task = "daily_play_5" THEN MaxPlays ELSE 1

\* AchDef::threshold of a round that counts from 0: (init + step) * gap.
Threshold(a, s) == IF a = "perfectionist" THEN (1 + s) * RoundGap ELSE 1 + s

\* AchDef::cap: "signin_streak" goes on without end.
Capped(a, s) == a = "perfectionist" /\ s >= RoundCap

Ends(r) == task_call' = [task_call EXCEPT ![r] = None]
Holds(r, kind, pc) ==
    task_call[r] # None /\ task_call[r].kind = kind /\ task_call[r].pc = pc

------------------------------------------------------------------------------

CallStarts(r, call) ==
    /\ task_call[r] = None
    /\ task_call' = [task_call EXCEPT ![r] = call]
    /\ UNCHANGED <<today, best, plays, signin, claimed, step, paid>>

SubmitScore(r, l, stars) ==
    CallStarts(r, [kind |-> "score", pc |-> "submit", level |-> l, stars |-> stars])

ReportSignin(r) ==
    /\ signin # None => signin.total < MaxSignins
    /\ CallStarts(r, [kind |-> "signin", pc |-> "read", day |-> today])

ClaimTask(r, task) ==
    CallStarts(r, [kind |-> "claim", pc |-> "read", day |-> today, task |-> task])

\* A mistake: the last result of a level replaces the best.
UpsertLast(r) ==
    LET call == task_call[r]
    IN  /\ Holds(r, "score", "submit")
        /\ best' = [best EXCEPT ![call.level] = call.stars]
        /\ task_call' = [task_call EXCEPT ![r].pc = "activity"]
        /\ UNCHANGED <<today, plays, signin, claimed, step, paid>>

\* submit_score: GREATEST of what is there and what comes, or an error, with which
\* the request ends, before or after the row was written.
UpsertBest(r) ==
    LET call == task_call[r]
    IN  /\ Holds(r, "score", "submit")
        /\ \/ /\ best' = [best EXCEPT ![call.level] =
                     IF @ # None /\ @ > call.stars THEN @ ELSE call.stars]
              /\ task_call' = [task_call EXCEPT ![r].pc = "activity"] \/ Ends(r)
           \/ Ends(r) /\ UNCHANGED best
        /\ UNCHANGED <<today, plays, signin, claimed, step, paid>>

\* bump_daily, on the day it is by now; that it fails is not noticed.
BumpDaily(r) ==
    /\ Holds(r, "score", "activity")
    /\ \/ plays[today] < MaxPlays /\ plays' = [plays EXCEPT ![today] = @ + 1]
       \/ UNCHANGED plays
    /\ Ends(r)
    /\ UNCHANGED <<today, best, signin, claimed, step, paid>>

\* report_signin: the new streak, and whether the day counts, from the row as
\* it is read; a read that fails is taken for a first sign-in.
SigninRead(r) ==
    LET day == task_call[r].day
        Writes(streak, bump) == task_call' = [task_call EXCEPT ![r] =
            [kind |-> "signin", pc |-> "write", day |-> day, streak |-> streak, bump |-> bump]]
    IN  /\ Holds(r, "signin", "read")
        /\ \/ signin # None /\ signin.last_date = day
              /\ Writes(IF signin.streak > 1 THEN signin.streak ELSE 1, 0)
           \/ signin # None /\ signin.last_date = day - 1 /\ Writes(signin.streak + 1, 1)
           \/ Writes(1, 1)
        /\ UNCHANGED <<today, best, plays, signin, claimed, step, paid>>

\* A mistake: the total is set from the streak's row, as the streak is.
SigninWriteSets(r) ==
    LET call == task_call[r]
    IN  /\ Holds(r, "signin", "write")
        /\ signin' = [total |-> call.bump, last_date |-> call.day, streak |-> call.streak]
        /\ Ends(r)
        /\ UNCHANGED <<today, best, plays, claimed, step, paid>>

\* The upsert: total is counted where it is, last_date and streak are replaced.
SigninWrite(r) ==
    LET call  == task_call[r]
        total == IF signin = None THEN 0 ELSE signin.total
    IN  /\ Holds(r, "signin", "write")
        /\ \/ signin' = [total |-> total + call.bump, last_date |-> call.day,
                         streak |-> call.streak]
           \/ UNCHANGED signin
        /\ Ends(r)
        /\ UNCHANGED <<today, best, plays, claimed, step, paid>>

\* claim_task: load_ctx, where a query that fails counts as 0, and whether a
\* simple task is completed.
LoadCtx(r) ==
    LET call  == task_call[r]
        value == Value(call.task, call.day)
        Goes(pc) == task_call' = [task_call EXCEPT ![r] =
            [kind |-> "claim", pc |-> pc, day |-> call.day, task |-> call.task, value |-> value]]
    IN  /\ Holds(r, "claim", "read")
        /\ \/ call.task \in SimpleTask /\ value >= Target(call.task) /\ Goes("record")
           \/ call.task \in Achievement /\ Goes("step")
           \/ Ends(r)
        /\ UNCHANGED <<today, best, plays, signin, claimed, step, paid>>

\* record_claim: ON CONFLICT DO NOTHING, for the day or for good, or an error.
RecordClaim(r) ==
    LET call == task_call[r]
        day  == IF call.task \in DailyTask THEN call.day ELSE EPOCH
    IN  /\ Holds(r, "claim", "record")
        /\ claimed' \in {claimed, claimed \cup {<<call.task, day>>}}
        /\ Ends(r)
        /\ UNCHANGED <<today, best, plays, signin, step, paid>>

\* get_step, 0 if it fails, and whether the round is completed.
GetStep(r) ==
    LET call == task_call[r]
    IN  /\ Holds(r, "claim", "step")
        /\ \E s \in {step[call.task], 0} :
             IF Capped(call.task, s) \/ call.value < Threshold(call.task, s) THEN Ends(r)
             ELSE task_call' = [task_call EXCEPT ![r] =
                    [kind |-> "claim", pc |-> "advance", day |-> call.day,
                     task |-> call.task, step |-> s]]
        /\ UNCHANGED <<today, best, plays, signin, claimed, step, paid>>

\* A mistake: the round is not compared with the one that was read.
AdvanceStepAnyway(r) ==
    LET call == task_call[r]
    IN  /\ Holds(r, "claim", "advance")
        /\ step' = [step EXCEPT ![call.task] = @ + 1]
        /\ paid' = [paid EXCEPT ![call.task] = Append(@, call.step)]
        /\ Ends(r)
        /\ UNCHANGED <<today, best, plays, signin, claimed>>

\* advance_step: the row is inserted, or counted up if it is where it was read,
\* and the rewards of the round that was read are answered.  An error is false, as
\* is a row that is elsewhere: if it comes after the row was written, the round
\* is over and nobody is rewarded for it.
AdvanceStep(r) ==
    LET call == task_call[r]
    IN  /\ Holds(r, "claim", "advance")
        /\ \/ /\ step[call.task] \in {0, call.step}
              /\ step' = [step EXCEPT ![call.task] = @ + 1]
              /\ \/ paid' = [paid EXCEPT ![call.task] = Append(@, call.step)]
                 \/ UNCHANGED paid
           \/ UNCHANGED <<step, paid>>
        /\ Ends(r)
        /\ UNCHANGED <<today, best, plays, signin, claimed>>

\* Midnight (UTC).
NextDay ==
    /\ today < MaxDay
    /\ today' = today + 1
    /\ UNCHANGED <<best, plays, signin, claimed, step, paid, task_call>>

TasksNext ==
    \/ \E r \in Request :
         \/ \E l \in Level, stars \in Stars : SubmitScore(r, l, stars)
         \/ ReportSignin(r)
         \/ \E task \in SimpleTask \cup Achievement : ClaimTask(r, task)
         \/ UpsertBest(r)
         \/ BumpDaily(r)
         \/ SigninRead(r)
         \/ SigninWrite(r)
         \/ LoadCtx(r)
         \/ RecordClaim(r)
         \/ GetStep(r)
         \/ AdvanceStep(r)
    \/ NextDay

TasksSpec == TasksInit /\ [][TasksNext]_taskVars

------------------------------------------------------------------------------

\* Nobody has signed in for more days in a row than days at all, in whatever
\* order the reads and the writes of his sign-ins come, on whichever side of
\* midnight, and whether or not they fail (minigame_tasks.rs:103-145).
StreakWithinTotal == signin # None => signin.streak <= signin.total

\* The rounds of an achievement are rewarded one after the other, each at most
\* once and only when it has been counted, however many claims of it are under way
\* (minigame_tasks.rs:208-234: the condition on step is all there is against it).
\* That each is rewarded is not so: the answer to a claim can be lost.
RoundsInOrder ==
    \A a \in Achievement : \A i \in DOMAIN paid[a] :
        /\ paid[a][i] < step[a]
        /\ \A j \in 1..(i - 1) : paid[a][j] < paid[a][i]

\* What has been rewarded was reached: the stars of the last round are there,
\* the streak of the last round is not longer than the days signed in, and
\* what was claimed for a day was done on that day.
RewardsWereEarned ==
    /\ step["perfectionist"] <= RoundCap
    /\ step["perfectionist"] > 0 =>
         Value("perfectionist", today) >= Threshold("perfectionist", step["perfectionist"] - 1)
    /\ step["signin_streak"] <= Value("story_signin_1", today)
    /\ \A d \in Day : <<"daily_play_5", d>> \in claimed => plays[d] >= MaxPlays
    /\ <<"story_clear_1", EPOCH>> \in claimed => Value("story_clear_1", today) >= 1
===============================================================================
