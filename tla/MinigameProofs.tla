----------------------------- MODULE MinigameProofs -----------------------------
(* Sign-in streaks and rounds of achievements, and the configurations clients  *)
(* are served, for any number of requests, days, levels, versions, clients and *)
(* administrators.                                                             *)
EXTENDS MinigameTasks, MinigameConfig, FiniteSetTheorems, SequenceTheorems,
        WellFoundedInduction, TLAPS

-------------------------------------------------------------------------------
(* Tasks.                                                                    *)

ScoreCall == [kind : {"score"}, pc : {"submit", "activity"}, level : Level, stars : Stars]

TotalOf(row) == IF row = None THEN 0 ELSE row.total

\* The row of a player who has signed in has counted a day for each of its streak.
SigninIsSound ==
    signin # None => /\ signin \in SigninRow
                     /\ 1 <= signin.streak /\ signin.streak <= signin.total

\* Rounds that are below n, each below those after it.
RoundsBelow(n, rounds) ==
    \A i \in DOMAIN rounds : rounds[i] < n /\ \A j \in 1..(i - 1) : rounds[j] < rounds[i]

RoundsAreSound ==
    /\ step \in [Achievement -> Nat]
    /\ paid \in [Achievement -> Seq(Nat)]
    /\ \A a \in Achievement : RoundsBelow(step[a], paid[a])

\* What a call is about to write was true when it was read, and has at most
\* become too little since.
CallIsSound(call) ==
    /\ call.kind = "score" => call \in ScoreCall
    /\ call.kind = "signin" => call.day \in Day
    /\ call.kind = "signin" /\ call.pc = "write" =>
         /\ call.streak \in Nat /\ call.bump \in {0, 1}
         /\ 1 <= call.streak /\ call.streak <= TotalOf(signin) + call.bump
    /\ call.kind = "claim" /\ call.pc = "step" => call.task \in Achievement
    /\ call.kind = "claim" /\ call.pc = "advance" =>
         call.task \in Achievement /\ call.step \in Nat /\ call.step <= step[call.task]

CallsAreSound ==
    /\ today \in Day
    /\ task_call = [r \in Request |-> task_call[r]]
    /\ \A r \in Request : task_call[r] # None => CallIsSound(task_call[r])

TasksInv == SigninIsSound /\ RoundsAreSound /\ CallsAreSound

\* Neither the total nor a round is ever taken back.
CountsUp ==
    /\ TotalOf(signin') \in Nat /\ TotalOf(signin') >= TotalOf(signin)
    /\ \A a \in Achievement : step'[a] \in Nat /\ step'[a] >= step[a]

-------------------------------------------------------------------------------

LEMMA TotalIsNumber == ASSUME TasksInv PROVE TotalOf(signin) \in Nat
  BY DEF TasksInv, SigninIsSound, SigninRow, TotalOf

\* A round more, at the end, if it is rewarded.
LEMMA RoundAppended ==
    ASSUME NEW n \in Nat, NEW rounds \in Seq(Nat), RoundsBelow(n, rounds)
    PROVE  /\ Append(rounds, n) \in Seq(Nat)
           /\ RoundsBelow(n + 1, Append(rounds, n))
           /\ RoundsBelow(n + 1, rounds)
<1> DEFINE more == Append(rounds, n)
           l == Len(rounds)
<1>1. l \in Nat /\ DOMAIN rounds = 1..l /\ \A i \in 1..l : rounds[i] \in Nat
  BY LenProperties, ElementOfSeq
<1>2. /\ more \in Seq(Nat) /\ Len(more) = l + 1
      /\ \A i \in 1..l : more[i] = rounds[i]
      /\ more[l + 1] = n
  BY AppendProperties
<1>3. DOMAIN more = 1..(l + 1)
  BY <1>2, LenProperties
<1> HIDE DEF more, l
<1>4. ASSUME NEW i \in 1..(l + 1), NEW j \in 1..(i - 1)
      PROVE  more[j] < more[i]
  <2>1. j \in 1..l
    BY <1>1, <1>4
  <2>2. CASE i \in 1..l
    BY <1>1, <1>2, <1>4, <2>1, <2>2 DEF RoundsBelow
  <2>3. CASE i = l + 1
    BY <1>1, <1>2, <2>1, <2>3 DEF RoundsBelow
  <2>4. QED
    BY <1>1, <2>2, <2>3
<1>5. ASSUME NEW i \in 1..(l + 1)
      PROVE  more[i] < n + 1
  <2>1. CASE i \in 1..l
    <3>1. rounds[i] < n
      BY <1>1, <2>1 DEF RoundsBelow
    <3>2. rounds[i] \in Nat /\ more[i] = rounds[i]
      BY <1>1, <1>2, <2>1
    <3>3. QED
      BY <3>1, <3>2
  <2>2. CASE i = l + 1
    BY <1>2, <2>2
  <2>3. QED
    BY <1>1, <2>1, <2>2
<1>6. RoundsBelow(n + 1, more)
  BY <1>3, <1>4, <1>5 DEF RoundsBelow
<1>7. RoundsBelow(n + 1, rounds)
  BY <1>1 DEF RoundsBelow
<1>8. QED
  BY <1>2, <1>6, <1>7 DEF more

\* A call begins, goes on as another or ends, and nothing is taken back: the
\* calls are still sound.
LEMMA CallsStaySound ==
    ASSUME TasksInv, CountsUp, today' \in Day, NEW r \in Request, NEW c,
           task_call' = [task_call EXCEPT ![r] = c], c # None => CallIsSound(c)'
    PROVE  CallsAreSound'
<1>1. /\ task_call' = [q \in Request |-> IF q = r THEN c ELSE task_call[q]]
      /\ DOMAIN task_call = Request
  BY DEF TasksInv, CallsAreSound
<1>2. ASSUME NEW q \in Request, q # r, task_call[q] # None
      PROVE  CallIsSound(task_call[q])
  BY <1>1, <1>2 DEF TasksInv, CallsAreSound
<1>3. ASSUME NEW call, CallIsSound(call)
      PROVE  CallIsSound(call)'
  <2>1. call.kind = "signin" /\ call.pc = "write" => call.streak <= TotalOf(signin') + call.bump
    BY <1>3, TotalIsNumber DEF CallIsSound, CountsUp
  <2>2. call.kind = "claim" /\ call.pc = "advance" => call.step <= step'[call.task]
    BY <1>3 DEF CallIsSound, CountsUp, TasksInv, RoundsAreSound
  <2>3. QED
    BY <1>3, <2>1, <2>2 DEF CallIsSound, TotalOf
<1>4. ASSUME NEW q \in Request, task_call'[q] # None
      PROVE  CallIsSound(task_call[q])'
  <2>1. CASE q = r
    BY <1>1, <1>4, <2>1 DEF CallIsSound
  <2>2. CASE q # r
    <3>1. PICK call : call = task_call[q]
      OBVIOUS
    <3>2. CallIsSound(call)'
      BY <1>1, <1>2, <1>3, <1>4, <2>2, <3>1
    <3>3. QED
      BY <1>1, <2>2, <3>1, <3>2 DEF CallIsSound
  <2>3. QED
    BY <2>1, <2>2
<1>5. QED
  BY <1>1, <1>4 DEF CallsAreSound

\* Steps that change neither the sign-ins nor the rounds.
LEMMA CallOnlyKeepsTasks ==
    ASSUME TasksInv, UNCHANGED <<signin, step, paid>>, today' \in Day,
           NEW r \in Request, NEW c, task_call' = [task_call EXCEPT ![r] = c],
           c # None => CallIsSound(c)
    PROVE  TasksInv'
<1>1. CountsUp
  BY TotalIsNumber DEF CountsUp, TasksInv, RoundsAreSound
<1>2. c # None => CallIsSound(c)'
  BY DEF CallIsSound
<1>3. CallsAreSound'
  BY <1>1, <1>2, CallsStaySound
<1>4. QED
  BY <1>3 DEF TasksInv, SigninIsSound, RoundsAreSound

\* A request arrives.
LEMMA StartKeepsTasks ==
    ASSUME TasksInv, NEW r \in Request, NEW call, CallIsSound(call), CallStarts(r, call)
    PROVE  TasksInv'
<1>1. UNCHANGED <<signin, step, paid>> /\ today' \in Day
      /\ task_call' = [task_call EXCEPT ![r] = call]
  BY DEF CallStarts, TasksInv, CallsAreSound
<1>2. QED
  BY <1>1, CallOnlyKeepsTasks

\* Statements that leave the sign-ins and the rounds alone, but for a new sign-in's reading.
LEMMA StatementKeepsTasks ==
    ASSUME TasksInv, NEW r \in Request,
           UpsertBest(r) \/ BumpDaily(r) \/ LoadCtx(r) \/ RecordClaim(r) \/ GetStep(r)
    PROVE  TasksInv'
<1> DEFINE call == task_call[r]
<1>1. UNCHANGED <<signin, step, paid>> /\ today' \in Day /\ CallIsSound(call)
  BY DEF UpsertBest, BumpDaily, LoadCtx, RecordClaim, GetStep, Holds, TasksInv, CallsAreSound
<1>2. PICK c : task_call' = [task_call EXCEPT ![r] = c] /\ (c # None => CallIsSound(c))
  <2>1. CASE task_call' = [task_call EXCEPT ![r] = None]
    BY <2>1
  <2>2. CASE UpsertBest(r) /\ ~Ends(r)
    <3>1. task_call' = [task_call EXCEPT ![r] = [call EXCEPT !.pc = "activity"]]
      BY <2>2 DEF UpsertBest, TasksInv, CallsAreSound
    <3>2. [call EXCEPT !.pc = "activity"] \in ScoreCall
      BY <1>1, <2>2 DEF UpsertBest, Holds, CallIsSound, ScoreCall
    <3>3. CallIsSound([call EXCEPT !.pc = "activity"])
      BY <3>2 DEF CallIsSound, ScoreCall
    <3>4. QED
      BY <3>1, <3>3
  <2>3. CASE LoadCtx(r) /\ ~Ends(r)
    <3>1. ASSUME NEW pc \in {"record", "step"}, NEW day, NEW value, NEW task,
                 pc = "step" => task \in Achievement
          PROVE  CallIsSound([kind |-> "claim", pc |-> pc, day |-> day, task |-> task,
                              value |-> value])
      BY <3>1 DEF CallIsSound
    <3>2. QED
      BY <2>3, <3>1 DEF LoadCtx
  <2>4. CASE GetStep(r) /\ ~Ends(r)
    <3>1. call.task \in Achievement
      BY <1>1, <2>4 DEF GetStep, Holds, CallIsSound
    <3>2. PICK s \in {step[call.task], 0} :
             task_call' = [task_call EXCEPT ![r] =
                 [kind |-> "claim", pc |-> "advance", day |-> call.day, task |-> call.task,
                  step |-> s]]
      BY <2>4 DEF GetStep
    <3>3. s \in Nat /\ s <= step[call.task]
      BY <3>1 DEF TasksInv, RoundsAreSound
    <3>4. CallIsSound([kind |-> "claim", pc |-> "advance", day |-> call.day,
                       task |-> call.task, step |-> s])
      BY <3>1, <3>3 DEF CallIsSound
    <3>5. QED
      BY <3>2, <3>4
  <2>5. QED
    BY <2>1, <2>2, <2>3, <2>4 DEF Ends, UpsertBest, BumpDaily, LoadCtx, RecordClaim, GetStep
<1>3. QED
  BY <1>1, <1>2, CallOnlyKeepsTasks

\* report_signin reads: the streak it is going to write fits the total it is
\* going to leave.
LEMMA SigninReadKeepsTasks ==
    ASSUME TasksInv, NEW r \in Request, SigninRead(r)
    PROVE  TasksInv'
<1> DEFINE day == task_call[r].day
           write(streak, bump) == [kind |-> "signin", pc |-> "write", day |-> day,
                                   streak |-> streak, bump |-> bump]
<1>1. UNCHANGED <<signin, step, paid>> /\ today' \in Day /\ day \in Day
  BY DEF SigninRead, Holds, TasksInv, CallsAreSound, CallIsSound
<1>2. ASSUME NEW streak \in Nat, NEW bump \in {0, 1}, 1 <= streak,
             streak <= TotalOf(signin) + bump
      PROVE  CallIsSound(write(streak, bump))
  BY <1>1, <1>2 DEF CallIsSound
<1>3. PICK c : task_call' = [task_call EXCEPT ![r] = c] /\ (c # None => CallIsSound(c))
  <2>1. CASE signin # None /\ task_call' = [task_call EXCEPT ![r] =
                write(IF signin.streak > 1 THEN signin.streak ELSE 1, 0)]
    <3> DEFINE streak == IF signin.streak > 1 THEN signin.streak ELSE 1
    <3>1. streak \in Nat /\ 1 <= streak /\ streak <= TotalOf(signin) + 0
      BY <2>1 DEF TasksInv, SigninIsSound, SigninRow, TotalOf
    <3>2. CallIsSound(write(streak, 0))
      BY <1>2, <3>1
    <3>3. QED
      BY <2>1, <3>2
  <2>2. CASE signin # None
             /\ task_call' = [task_call EXCEPT ![r] = write(signin.streak + 1, 1)]
    <3>1. /\ signin.streak + 1 \in Nat /\ 1 <= signin.streak + 1
          /\ signin.streak + 1 <= TotalOf(signin) + 1
      BY <2>2 DEF TasksInv, SigninIsSound, SigninRow, TotalOf
    <3>2. CallIsSound(write(signin.streak + 1, 1))
      BY <1>2, <3>1
    <3>3. QED
      BY <2>2, <3>2
  <2>3. CASE task_call' = [task_call EXCEPT ![r] = write(1, 1)]
    <3>1. 1 <= TotalOf(signin) + 1
      BY TotalIsNumber
    <3>2. CallIsSound(write(1, 1))
      <4>1. 1 \in Nat /\ 1 \in {0, 1} /\ 1 <= 1
        OBVIOUS
      <4>2. QED
        BY <1>2, <3>1, <4>1
    <3>3. QED
      BY <2>3, <3>2
  <2>4. QED
    BY <2>1, <2>2, <2>3 DEF SigninRead
<1>4. QED
  BY <1>1, <1>3, CallOnlyKeepsTasks

\* The upsert counts the total where it is, and it is not less than when it was read.
LEMMA SigninWriteKeepsTasks ==
    ASSUME TasksInv, NEW r \in Request, SigninWrite(r)
    PROVE  TasksInv' /\ CountsUp
<1> DEFINE call == task_call[r]
<1>1. /\ CallIsSound(call) /\ call.kind = "signin" /\ call.pc = "write"
      /\ task_call' = [task_call EXCEPT ![r] = None]
      /\ UNCHANGED <<today, step, paid>>
  BY DEF SigninWrite, Ends, Holds, TasksInv, CallsAreSound
<1>2. /\ call.day \in Day /\ call.streak \in Nat /\ call.bump \in {0, 1}
      /\ 1 <= call.streak /\ call.streak <= TotalOf(signin) + call.bump
  BY <1>1 DEF CallIsSound
<1>3. SigninIsSound' /\ TotalOf(signin') \in Nat /\ TotalOf(signin') >= TotalOf(signin)
  <2>1. CASE signin' = signin
    BY <2>1, TotalIsNumber DEF TasksInv, SigninIsSound
  <2>2. CASE signin' # signin
    <3>1. signin' = [total |-> TotalOf(signin) + call.bump, last_date |-> call.day,
                     streak |-> call.streak]
      BY <2>2 DEF SigninWrite, TotalOf
    <3>2. signin' \in SigninRow
      BY <1>2, <3>1, TotalIsNumber DEF SigninRow
    <3>3. signin' # None
      BY <3>2, NoneIsNoSignin
    <3>4. signin'.total = TotalOf(signin) + call.bump /\ signin'.streak = call.streak
      BY <3>1
    <3>5. TotalOf(signin') = TotalOf(signin) + call.bump
      BY <3>3, <3>4 DEF TotalOf
    <3>6. QED
      BY <1>2, <3>2, <3>4, <3>5, TotalIsNumber DEF SigninIsSound
  <2>3. QED
    BY <2>1, <2>2
<1>4. CountsUp /\ today' \in Day
  BY <1>1, <1>3 DEF CountsUp, TasksInv, RoundsAreSound, CallsAreSound
<1>5. CallsAreSound'
  BY <1>1, <1>4, CallsStaySound
<1>6. QED
  BY <1>1, <1>3, <1>4, <1>5 DEF TasksInv, RoundsAreSound

\* The round that is counted is the round that was read: advance_step compares them.
LEMMA AdvanceKeepsTasks ==
    ASSUME TasksInv, NEW r \in Request, AdvanceStep(r)
    PROVE  TasksInv'
<1> DEFINE call == task_call[r]
           a == call.task
<1>1. /\ CallIsSound(call) /\ call.kind = "claim" /\ call.pc = "advance"
      /\ task_call' = [task_call EXCEPT ![r] = None]
      /\ UNCHANGED <<today, signin>>
  BY DEF AdvanceStep, Ends, Holds, TasksInv, CallsAreSound
<1>2. a \in Achievement /\ call.step \in Nat /\ call.step <= step[a] /\ step[a] \in Nat
  BY <1>1 DEF CallIsSound, TasksInv, RoundsAreSound
<1>3. RoundsAreSound' /\ \A b \in Achievement : step'[b] \in Nat /\ step'[b] >= step[b]
  <2>1. CASE UNCHANGED <<step, paid>>
    BY <2>1 DEF TasksInv, RoundsAreSound
  <2>2. CASE ~UNCHANGED <<step, paid>>
    <3>1. /\ step[a] \in {0, call.step}
          /\ step' = [step EXCEPT ![a] = step[a] + 1]
          /\ \/ paid' = [paid EXCEPT ![a] = Append(paid[a], call.step)]
             \/ paid' = paid
      BY <2>2 DEF AdvanceStep
    <3>2. step[a] = call.step
      BY <1>2, <3>1
    <3>3. /\ Append(paid[a], step[a]) \in Seq(Nat)
          /\ RoundsBelow(step[a] + 1, Append(paid[a], step[a]))
          /\ RoundsBelow(step[a] + 1, paid[a])
      BY <1>2, RoundAppended DEF TasksInv, RoundsAreSound
    <3>4. step' \in [Achievement -> Nat] /\ paid' \in [Achievement -> Seq(Nat)]
      <4>1. step \in [Achievement -> Nat] /\ paid \in [Achievement -> Seq(Nat)]
        BY DEF TasksInv, RoundsAreSound
      <4>2. step' \in [Achievement -> Nat]
        BY <1>2, <3>1, <4>1
      <4>3. CASE paid' = [paid EXCEPT ![a] = Append(paid[a], call.step)]
        <5> DEFINE more == Append(paid[a], call.step)
        <5>1. more \in Seq(Nat) /\ paid' = [paid EXCEPT ![a] = more]
          BY <3>2, <3>3, <4>3
        <5> HIDE DEF more
        <5>2. QED
          BY <4>1, <4>2, <5>1
      <4>4. CASE paid' = paid
        BY <4>1, <4>2, <4>4
      <4>5. QED
        BY <3>1, <4>3, <4>4
    <3>5. ASSUME NEW b \in Achievement
          PROVE  /\ RoundsBelow(step'[b], paid'[b])
                 /\ step'[b] \in Nat /\ step'[b] >= step[b]
      <4>1. CASE b = a
        <5>1. /\ step'[b] = step[a] + 1
              /\ paid'[b] = Append(paid[a], step[a]) \/ paid'[b] = paid[a]
          BY <1>2, <3>1, <3>2, <4>1 DEF TasksInv, RoundsAreSound
        <5>2. RoundsBelow(step'[b], paid'[b])
          BY <3>3, <5>1
        <5>3. step'[b] \in Nat /\ step'[b] >= step[b]
          BY <1>2, <4>1, <5>1
        <5>4. QED
          BY <5>2, <5>3
      <4>2. CASE b # a
        BY <3>1, <4>2 DEF TasksInv, RoundsAreSound
      <4>3. QED
        BY <4>1, <4>2
    <3>6. QED
      BY <3>4, <3>5 DEF RoundsAreSound, RoundsBelow
  <2>3. QED
    BY <2>1, <2>2
<1>4. CountsUp /\ today' \in Day
  BY <1>1, <1>3, TotalIsNumber DEF CountsUp, TasksInv, CallsAreSound
<1>5. CallsAreSound'
  BY <1>1, <1>4, CallsStaySound
<1>6. QED
  BY <1>1, <1>3, <1>5 DEF TasksInv, SigninIsSound

-------------------------------------------------------------------------------

\* The inductive invariant: what is counted and what calls are about to write.
THEOREM TasksInvariant == TasksSpec => []TasksInv
<1>1. TasksInit => TasksInv
  <2> SUFFICES ASSUME TasksInit
               PROVE  TasksInv
    OBVIOUS
  <2>1. SigninIsSound /\ RoundsAreSound
    BY DEF TasksInit, SigninIsSound, RoundsAreSound, RoundsBelow
  <2>2. today \in Day
    BY BoundsAreNumbers DEF TasksInit, Day
  <2>3. CallsAreSound
    BY <2>2 DEF TasksInit, CallsAreSound
  <2>4. QED
    BY <2>1, <2>3 DEF TasksInv
<1>2. TasksInv /\ [TasksNext]_taskVars => TasksInv'
  <2> SUFFICES ASSUME TasksInv, [TasksNext]_taskVars
               PROVE  TasksInv'
    OBVIOUS
  <2>1. CASE UNCHANGED taskVars
    BY <2>1 DEF taskVars, TasksInv, SigninIsSound, RoundsAreSound, CallsAreSound, CallIsSound,
                TotalOf
  <2>2. ASSUME NEW r \in Request, NEW l \in Level, NEW stars \in Stars, SubmitScore(r, l, stars)
        PROVE  TasksInv'
    <3> DEFINE call == [kind |-> "score", pc |-> "submit", level |-> l, stars |-> stars]
    <3>1. CallIsSound(call)
      BY DEF CallIsSound, ScoreCall
    <3>2. QED
      BY <2>2, <3>1, StartKeepsTasks DEF SubmitScore
  <2>3. ASSUME NEW r \in Request, ReportSignin(r)
        PROVE  TasksInv'
    <3> DEFINE call == [kind |-> "signin", pc |-> "read", day |-> today]
    <3>1. CallIsSound(call)
      BY DEF CallIsSound, TasksInv, CallsAreSound
    <3>2. QED
      BY <2>3, <3>1, StartKeepsTasks DEF ReportSignin
  <2>4. ASSUME NEW r \in Request, NEW task \in SimpleTask \cup Achievement, ClaimTask(r, task)
        PROVE  TasksInv'
    <3> DEFINE call == [kind |-> "claim", pc |-> "read", day |-> today, task |-> task]
    <3>1. CallIsSound(call)
      BY DEF CallIsSound
    <3>2. QED
      BY <2>4, <3>1, StartKeepsTasks DEF ClaimTask
  <2>5. CASE \E r \in Request : UpsertBest(r) \/ BumpDaily(r) \/ LoadCtx(r) \/ RecordClaim(r)
                               \/ GetStep(r)
    BY <2>5, StatementKeepsTasks
  <2>6. CASE \E r \in Request : SigninRead(r)
    BY <2>6, SigninReadKeepsTasks
  <2>7. CASE \E r \in Request : SigninWrite(r)
    BY <2>7, SigninWriteKeepsTasks
  <2>8. CASE \E r \in Request : AdvanceStep(r)
    BY <2>8, AdvanceKeepsTasks
  <2>9. CASE NextDay
    <3>1. today' \in Day /\ UNCHANGED <<signin, step, paid, task_call>>
      BY <2>9, BoundsAreNumbers DEF NextDay, Day, TasksInv, CallsAreSound
    <3>2. QED
      BY <3>1 DEF TasksInv, SigninIsSound, RoundsAreSound, CallsAreSound, CallIsSound, TotalOf
  <2>10. QED
    BY <2>1, <2>2, <2>3, <2>4, <2>5, <2>6, <2>7, <2>8, <2>9 DEF TasksNext
<1>3. QED
  BY <1>1, <1>2, PTL DEF TasksSpec

\* Nobody has signed in for more days in a row than days at all, although the
\* streak is written from what was read and the total is counted where it is.
THEOREM StreaksAreWithinTotal == TasksSpec => []StreakWithinTotal
<1>1. TasksInv => StreakWithinTotal
  BY DEF TasksInv, SigninIsSound, StreakWithinTotal
<1>2. QED
  BY <1>1, TasksInvariant, PTL

\* Rounds are rewarded one after the other, each at most once, for any number of
\* claims of an achievement at a time, also when answers are lost.
THEOREM RoundsAreInOrder == TasksSpec => []RoundsInOrder
<1>1. TasksInv => RoundsInOrder
  BY DEF TasksInv, RoundsAreSound, RoundsBelow, RoundsInOrder
<1>2. QED
  BY <1>1, TasksInvariant, PTL

-------------------------------------------------------------------------------
(* The stars of a player.  Their sum is a fold, which takes one level out      *)
(* after the other: a level with more stars never makes it less.  The          *)
(* induction is over the sets of levels.                                       *)

\* Induction over the subsets of a finite set, for a set G of those that are good.
LEMMA SubsetInduction ==
    ASSUME NEW U, IsFiniteSet(U), NEW G,
           \A s \in SUBSET U : (\A t \in SUBSET s : t # s => t \in G) => s \in G
    PROVE  \A s \in SUBSET U : s \in G
<1> DEFINE Bad == {s \in SUBSET U : s \notin G}
<1>1. SUFFICES ASSUME Bad # {} PROVE FALSE
  OBVIOUS
<1>2. /\ Bad \subseteq FiniteSubsetsOf(U)
      /\ IsWellFoundedOn(StrictSubsetOrdering(U), FiniteSubsetsOf(U))
  BY FS_FiniteSubsetsOfFinite, FS_StrictSubsetOrderingWellFounded
<1> HIDE DEF Bad
<1>3. PICK s \in Bad : \A t \in Bad : ~(<<t, s>> \in StrictSubsetOrdering(U))
  BY <1>1, <1>2, WFMin
<1>4. \A t \in SUBSET s : t # s => t \in G
  BY <1>3 DEF StrictSubsetOrdering, Bad
<1>5. QED
  BY <1>3, <1>4 DEF Bad

Any(s) == CHOOSE x \in s : TRUE
Total(w, S) == FoldFunctionOnSet(+, 0, w, S)
TotalAt(w, g, s) == IF s = {} THEN 0 ELSE w[Any(s)] + g[s \ {Any(s)}]
IsTotal(w, g, S) == g = [s \in SUBSET S |-> TotalAt(w, g, s)]
HasTotal(w, S) == IsTotal(w, CHOOSE g : IsTotal(w, g, S), S)

LEMMA TotalIsFold == \A w, S : Total(w, S) = (CHOOSE g : IsTotal(w, g, S))[S]
  BY DEF Total, FoldFunctionOnSet, MapThenFoldSet, IsTotal, TotalAt, Any

LEMMA AnyIsIn == \A s : s # {} => Any(s) \in s
  BY DEF Any

\* Two folds agree where both are defined.
LEMMA TotalsAgree ==
    ASSUME NEW U, IsFiniteSet(U), NEW S, NEW T, U \subseteq S, U \subseteq T, NEW w,
           NEW g, NEW h, IsTotal(w, g, S), IsTotal(w, h, T)
    PROVE  g[U] = h[U]
<1> DEFINE G == {s \in SUBSET U : g[s] = h[s]}
<1>1. ASSUME NEW s \in SUBSET U, \A t \in SUBSET s : t # s => t \in G
      PROVE  s \in G
  <2>1. g[s] = TotalAt(w, g, s) /\ h[s] = TotalAt(w, h, s)
    <3>1. s \in SUBSET S /\ s \in SUBSET T
      OBVIOUS
    <3>2. QED
      BY <3>1 DEF IsTotal
  <2>2. CASE s = {}
    BY <2>1, <2>2 DEF TotalAt
  <2>3. CASE s # {}
    <3>1. s \ {Any(s)} \in SUBSET s /\ s \ {Any(s)} # s
      BY <2>3, AnyIsIn
    <3>2. g[s \ {Any(s)}] = h[s \ {Any(s)}]
      BY <1>1, <3>1
    <3>3. QED
      BY <2>1, <3>2 DEF TotalAt
  <2>4. QED
    BY <2>2, <2>3
<1> HIDE DEF G
<1>2. \A s \in SUBSET U : s \in G
  BY <1>1, SubsetInduction
<1>3. QED
  BY <1>2, U \in SUBSET U DEF G

\* The total is the fold, and it is defined.
LEMMA EveryFiniteSetHasTotal ==
    ASSUME NEW U, IsFiniteSet(U), NEW w
    PROVE  HasTotal(w, U)
<1> DEFINE G == {s \in SUBSET U : HasTotal(w, s)}
<1>1. ASSUME NEW s \in SUBSET U, \A t \in SUBSET s : t # s => t \in G
      PROVE  s \in G
  <2> DEFINE g == [t \in SUBSET s |-> IF t = {} THEN 0 ELSE w[Any(t)] + Total(w, t \ {Any(t)})]
  <2>1. ASSUME NEW t \in SUBSET s, t # {}
        PROVE  g[t \ {Any(t)}] = Total(w, t \ {Any(t)})
    <3> DEFINE r == t \ {Any(t)}
    <3>1. Any(t) \in t /\ r \in SUBSET s /\ r # s /\ r \in SUBSET U
      BY <2>1, AnyIsIn
    <3>2. HasTotal(w, r)
      BY <1>1, <3>1
    <3>3. Total(w, r) = TotalAt(w, CHOOSE f : IsTotal(w, f, r), r)
      BY <3>2, TotalIsFold DEF HasTotal, IsTotal
    <3>4. CASE r = {}
      BY <3>1, <3>3, <3>4 DEF TotalAt
    <3>5. CASE r # {}
      <4> DEFINE q == r \ {Any(r)}
      <4>1. Any(r) \in r /\ q \in SUBSET s /\ q # s /\ q \in SUBSET r /\ q \in SUBSET U
        BY <3>1, <3>5, AnyIsIn
      <4>2. HasTotal(w, q) /\ IsFiniteSet(q)
        BY <1>1, <4>1, FS_Subset
      <4>3. (CHOOSE f : IsTotal(w, f, r))[q] = (CHOOSE f : IsTotal(w, f, q))[q]
        BY <3>2, <4>1, <4>2, TotalsAgree DEF HasTotal
      <4>4. Total(w, r) = w[Any(r)] + Total(w, q)
        BY <3>3, <3>5, <4>3, TotalIsFold DEF TotalAt
      <4>5. g[r] = w[Any(r)] + Total(w, q)
        BY <3>1, <3>5
      <4>6. QED
        BY <4>4, <4>5
    <3>6. QED
      BY <3>4, <3>5
  <2>2. \A t \in SUBSET s : g[t] = TotalAt(w, g, t)
    BY <2>1 DEF TotalAt
  <2>3. g = [t \in SUBSET s |-> TotalAt(w, g, t)]
    BY <2>2
  <2> HIDE DEF g
  <2>4. IsTotal(w, g, s)
    BY <2>3 DEF IsTotal
  <2>5. HasTotal(w, s)
    BY <2>4 DEF HasTotal
  <2>6. QED
    BY <2>5
<1> HIDE DEF G
<1>2. \A s \in SUBSET U : s \in G
  BY <1>1, SubsetInduction
<1>3. QED
  BY <1>2, U \in SUBSET U DEF G

LEMMA TotalUnfolds ==
    ASSUME NEW S, IsFiniteSet(S), NEW w
    PROVE  Total(w, S) = IF S = {} THEN 0 ELSE w[Any(S)] + Total(w, S \ {Any(S)})
<1> DEFINE g == CHOOSE f : IsTotal(w, f, S)
<1>1. IsTotal(w, g, S)
  BY EveryFiniteSetHasTotal DEF HasTotal
<1> HIDE DEF g
<1>2. Total(w, S) = TotalAt(w, g, S)
  <2>1. Total(w, S) = g[S]
    BY TotalIsFold DEF g
  <2>2. QED
    BY <1>1, <2>1 DEF IsTotal
<1>3. CASE S # {}
  <2> DEFINE r == S \ {Any(S)}
             h == CHOOSE f : IsTotal(w, f, r)
  <2>1. r \in SUBSET S /\ IsFiniteSet(r)
    BY FS_Subset
  <2>2. IsTotal(w, h, r)
    BY <2>1, EveryFiniteSetHasTotal DEF HasTotal
  <2> HIDE DEF r, h
  <2>3. g[r] = h[r]
    BY <1>1, <2>1, <2>2, TotalsAgree
  <2>4. Total(w, r) = h[r]
    BY TotalIsFold DEF h
  <2>5. QED
    BY <1>2, <1>3, <2>3, <2>4 DEF TotalAt, r
<1>4. QED
  BY <1>2, <1>3 DEF TotalAt

\* A total of numbers is one, and if none gets less it does not.
LEMMA TotalGrows ==
    ASSUME NEW U, IsFiniteSet(U), NEW w, NEW v,
           \A x \in U : w[x] \in Nat /\ v[x] \in Nat /\ w[x] <= v[x]
    PROVE  Total(w, U) \in Nat /\ Total(v, U) \in Nat /\ Total(w, U) <= Total(v, U)
<1> DEFINE G == {s \in SUBSET U : /\ Total(w, s) \in Nat /\ Total(v, s) \in Nat
                                  /\ Total(w, s) <= Total(v, s)}
<1>1. ASSUME NEW s \in SUBSET U, \A t \in SUBSET s : t # s => t \in G
      PROVE  s \in G
  <2> DEFINE r == s \ {Any(s)}
  <2>1. /\ Total(w, s) = IF s = {} THEN 0 ELSE w[Any(s)] + Total(w, r)
        /\ Total(v, s) = IF s = {} THEN 0 ELSE v[Any(s)] + Total(v, r)
    BY FS_Subset, TotalUnfolds
  <2>2. CASE s = {}
    BY <2>1, <2>2
  <2>3. CASE s # {}
    <3>1. Any(s) \in s /\ r \in SUBSET s /\ r # s
      BY <2>3, AnyIsIn
    <3>2. r \in G
      BY <1>1, <3>1
    <3>3. PICK x \in U : x = Any(s)
      BY <3>1
    <3>4. Total(w, s) = w[x] + Total(w, r) /\ Total(v, s) = v[x] + Total(v, r)
      BY <2>1, <2>3, <3>3
    <3>5. /\ Total(w, s) \in Nat /\ Total(v, s) \in Nat
          /\ Total(w, s) <= Total(v, s)
      BY <3>2, <3>4
    <3>6. QED
      BY <3>5
  <2>4. QED
    BY <2>2, <2>3
<1> HIDE DEF G
<1>2. \A s \in SUBSET U : s \in G
  BY <1>1, SubsetInduction
<1>3. QED
  BY <1>2, U \in SUBSET U DEF G

-------------------------------------------------------------------------------
(* What has been rewarded was reached.                                        *)

StarsNow == [l \in Level |-> StarsOf(l)]
TotalStars == Total(StarsNow, Level)
Cleared == {l \in Level : StarsOf(l) >= 1}

RoundsEarned ==
    /\ step["perfectionist"] <= RoundCap
    /\ step["perfectionist"] > 0 =>
         TotalStars >= Threshold("perfectionist", step["perfectionist"] - 1)
    /\ step["signin_streak"] <= TotalOf(signin)

ClaimsEarned ==
    /\ \A d \in Day : <<"daily_play_5", d>> \in claimed => plays[d] >= MaxPlays
    /\ <<"story_clear_1", EPOCH>> \in claimed => Cardinality(Cleared) >= 1

\* What a claim has found reached is still reached.
CallIsEarned(call) ==
    call.kind = "claim" =>
        /\ call.pc = "read" => call.day \in Day
        /\ call.pc = "record" =>
             /\ call.task = "daily_play_5" => call.day \in Day /\ plays[call.day] >= MaxPlays
             /\ call.task = "story_clear_1" => Cardinality(Cleared) >= 1
        /\ call.pc = "step" =>
             /\ call.value \in Nat
             /\ call.task = "perfectionist" => call.value <= TotalStars
             /\ call.task = "signin_streak" => call.value <= TotalOf(signin)
        /\ call.pc = "advance" =>
             /\ call.task = "perfectionist" =>
                  call.step < RoundCap /\ TotalStars >= Threshold("perfectionist", call.step)
             /\ call.task = "signin_streak" => call.step + 1 <= TotalOf(signin)

EarnedInv ==
    /\ best \in [Level -> Stars \cup {None}] /\ plays \in [Day -> Nat]
    /\ RoundsEarned /\ ClaimsEarned
    /\ \A r \in Request : task_call[r] # None => CallIsEarned(task_call[r])

\* Nothing that tasks look at is taken back.
Grows ==
    /\ best' \in [Level -> Stars \cup {None}] /\ plays' \in [Day -> Nat]
    /\ \A l \in Level : StarsOf(l)' >= StarsOf(l)
    /\ \A d \in Day : plays'[d] >= plays[d]
    /\ TotalOf(signin') \in Nat /\ TotalOf(signin') >= TotalOf(signin)

LEMMA StarsAreCounted ==
    ASSUME best \in [Level -> Stars \cup {None}], NEW l \in Level
    PROVE  StarsOf(l) \in Nat
  BY StarsAreNumbers DEF StarsOf

LEMMA ValuesAre ==
    ASSUME TasksInv, EarnedInv, NEW d \in Day
    PROVE  /\ Value("perfectionist", d) = TotalStars /\ TotalStars \in Nat
           /\ Value("story_clear_1", d) = Cardinality(Cleared)
           /\ Value("daily_play_5", d) = plays[d]
           /\ Value("story_signin_1", d) = TotalOf(signin)
           /\ Value("signin_streak", d) \in Nat /\ Value("signin_streak", d) <= TotalOf(signin)
<1>1. Value("perfectionist", d) = TotalStars
  <2>1. FoldFunction(+, 0, StarsNow) = TotalStars
    BY DEF FoldFunction, TotalStars, Total, StarsNow
  <2>2. Value("perfectionist", d) = FoldFunction(+, 0, [l \in Level |-> StarsOf(l)])
    BY DEF Value
  <2>3. QED
    BY <2>1, <2>2 DEF StarsNow
<1>2. TotalStars \in Nat
  <2>1. \A l \in Level : StarsNow[l] \in Nat /\ StarsNow[l] <= StarsNow[l]
    BY StarsAreCounted DEF StarsNow, EarnedInv
  <2>2. QED
    BY <2>1, LevelsAreFinite, TotalGrows DEF TotalStars
<1>3. /\ Value("story_clear_1", d) = Cardinality(Cleared)
      /\ Value("daily_play_5", d) = plays[d]
      /\ Value("story_signin_1", d) = TotalOf(signin)
  BY DEF Value, Cleared, TotalOf
<1>4. Value("signin_streak", d) = IF signin = None THEN 0 ELSE signin.streak
  BY DEF Value
<1>5. Value("signin_streak", d) \in Nat /\ Value("signin_streak", d) <= TotalOf(signin)
  BY <1>4 DEF TasksInv, SigninIsSound, SigninRow, TotalOf
<1>6. QED
  BY <1>1, <1>2, <1>3, <1>5

LEMMA GrowsMeans ==
    ASSUME EarnedInv, Grows
    PROVE  /\ TotalStars \in Nat /\ TotalStars' \in Nat /\ TotalStars' >= TotalStars
           /\ Cardinality(Cleared) >= 1 => Cardinality(Cleared') >= 1
<1>1. \A l \in Level : /\ StarsNow[l] \in Nat /\ StarsNow'[l] \in Nat
                       /\ StarsNow[l] <= StarsNow'[l]
  <2> TAKE l \in Level
  <2>1. StarsOf(l) \in Nat
    BY StarsAreCounted DEF EarnedInv
  <2>2. StarsOf(l)' \in Nat
    BY StarsAreNumbers DEF Grows, StarsOf
  <2>3. QED
    BY <2>1, <2>2 DEF Grows, StarsNow
<1>2. TotalStars \in Nat /\ TotalStars' \in Nat /\ TotalStars' >= TotalStars
  <2>1. PICK w, v : w = StarsNow /\ v = StarsNow'
    OBVIOUS
  <2>2. Total(w, Level) \in Nat /\ Total(v, Level) \in Nat /\ Total(w, Level) <= Total(v, Level)
    BY <1>1, <2>1, LevelsAreFinite, TotalGrows
  <2>3. TotalStars = Total(w, Level)
    BY <2>1 DEF TotalStars
  <2>4. TotalStars' = Total(v, Level)
    <3>1. TotalStars' = Total(StarsNow', Level)
      BY DEF TotalStars, Total, FoldFunctionOnSet, MapThenFoldSet
    <3>2. QED
      BY <2>1, <3>1
  <2>5. QED
    BY <2>2, <2>3, <2>4
<1>3. Cleared \subseteq Cleared' /\ IsFiniteSet(Cleared')
  <2>1. Cleared \subseteq Cleared'
    BY <1>1 DEF Cleared, StarsNow
  <2>2. Cleared' \subseteq Level
    BY DEF Cleared
  <2>3. QED
    BY <2>1, <2>2, LevelsAreFinite, FS_Subset
<1>4. Cardinality(Cleared) <= Cardinality(Cleared') /\ Cardinality(Cleared) \in Nat
      /\ Cardinality(Cleared') \in Nat
  BY <1>3, FS_Subset, FS_CardinalityType
<1>5. QED
  BY <1>2, <1>4

\* As nothing is taken back, what was reached stays reached.
LEMMA EarnedStays ==
    ASSUME TasksInv, EarnedInv, Grows
    PROVE  /\ UNCHANGED step => RoundsEarned'
           /\ claimed' = claimed => ClaimsEarned'
           /\ \A call : (call.kind = "claim" /\ call.pc = "advance" => call.step \in Nat)
                            /\ CallIsEarned(call) => CallIsEarned(call)'
<1>1. /\ TotalStars \in Nat /\ TotalStars' \in Nat /\ TotalStars' >= TotalStars
      /\ Cardinality(Cleared) >= 1 => Cardinality(Cleared') >= 1
  BY GrowsMeans
<1>2. /\ TotalOf(signin) \in Nat /\ TotalOf(signin') \in Nat /\ TotalOf(signin') >= TotalOf(signin)
      /\ \A a \in Achievement : step[a] \in Nat
  BY TotalIsNumber DEF Grows, TasksInv, RoundsAreSound
<1>3. \A n \in Nat : Threshold("perfectionist", n) \in Nat
  BY RoundsAreNumbers DEF Threshold
<1>4. \A d \in Day : plays[d] >= MaxPlays => plays'[d] >= MaxPlays
  BY BoundsAreNumbers DEF Grows, EarnedInv
<1>5. UNCHANGED step => RoundsEarned'
  <2> SUFFICES ASSUME step' = step PROVE RoundsEarned'
    OBVIOUS
  <2>1. step["perfectionist"] \in Nat /\ step["signin_streak"] \in Nat
    BY <1>2 DEF Achievement
  <2>2. step["perfectionist"] > 0 => step["perfectionist"] - 1 \in Nat
    BY <2>1
  <2>3. QED
    BY <1>1, <1>2, <1>3, <2>1, <2>2 DEF EarnedInv, RoundsEarned, Threshold
<1>6. claimed' = claimed => ClaimsEarned'
  BY <1>1, <1>4 DEF EarnedInv, ClaimsEarned
<1>7. ASSUME NEW call, call.kind = "claim" /\ call.pc = "advance" => call.step \in Nat,
             CallIsEarned(call)
      PROVE  CallIsEarned(call)'
  <2> SUFFICES ASSUME call.kind = "claim" PROVE CallIsEarned(call)'
    BY DEF CallIsEarned
  <2>1. CASE call.pc = "record"
    BY <1>1, <1>4, <1>7, <2>1 DEF CallIsEarned
  <2>2. CASE call.pc = "step"
    BY <1>1, <1>2, <1>7, <2>2 DEF CallIsEarned
  <2>3. CASE call.pc = "advance"
    <3>1. Threshold("perfectionist", call.step) \in Nat /\ call.step \in Nat
      BY <1>3, <1>7, <2>3
    <3>2. QED
      BY <1>1, <1>2, <1>7, <2>3, <3>1 DEF CallIsEarned, Threshold
  <2>4. CASE call.pc \notin {"record", "step", "advance"}
    BY <1>7, <2>4 DEF CallIsEarned
  <2>5. QED
    BY <2>1, <2>2, <2>3, <2>4
<1>8. QED
  BY <1>5, <1>6, <1>7

LEMMA EarnedGoesOn ==
    ASSUME TasksInv, EarnedInv, Grows, RoundsEarned', ClaimsEarned',
           NEW r \in Request, NEW c, task_call' = [task_call EXCEPT ![r] = c],
           c # None => CallIsEarned(c)'
    PROVE  EarnedInv'
<1>1. ASSUME NEW q \in Request, task_call'[q] # None
      PROVE  CallIsEarned(task_call[q])'
  <2>1. CASE q = r
    <3>1. task_call'[q] = c
      BY <2>1 DEF TasksInv, CallsAreSound
    <3>2. QED
      BY <1>1, <3>1 DEF CallIsEarned
  <2>2. CASE q # r
    <3>1. task_call'[q] = task_call[q]
      BY <2>2 DEF TasksInv, CallsAreSound
    <3>2. PICK call : call = task_call[q]
      OBVIOUS
    <3>3. CallIsEarned(call) /\ CallIsSound(call)
      BY <1>1, <3>1, <3>2 DEF EarnedInv, TasksInv, CallsAreSound
    <3>4. CallIsEarned(call)'
      BY <3>3, EarnedStays DEF CallIsSound
    <3>5. QED
      BY <3>1, <3>2, <3>4 DEF CallIsEarned
  <2>3. QED
    BY <2>1, <2>2
<1>2. QED
  BY <1>1 DEF EarnedInv, Grows

\* A step that changes none of what tasks look at, nor what is rewarded.
LEMMA EarnedIdles ==
    ASSUME TasksInv, EarnedInv, UNCHANGED <<best, plays, signin, claimed, step>>,
           NEW r \in Request, NEW c, task_call' = [task_call EXCEPT ![r] = c],
           c # None => CallIsEarned(c)
    PROVE  EarnedInv'
<1>1. \A l \in Level : StarsOf(l)' = StarsOf(l) /\ StarsOf(l) \in Nat
  BY StarsAreCounted DEF StarsOf, EarnedInv
<1>2. Grows
  BY <1>1, TotalIsNumber DEF Grows, EarnedInv
<1>3. RoundsEarned' /\ ClaimsEarned'
  BY <1>2, EarnedStays
<1>4. c # None => CallIsEarned(c)'
  BY DEF CallIsEarned, TotalStars, StarsNow, StarsOf, Cleared
<1>5. QED
  BY <1>2, <1>3, <1>4, EarnedGoesOn

\* What a future that is under way is known to hold.
LEMMA CallKnown ==
    ASSUME TasksInv, EarnedInv, NEW r \in Request, task_call[r] # None
    PROVE  CallIsSound(task_call[r]) /\ CallIsEarned(task_call[r])
  BY DEF TasksInv, CallsAreSound, EarnedInv

\* A request arrives.
LEMMA StartKeepsEarned ==
    ASSUME TasksInv, EarnedInv, NEW r \in Request, NEW call, CallIsEarned(call),
           CallStarts(r, call)
    PROVE  EarnedInv'
<1>1. UNCHANGED <<best, plays, signin, claimed, step>>
      /\ task_call' = [task_call EXCEPT ![r] = call]
  BY DEF CallStarts
<1>2. QED
  BY <1>1, EarnedIdles

LEMMA SigninReadKeepsEarned ==
    ASSUME TasksInv, EarnedInv, NEW r \in Request, SigninRead(r)
    PROVE  EarnedInv'
<1> DEFINE day == task_call[r].day
           write(streak, bump) == [kind |-> "signin", pc |-> "write", day |-> day,
                                   streak |-> streak, bump |-> bump]
<1>1. UNCHANGED <<best, plays, signin, claimed, step>>
  BY DEF SigninRead
<1>2. \A streak, bump : CallIsEarned(write(streak, bump))
  BY DEF CallIsEarned
<1>3. \E streak, bump : task_call' = [task_call EXCEPT ![r] = write(streak, bump)]
  <2>1. \/ task_call' = [task_call EXCEPT ![r] =
              write(IF signin.streak > 1 THEN signin.streak ELSE 1, 0)]
        \/ task_call' = [task_call EXCEPT ![r] = write(signin.streak + 1, 1)]
        \/ task_call' = [task_call EXCEPT ![r] = write(1, 1)]
    BY DEF SigninRead
  <2> HIDE DEF write
  <2>2. QED
    BY <2>1
<1>4. PICK c : task_call' = [task_call EXCEPT ![r] = c] /\ CallIsEarned(c)
  BY <1>2, <1>3
<1>5. QED
  BY <1>1, <1>4, EarnedIdles

\* load_ctx: a simple task goes on if it has been reached, and an achievement
\* with a value that has been.
LEMMA LoadCtxKeepsEarned ==
    ASSUME TasksInv, EarnedInv, NEW r \in Request, LoadCtx(r)
    PROVE  EarnedInv'
<1> DEFINE call == task_call[r]
           value == Value(call.task, call.day)
           goes(pc) == [kind |-> "claim", pc |-> pc, day |-> call.day, task |-> call.task,
                        value |-> value]
<1>1. /\ UNCHANGED <<best, plays, signin, claimed, step>>
      /\ call # None /\ call.kind = "claim" /\ call.pc = "read"
  BY DEF LoadCtx, Holds
<1>2. call.day \in Day
  BY <1>1, CallKnown DEF CallIsEarned
<1>3. /\ Value("perfectionist", call.day) = TotalStars /\ TotalStars \in Nat
      /\ Value("story_clear_1", call.day) = Cardinality(Cleared)
      /\ Value("daily_play_5", call.day) = plays[call.day]
      /\ Value("signin_streak", call.day) \in Nat
      /\ Value("signin_streak", call.day) <= TotalOf(signin)
  BY <1>2, ValuesAre
<1>4. CASE call.task \in SimpleTask /\ value >= Target(call.task)
           /\ task_call' = [task_call EXCEPT ![r] = goes("record")]
  <2>1. call.task = "daily_play_5" => plays[call.day] >= MaxPlays
    BY <1>3, <1>4 DEF Target
  <2>2. call.task = "story_clear_1" => Cardinality(Cleared) >= 1
    BY <1>3, <1>4 DEF Target
  <2>3. CallIsEarned(goes("record"))
    <3> HIDE DEF value
    <3>1. QED
      BY <1>2, <2>1, <2>2 DEF CallIsEarned
  <2>4. PICK c : c = goes("record")
    OBVIOUS
  <2>5. task_call' = [task_call EXCEPT ![r] = c] /\ CallIsEarned(c)
    BY <1>4, <2>3, <2>4
  <2>6. QED
    BY <1>1, <2>5, EarnedIdles
<1>5. CASE call.task \in Achievement /\ task_call' = [task_call EXCEPT ![r] = goes("step")]
  <2>1. call.task = "perfectionist" \/ call.task = "signin_streak"
    BY <1>5 DEF Achievement
  <2>2. /\ value \in Nat
        /\ call.task = "perfectionist" => value <= TotalStars
        /\ call.task = "signin_streak" => value <= TotalOf(signin)
    BY <1>3, <2>1
  <2>3. CallIsEarned(goes("step"))
    <3> HIDE DEF value
    <3>1. QED
      BY <2>2 DEF CallIsEarned
  <2>4. PICK c : c = goes("step")
    OBVIOUS
  <2>5. task_call' = [task_call EXCEPT ![r] = c] /\ CallIsEarned(c)
    BY <1>5, <2>3, <2>4
  <2>6. QED
    BY <1>1, <2>5, EarnedIdles
<1>6. CASE task_call' = [task_call EXCEPT ![r] = None]
  BY <1>1, <1>6, EarnedIdles
<1>7. QED
  BY <1>4, <1>5, <1>6 DEF LoadCtx, Ends

\* get_step: the round that goes on to be rewarded has been reached.
LEMMA GetStepKeepsEarned ==
    ASSUME TasksInv, EarnedInv, NEW r \in Request, GetStep(r)
    PROVE  EarnedInv'
<1> DEFINE call == task_call[r]
           goes(s) == [kind |-> "claim", pc |-> "advance", day |-> call.day,
                       task |-> call.task, step |-> s]
<1>1. /\ UNCHANGED <<best, plays, signin, claimed, step>>
      /\ call # None /\ call.kind = "claim" /\ call.pc = "step"
  BY DEF GetStep, Holds
<1>2. call.task \in Achievement
  BY <1>1, CallKnown DEF CallIsSound
<1>3. /\ call.value \in Nat
      /\ call.task = "perfectionist" => call.value <= TotalStars
      /\ call.task = "signin_streak" => call.value <= TotalOf(signin)
  BY <1>1, CallKnown DEF CallIsEarned
<1>4. TotalStars \in Nat /\ TotalOf(signin) \in Nat /\ step[call.task] \in Nat
  <2>1. 1 \in Day
    BY BoundsAreNumbers DEF Day
  <2>2. QED
    BY <1>2, <2>1, ValuesAre, TotalIsNumber DEF TasksInv, RoundsAreSound
<1>5. CASE task_call' = [task_call EXCEPT ![r] = None]
  BY <1>1, <1>5, EarnedIdles
<1>6. ASSUME NEW s \in {step[call.task], 0}, ~Capped(call.task, s),
             ~(call.value < Threshold(call.task, s)),
             task_call' = [task_call EXCEPT ![r] = goes(s)]
      PROVE  EarnedInv'
  <2>1. s \in Nat
    BY <1>4, <1>6
  <2>2. ASSUME call.task = "perfectionist"
        PROVE  s < RoundCap /\ TotalStars >= Threshold("perfectionist", s)
    <3>1. s < RoundCap
      BY <1>6, <2>1, <2>2, RoundsAreNumbers DEF Capped
    <3>2. PICK n \in Nat : n = (1 + s) * RoundGap
      BY <2>1, RoundsAreNumbers
    <3>3. Threshold("perfectionist", s) = n
      BY <3>2 DEF Threshold
    <3>4. QED
      BY <1>3, <1>4, <1>6, <2>2, <3>1, <3>3
  <2>3. ASSUME call.task = "signin_streak"
        PROVE  s + 1 <= TotalOf(signin)
    <3>1. Threshold("signin_streak", s) = 1 + s
      BY DEF Threshold
    <3>2. QED
      BY <1>3, <1>4, <1>6, <2>1, <2>3, <3>1
  <2>4. CallIsEarned(goes(s))
    BY <2>2, <2>3 DEF CallIsEarned
  <2>5. PICK c : c = goes(s)
    OBVIOUS
  <2>6. task_call' = [task_call EXCEPT ![r] = c] /\ CallIsEarned(c)
    BY <1>6, <2>4, <2>5
  <2>7. QED
    BY <1>1, <2>6, EarnedIdles
<1>7. QED
  BY <1>5, <1>6 DEF GetStep, Ends

\* GREATEST keeps the better result.
LEMMA UpsertKeepsEarned ==
    ASSUME TasksInv, EarnedInv, NEW r \in Request, UpsertBest(r)
    PROVE  EarnedInv'
<1> DEFINE call == task_call[r]
<1>1. /\ UNCHANGED <<plays, signin, claimed, step>>
      /\ call # None /\ call.kind = "score" /\ call.pc = "submit"
  BY DEF UpsertBest, Holds
<1>2. call \in ScoreCall
  BY <1>1, CallKnown DEF CallIsSound
<1>3. call.level \in Level /\ call.stars \in Stars /\ call.stars \in Nat
  BY <1>2, StarsAreNumbers DEF ScoreCall
<1>4. CASE best' = best /\ task_call' = [task_call EXCEPT ![r] = None]
  BY <1>1, <1>4, EarnedIdles
<1>5. CASE /\ best' = [best EXCEPT ![call.level] =
                IF best[call.level] # None /\ best[call.level] > call.stars
                THEN best[call.level] ELSE call.stars]
           /\ \/ task_call' = [task_call EXCEPT ![r].pc = "activity"]
              \/ task_call' = [task_call EXCEPT ![r] = None]
  <2>1. best \in [Level -> Stars \cup {None}] /\ plays \in [Day -> Nat]
    BY DEF EarnedInv
  <2>2. best' \in [Level -> Stars \cup {None}]
    BY <1>3, <1>5, <2>1
  <2>3. ASSUME NEW l \in Level
        PROVE  StarsOf(l)' >= StarsOf(l)
    <3>1. CASE l = call.level
      <4>1. best'[l] = IF best[l] # None /\ best[l] > call.stars THEN best[l] ELSE call.stars
        BY <1>5, <2>1, <3>1
      <4>2. best[l] = None \/ best[l] \in Nat
        BY <2>1, StarsAreNumbers
      <4>3. call.stars # None
        BY <1>3, NoneIsNoStars
      <4>4. QED
        BY <1>3, <4>1, <4>2, <4>3 DEF StarsOf
    <3>2. CASE l # call.level
      <4>1. best'[l] = best[l]
        BY <1>5, <2>1, <3>2
      <4>2. StarsOf(l)' = StarsOf(l) /\ StarsOf(l) \in Nat
        BY <2>1, <4>1, StarsAreCounted DEF StarsOf
      <4>3. QED
        BY <4>2
    <3>3. QED
      BY <3>1, <3>2
  <2>4. Grows
    BY <1>1, <2>1, <2>2, <2>3, TotalIsNumber DEF Grows
  <2>5. RoundsEarned' /\ ClaimsEarned'
    BY <1>1, <2>4, EarnedStays
  <2>6. PICK c : task_call' = [task_call EXCEPT ![r] = c] /\ (c # None => c.kind = "score")
    <3>1. [call EXCEPT !.pc = "activity"].kind = "score"
      BY <1>2 DEF ScoreCall
    <3>2. task_call' = [task_call EXCEPT ![r].pc = "activity"] =>
            task_call' = [task_call EXCEPT ![r] = [call EXCEPT !.pc = "activity"]]
      BY DEF TasksInv, CallsAreSound
    <3>3. QED
      BY <1>5, <3>1, <3>2
  <2>7. c # None => CallIsEarned(c)'
    BY <2>6 DEF CallIsEarned
  <2>8. QED
    BY <2>4, <2>5, <2>6, <2>7, EarnedGoesOn
<1>6. QED
  BY <1>4, <1>5 DEF UpsertBest, Ends

\* A game more on the day it is.
LEMMA BumpKeepsEarned ==
    ASSUME TasksInv, EarnedInv, NEW r \in Request, BumpDaily(r)
    PROVE  EarnedInv'
<1>1. /\ UNCHANGED <<best, signin, claimed, step>> /\ today \in Day
      /\ task_call' = [task_call EXCEPT ![r] = None]
  BY DEF BumpDaily, Ends, TasksInv, CallsAreSound
<1>2. CASE plays' = plays
  BY <1>1, <1>2, EarnedIdles
<1>3. CASE plays' = [plays EXCEPT ![today] = plays[today] + 1]
  <2>1. best \in [Level -> Stars \cup {None}] /\ plays \in [Day -> Nat]
    BY DEF EarnedInv
  <2>2. plays' \in [Day -> Nat] /\ \A d \in Day : plays'[d] >= plays[d]
    BY <1>1, <1>3, <2>1
  <2>3. \A l \in Level : StarsOf(l)' >= StarsOf(l)
    BY <1>1, <2>1, StarsAreCounted DEF StarsOf
  <2>4. Grows
    BY <1>1, <2>1, <2>2, <2>3, TotalIsNumber DEF Grows
  <2>5. RoundsEarned' /\ ClaimsEarned'
    BY <1>1, <2>4, EarnedStays
  <2>6. QED
    BY <1>1, <2>4, <2>5, EarnedGoesOn
<1>4. QED
  BY <1>2, <1>3 DEF BumpDaily

LEMMA SigninWriteKeepsEarned ==
    ASSUME TasksInv, EarnedInv, NEW r \in Request, SigninWrite(r)
    PROVE  EarnedInv'
<1>1. UNCHANGED <<best, plays, claimed, step>> /\ task_call' = [task_call EXCEPT ![r] = None]
  BY DEF SigninWrite, Ends
<1>2. best \in [Level -> Stars \cup {None}] /\ plays \in [Day -> Nat]
  BY DEF EarnedInv
<1>3. \A l \in Level : StarsOf(l)' >= StarsOf(l)
  BY <1>1, <1>2, StarsAreCounted DEF StarsOf
<1>4. CountsUp
  BY SigninWriteKeepsTasks
<1>5. Grows
  BY <1>1, <1>2, <1>3, <1>4 DEF Grows, CountsUp
<1>6. RoundsEarned' /\ ClaimsEarned'
  BY <1>1, <1>5, EarnedStays
<1>7. QED
  BY <1>1, <1>5, <1>6, EarnedGoesOn

\* Nothing but what is rewarded changes.
LEMMA MetricsStay ==
    ASSUME TasksInv, EarnedInv, UNCHANGED <<best, plays, signin>>
    PROVE  /\ Grows /\ TotalStars' = TotalStars /\ Cleared' = Cleared
           /\ \A call : CallIsEarned(call)' <=> CallIsEarned(call)
<1>1. best \in [Level -> Stars \cup {None}] /\ plays \in [Day -> Nat]
  BY DEF EarnedInv
<1>2. \A l \in Level : StarsOf(l)' = StarsOf(l) /\ StarsOf(l) \in Nat
  BY <1>1, StarsAreCounted DEF StarsOf
<1>3. Grows
  BY <1>1, <1>2, TotalIsNumber DEF Grows
<1>4. TotalStars' = TotalStars /\ Cleared' = Cleared
  BY DEF TotalStars, StarsNow, StarsOf, Cleared
<1>5. \A call : CallIsEarned(call)' <=> CallIsEarned(call)
  BY <1>4 DEF CallIsEarned
<1>6. QED
  BY <1>3, <1>4, <1>5

\* record_claim records what was reached when it was read.
LEMMA RecordKeepsEarned ==
    ASSUME TasksInv, EarnedInv, NEW r \in Request, RecordClaim(r)
    PROVE  EarnedInv'
<1> DEFINE call == task_call[r]
           day == IF call.task \in DailyTask THEN call.day ELSE EPOCH
<1>1. /\ UNCHANGED <<best, plays, signin, step>> /\ task_call' = [task_call EXCEPT ![r] = None]
      /\ call # None /\ call.kind = "claim" /\ call.pc = "record"
      /\ claimed' \in {claimed, claimed \cup {<<call.task, day>>}}
  BY DEF RecordClaim, Ends, Holds
<1>2. /\ call.task = "daily_play_5" => call.day \in Day /\ plays[call.day] >= MaxPlays
      /\ call.task = "story_clear_1" => Cardinality(Cleared) >= 1
  BY <1>1, CallKnown DEF CallIsEarned
<1>3. Grows /\ Cleared' = Cleared
  BY <1>1, MetricsStay
<1>4. RoundsEarned'
  BY <1>1, <1>3, EarnedStays
<1>5. ClaimsEarned'
  <2>1. ASSUME NEW d \in Day, <<"daily_play_5", d>> \in claimed'
        PROVE  plays[d] >= MaxPlays
    <3>1. CASE <<"daily_play_5", d>> \in claimed
      BY <3>1 DEF EarnedInv, ClaimsEarned
    <3>2. CASE <<"daily_play_5", d>> = <<call.task, day>>
      <4>1. call.task = "daily_play_5" /\ d = day
        BY <3>2
      <4>2. d = call.day
        BY <4>1 DEF DailyTask
      <4>3. QED
        BY <1>2, <4>1, <4>2
    <3>3. QED
      BY <1>1, <2>1, <3>1, <3>2
  <2>2. ASSUME <<"story_clear_1", EPOCH>> \in claimed'
        PROVE  Cardinality(Cleared) >= 1
    <3>1. CASE <<"story_clear_1", EPOCH>> \in claimed
      BY <3>1 DEF EarnedInv, ClaimsEarned
    <3>2. CASE <<"story_clear_1", EPOCH>> = <<call.task, day>>
      BY <1>2, <3>2
    <3>3. QED
      BY <1>1, <2>2, <3>1, <3>2
  <2>3. QED
    BY <1>1, <1>3, <2>1, <2>2 DEF ClaimsEarned
<1>6. QED
  BY <1>1, <1>3, <1>4, <1>5, EarnedGoesOn

\* advance_step counts the round that get_step has found reached, as it compares them.
LEMMA AdvanceKeepsEarned ==
    ASSUME TasksInv, EarnedInv, NEW r \in Request, AdvanceStep(r)
    PROVE  EarnedInv'
<1> DEFINE call == task_call[r]
           a == call.task
<1>1. /\ UNCHANGED <<best, plays, signin, claimed>>
      /\ task_call' = [task_call EXCEPT ![r] = None]
      /\ call # None /\ call.kind = "claim" /\ call.pc = "advance"
  BY DEF AdvanceStep, Ends, Holds
<1>2. a \in Achievement /\ call.step \in Nat /\ call.step <= step[a] /\ step[a] \in Nat
  BY <1>1, CallKnown DEF CallIsSound, TasksInv, RoundsAreSound
<1>3. /\ a = "perfectionist" =>
           call.step < RoundCap /\ TotalStars >= Threshold("perfectionist", call.step)
      /\ a = "signin_streak" => call.step + 1 <= TotalOf(signin)
  BY <1>1, CallKnown DEF CallIsEarned
<1>4. CASE step' = step
  BY <1>1, <1>4, EarnedIdles
<1>5. CASE step[a] \in {0, call.step} /\ step' = [step EXCEPT ![a] = step[a] + 1]
  <2>1. step[a] = call.step
    BY <1>2, <1>5
  <2>2. Grows /\ TotalStars' = TotalStars
    BY <1>1, MetricsStay
  <2>3. ClaimsEarned'
    BY <1>1, <2>2, EarnedStays
  <2>4. step'["perfectionist"] <= RoundCap
    <3>1. CASE a = "perfectionist"
      <4>1. step'["perfectionist"] = call.step + 1
        BY <1>2, <1>5, <2>1, <3>1 DEF TasksInv, RoundsAreSound
      <4>2. QED
        BY <1>2, <1>3, <3>1, <4>1, RoundsAreNumbers
    <3>2. CASE a # "perfectionist"
      BY <1>5, <3>2 DEF EarnedInv, RoundsEarned, TasksInv, RoundsAreSound, Achievement
    <3>3. QED
      BY <3>1, <3>2
  <2>5. step'["perfectionist"] > 0 =>
          TotalStars >= Threshold("perfectionist", step'["perfectionist"] - 1)
    <3>1. CASE a = "perfectionist"
      <4>1. step'["perfectionist"] - 1 = call.step
        BY <1>2, <1>5, <2>1, <3>1 DEF TasksInv, RoundsAreSound
      <4>2. QED
        BY <1>3, <3>1, <4>1
    <3>2. CASE a # "perfectionist"
      <4>1. step'["perfectionist"] = step["perfectionist"]
        BY <1>5, <3>2 DEF TasksInv, RoundsAreSound, Achievement
      <4>2. QED
        BY <4>1 DEF EarnedInv, RoundsEarned
    <3>3. QED
      BY <3>1, <3>2
  <2>6. step'["signin_streak"] <= TotalOf(signin)
    <3>1. CASE a = "signin_streak"
      <4>1. step'["signin_streak"] = call.step + 1
        BY <1>2, <1>5, <2>1, <3>1 DEF TasksInv, RoundsAreSound
      <4>2. QED
        BY <1>3, <3>1, <4>1
    <3>2. CASE a # "signin_streak"
      BY <1>5, <3>2 DEF EarnedInv, RoundsEarned, TasksInv, RoundsAreSound, Achievement
    <3>3. QED
      BY <3>1, <3>2
  <2>7. RoundsEarned'
    BY <1>1, <2>2, <2>4, <2>5, <2>6 DEF RoundsEarned, Threshold, TotalOf
  <2>8. QED
    BY <1>1, <2>2, <2>3, <2>7, EarnedGoesOn
<1>6. QED
  BY <1>4, <1>5 DEF AdvanceStep

LEMMA MidnightKeepsEarned ==
    ASSUME TasksInv, EarnedInv, UNCHANGED <<best, plays, signin, claimed, step, task_call>>
    PROVE  EarnedInv'
<1>1. Grows /\ \A call : CallIsEarned(call)' <=> CallIsEarned(call)
  BY MetricsStay
<1>2. RoundsEarned' /\ ClaimsEarned'
  BY <1>1, EarnedStays
<1>3. ASSUME NEW q \in Request, task_call'[q] # None
      PROVE  CallIsEarned(task_call[q])'
  <2>1. PICK call : call = task_call[q]
    OBVIOUS
  <2>2. CallIsEarned(call)'
    BY <1>1, <1>3, <2>1 DEF EarnedInv
  <2>3. QED
    BY <2>1, <2>2 DEF CallIsEarned
<1>4. QED
  BY <1>1, <1>2, <1>3 DEF EarnedInv, Grows

-------------------------------------------------------------------------------

LEMMA EarnedKeeps ==
    ASSUME TasksInv, EarnedInv, [TasksNext]_taskVars
    PROVE  EarnedInv'
<1>1. ASSUME NEW r \in Request, NEW l \in Level, NEW stars \in Stars, SubmitScore(r, l, stars)
      PROVE  EarnedInv'
  <2>1. CallIsEarned([kind |-> "score", pc |-> "submit", level |-> l, stars |-> stars])
    BY DEF CallIsEarned
  <2>2. QED
    BY <1>1, <2>1, StartKeepsEarned DEF SubmitScore
<1>2. ASSUME NEW r \in Request, ReportSignin(r)
      PROVE  EarnedInv'
  <2>1. CallIsEarned([kind |-> "signin", pc |-> "read", day |-> today])
    BY DEF CallIsEarned
  <2>2. QED
    BY <1>2, <2>1, StartKeepsEarned DEF ReportSignin
<1>3. ASSUME NEW r \in Request, NEW task \in SimpleTask \cup Achievement, ClaimTask(r, task)
      PROVE  EarnedInv'
  <2>1. CallIsEarned([kind |-> "claim", pc |-> "read", day |-> today, task |-> task])
    BY DEF CallIsEarned, TasksInv, CallsAreSound
  <2>2. QED
    BY <1>3, <2>1, StartKeepsEarned DEF ClaimTask
<1>4. CASE NextDay \/ UNCHANGED taskVars
  BY <1>4, MidnightKeepsEarned DEF NextDay, taskVars
<1>5. QED
  BY <1>1, <1>2, <1>3, <1>4, UpsertKeepsEarned, BumpKeepsEarned, SigninReadKeepsEarned,
     SigninWriteKeepsEarned, LoadCtxKeepsEarned, RecordKeepsEarned, GetStepKeepsEarned,
     AdvanceKeepsEarned DEF TasksNext

\* The inductive invariant: what was rewarded has been reached, and so has what a
\* claim that is under way has read as reached (minigame_tasks.rs:166-234).
THEOREM EarnedInvariant == TasksSpec => []EarnedInv
<1>1. TasksInit => EarnedInv
  <2> SUFFICES ASSUME TasksInit PROVE EarnedInv
    OBVIOUS
  <2>1. RoundsEarned
    BY RoundsAreNumbers DEF TasksInit, RoundsEarned, TotalOf, Achievement
  <2>2. QED
    BY <2>1 DEF TasksInit, EarnedInv, ClaimsEarned
<1>2. TasksInv /\ EarnedInv /\ [TasksNext]_taskVars => EarnedInv'
  BY EarnedKeeps
<1>3. QED
  BY <1>1, <1>2, TasksInvariant, PTL DEF TasksSpec

\* What has been rewarded was reached (minigame_tasks.rs:166-234).
THEOREM RewardsAreEarned == TasksSpec => []RewardsWereEarned
<1>1. TasksInv /\ EarnedInv => RewardsWereEarned
  <2> SUFFICES ASSUME TasksInv, EarnedInv PROVE RewardsWereEarned
    OBVIOUS
  <2>1. today \in Day
    BY DEF TasksInv, CallsAreSound
  <2>2. /\ Value("perfectionist", today) = TotalStars
        /\ Value("story_clear_1", today) = Cardinality(Cleared)
        /\ Value("story_signin_1", today) = TotalOf(signin)
    BY <2>1, ValuesAre
  <2>3. QED
    BY <2>2 DEF EarnedInv, RoundsEarned, ClaimsEarned, RewardsWereEarned
<1>2. QED
  BY <1>1, TasksInvariant, EarnedInvariant, PTL

-------------------------------------------------------------------------------
(* Configurations.                                                           *)

PublishedAs(v, content) == config[v] = [status |-> "published", content |-> content]
IsPublished(v) == \E content \in Content : PublishedAs(v, content)
HasContent(v, content) == config[v] # None /\ config[v].content = content

\* create_draft counts without gaps: the next version is one nobody has seen.
NoGaps == \E n \in 0..MaxVersion : Made = 1..n

\* What is in use, what a rollback is about to put in use, and what clients hold.
ActiveIsPublished == active # None => IsPublished(active)
TargetsArePublished == \A r \in Request : rollback_to[r] # None => IsPublished(rollback_to[r])
ClientsHoldVersions ==
    \A c \in UserId :
        /\ manifest[c] # None => PublishedAs(manifest[c].version, manifest[c].checksum)
        /\ bundle[c] # None => HasContent(bundle[c].version, bundle[c].content)

ConfigInv == /\ ConfigTypeOK /\ NoGaps
             /\ ActiveIsPublished /\ TargetsArePublished /\ ClientsHoldVersions

\* A version that is published stays so, and the content of a version does not change.
VersionsStay ==
    \A v \in Version, content \in Content :
        /\ PublishedAs(v, content) => PublishedAs(v, content)'
        /\ HasContent(v, content) => HasContent(v, content)'

-------------------------------------------------------------------------------

\* A version that is published is made.
LEMMA PublishedIsMade ==
    ASSUME NEW v \in Version, NEW content \in Content, PublishedAs(v, content)
    PROVE  config[v] # None
  BY NoneIsNoConfig DEF PublishedAs, ConfigRow

\* As versions stay what they are, so does all that refers to them.
LEMMA ReferencesStay ==
    ASSUME ConfigTypeOK, VersionsStay
    PROVE  /\ ActiveIsPublished /\ active' = active => ActiveIsPublished'
           /\ TargetsArePublished /\ rollback_to' = rollback_to => TargetsArePublished'
           /\ ClientsHoldVersions /\ UNCHANGED <<manifest, bundle>> => ClientsHoldVersions'
<1>1. ASSUME NEW v \in Version, IsPublished(v)
      PROVE  IsPublished(v)'
  BY <1>1 DEF IsPublished, VersionsStay
<1>2. ActiveIsPublished /\ active' = active => ActiveIsPublished'
  <2> SUFFICES ASSUME ActiveIsPublished, active' = active, active # None
               PROVE  IsPublished(active)'
    BY DEF ActiveIsPublished
  <2>1. PICK v \in Version : v = active
    BY DEF ConfigTypeOK
  <2>2. IsPublished(v)'
    BY <1>1, <2>1 DEF ActiveIsPublished
  <2>3. QED
    BY <2>1, <2>2 DEF IsPublished, PublishedAs
<1>3. TargetsArePublished /\ rollback_to' = rollback_to => TargetsArePublished'
  <2> SUFFICES ASSUME TargetsArePublished, rollback_to' = rollback_to,
                      NEW r \in Request, rollback_to[r] # None
               PROVE  IsPublished(rollback_to[r])'
    BY DEF TargetsArePublished
  <2>1. PICK v \in Version : v = rollback_to[r]
    BY DEF ConfigTypeOK
  <2>2. IsPublished(v)'
    BY <1>1, <2>1 DEF TargetsArePublished
  <2>3. QED
    BY <2>1, <2>2 DEF IsPublished, PublishedAs
<1>4. ClientsHoldVersions /\ UNCHANGED <<manifest, bundle>> => ClientsHoldVersions'
  <2> SUFFICES ASSUME ClientsHoldVersions, UNCHANGED <<manifest, bundle>>, NEW c \in UserId
               PROVE  /\ manifest[c] # None =>
                           PublishedAs(manifest[c].version, manifest[c].checksum)'
                      /\ bundle[c] # None => HasContent(bundle[c].version, bundle[c].content)'
    BY DEF ClientsHoldVersions
  <2>1. /\ manifest[c] # None =>
              manifest[c].version \in Version /\ manifest[c].checksum \in Content
        /\ bundle[c] # None => bundle[c].version \in Version /\ bundle[c].content \in Content
    BY DEF ConfigTypeOK, Manifest, Bundle
  <2>2. /\ manifest[c] # None => PublishedAs(manifest[c].version, manifest[c].checksum)
        /\ bundle[c] # None => HasContent(bundle[c].version, bundle[c].content)
    BY DEF ClientsHoldVersions
  <2>3. QED
    BY <2>1, <2>2 DEF VersionsStay, PublishedAs, HasContent
<1>5. QED
  BY <1>2, <1>3, <1>4

\* The version a draft gets is the first that is not made.
LEMMA NextVersionIsFree ==
    ASSUME ConfigTypeOK, NEW n \in 0..MaxVersion, Made = 1..n
    PROVE  Cardinality(Made) = n /\ (n + 1 \in Version => config[n + 1] = None)
<1>1. n \in Int /\ n >= 0
  BY MaxVersionIsNumber
<1>2. Cardinality(Made) = n
  BY <1>1, FS_Interval
<1>3. n + 1 \notin Made
  BY <1>1
<1>4. QED
  BY <1>2, <1>3 DEF Made

LEMMA DraftKeepsConfig ==
    ASSUME ConfigInv, NEW content \in Content, CreateDraft(content)
    PROVE  ConfigInv'
<1> USE DEF ConfigInv
<1>1. PICK n \in 0..MaxVersion : Made = 1..n
  BY DEF NoGaps
<1>2. n \in Nat /\ Cardinality(Made) = n
  BY <1>1, NextVersionIsFree, MaxVersionIsNumber
<1> DEFINE row == [status |-> "draft", content |-> content]
<1>3. /\ n + 1 \in Version /\ config[n + 1] = None
      /\ config' = [config EXCEPT ![n + 1] = row]
      /\ row \in ConfigRow /\ row # None
      /\ UNCHANGED <<active, rollback_to, manifest, bundle>>
  <2>1. n + 1 \in Version /\ config' = [config EXCEPT ![n + 1] = row]
        /\ UNCHANGED <<active, rollback_to, manifest, bundle>>
    BY <1>2 DEF CreateDraft
  <2>2. config[n + 1] = None
    BY <1>1, <2>1, NextVersionIsFree
  <2>3. row \in ConfigRow
    BY DEF ConfigRow
  <2>4. QED
    BY <2>1, <2>2, <2>3, NoneIsNoConfig
<1>4. ConfigTypeOK'
  BY <1>3 DEF ConfigTypeOK
<1>5. NoGaps'
  <2>1. Made' = Made \cup {n + 1}
    BY <1>3 DEF Made, ConfigTypeOK
  <2>2. Made' = 1..(n + 1)
    BY <1>1, <1>2, <2>1
  <2>3. n + 1 \in 0..MaxVersion
    BY <1>2, <1>3, MaxVersionIsNumber DEF Version
  <2>4. QED
    BY <2>2, <2>3 DEF NoGaps
<1>6. VersionsStay
  <2> SUFFICES ASSUME NEW v \in Version, NEW c \in Content, config[v] # None
               PROVE  /\ PublishedAs(v, c) => PublishedAs(v, c)'
                      /\ HasContent(v, c) => HasContent(v, c)'
    BY PublishedIsMade DEF VersionsStay, HasContent
  <2>1. v # n + 1
    BY <1>3
  <2>2. config'[v] = config[v]
    BY <1>3, <2>1 DEF ConfigTypeOK
  <2>3. QED
    BY <2>2 DEF PublishedAs, HasContent
<1>7. QED
  BY <1>3, <1>4, <1>5, <1>6, ReferencesStay

LEMMA PublishKeepsConfig ==
    ASSUME ConfigInv, NEW v \in Version, Publish(v)
    PROVE  ConfigInv'
<1> USE DEF ConfigInv
<1>1. /\ config[v] \in ConfigRow /\ config[v].content \in Content
      /\ config' = [config EXCEPT ![v] = [status |-> "published", content |-> config[v].content]]
      /\ active' = v /\ UNCHANGED <<rollback_to, manifest, bundle>>
  <2>1. config[v] \in ConfigRow
    BY DEF Publish, ConfigTypeOK
  <2>2. /\ config[v].content \in Content
        /\ [config[v] EXCEPT !.status = "published"] =
              [status |-> "published", content |-> config[v].content]
    BY <2>1 DEF ConfigRow
  <2>3. config' = [config EXCEPT ![v] = [config[v] EXCEPT !.status = "published"]]
    BY DEF Publish, ConfigTypeOK
  <2>4. QED
    BY <2>1, <2>2, <2>3 DEF Publish
<1> DEFINE row == [status |-> "published", content |-> config[v].content]
<1>2. row \in ConfigRow /\ row # None
  BY <1>1, NoneIsNoConfig DEF ConfigRow
<1>3. ConfigTypeOK'
  BY <1>1, <1>2 DEF ConfigTypeOK
<1>4. NoGaps'
  <2>1. Made' = Made
    BY <1>1, <1>2, NoneIsNoConfig DEF Made, ConfigTypeOK
  <2>2. QED
    BY <2>1 DEF NoGaps
<1>5. VersionsStay
  BY <1>1, <1>2 DEF VersionsStay, PublishedAs, HasContent, ConfigTypeOK
<1>6. ActiveIsPublished'
  BY <1>1 DEF ActiveIsPublished, IsPublished, PublishedAs, ConfigTypeOK
<1>7. QED
  BY <1>1, <1>3, <1>4, <1>5, <1>6, ReferencesStay

\* A rollback reads or moves: versions are left alone.
LEMMA RollbackKeepsConfig ==
    ASSUME ConfigInv, NEW r \in Request,
           (\E v \in Version : RollbackReads(r, v)) \/ RollbackMoves(r)
    PROVE  ConfigInv'
<1> USE DEF ConfigInv
<1>1. config' = config /\ UNCHANGED <<manifest, bundle>>
  BY DEF RollbackReads, RollbackMoves
<1>2. NoGaps' /\ VersionsStay
  BY <1>1 DEF NoGaps, Made, VersionsStay, PublishedAs, HasContent
<1>3. ClientsHoldVersions'
  BY <1>1, <1>2, ReferencesStay
<1>4. ConfigTypeOK' /\ ActiveIsPublished' /\ TargetsArePublished'
  <2>1. ASSUME NEW v \in Version, RollbackReads(r, v)
        PROVE  ConfigTypeOK' /\ ActiveIsPublished' /\ TargetsArePublished'
    <3>1. /\ active' = active /\ config[v] \in ConfigRow /\ config[v].status = "published"
          /\ rollback_to' = [rollback_to EXCEPT ![r] = v]
      BY <2>1 DEF RollbackReads, ConfigTypeOK
    <3>2. IsPublished(v)
      BY <3>1 DEF IsPublished, PublishedAs, ConfigRow
    <3>3. QED
      BY <1>1, <3>1, <3>2
         DEF ConfigTypeOK, ActiveIsPublished, TargetsArePublished, IsPublished, PublishedAs
  <2>2. CASE RollbackMoves(r)
    <3>1. /\ active' = active \/ active' = rollback_to[r]
          /\ rollback_to[r] # None /\ rollback_to' = [rollback_to EXCEPT ![r] = None]
      BY <2>2 DEF RollbackMoves
    <3>2. IsPublished(rollback_to[r]) /\ rollback_to[r] \in Version
      BY <3>1 DEF TargetsArePublished, ConfigTypeOK
    <3>3. QED
      BY <1>1, <3>1, <3>2
         DEF ConfigTypeOK, ActiveIsPublished, TargetsArePublished, IsPublished, PublishedAs
  <2>3. QED
    BY <2>1, <2>2
<1>5. QED
  BY <1>2, <1>3, <1>4

\* What a client is told is published, and what it is given is what its version holds.
LEMMA AnswersKeepConfig ==
    ASSUME ConfigInv, NEW c \in UserId, GetManifest(c) \/ (\E v \in Version : GetVersion(c, v)) \/ GetActive(c)
    PROVE  ConfigInv'
<1> USE DEF ConfigInv
<1>1. UNCHANGED <<config, active, rollback_to>>
  BY DEF GetManifest, GetVersion, GetActive
<1>2. NoGaps' /\ VersionsStay
  BY <1>1 DEF NoGaps, Made, VersionsStay, PublishedAs, HasContent
<1>3. ActiveIsPublished' /\ TargetsArePublished'
  BY <1>1, <1>2, ReferencesStay
<1>4. active # None =>
        /\ active \in Version /\ config[active].content \in Content
        /\ PublishedAs(active, config[active].content) /\ config[active] # None
  <2>1. active # None => \E content \in Content : PublishedAs(active, content)
    BY DEF ActiveIsPublished, IsPublished
  <2>2. ASSUME NEW content \in Content, PublishedAs(active, content)
        PROVE  config[active].content = content
    BY <2>2 DEF PublishedAs
  <2>3. QED
    BY <2>1, <2>2, PublishedIsMade DEF ConfigTypeOK
<1>6. ConfigTypeOK' /\ ClientsHoldVersions'
  <2>1. CASE GetManifest(c)
    <3>1. /\ active # None /\ bundle' = bundle
          /\ manifest' = [manifest EXCEPT ![c] =
                              [version |-> active, checksum |-> config[active].content]]
      BY <2>1 DEF GetManifest
    <3>2. QED
      BY <1>1, <1>4, <3>1
         DEF ConfigTypeOK, Manifest, ClientsHoldVersions, PublishedAs, HasContent
  <2>2. ASSUME NEW v \in Version, config[v] # None, config[v].content \in Content,
               manifest' = manifest,
               bundle' = [bundle EXCEPT ![c] = [version |-> v, content |-> config[v].content]]
        PROVE  ConfigTypeOK' /\ ClientsHoldVersions'
    BY <1>1, <2>2 DEF ConfigTypeOK, Bundle, ClientsHoldVersions, PublishedAs, HasContent
  <2>3. CASE \E v \in Version : GetVersion(c, v)
    <3>1. PICK v \in Version : GetVersion(c, v)
      BY <2>3
    <3>2. config[v] # None /\ config[v].content \in Content
      BY <3>1 DEF GetVersion, ConfigTypeOK, ConfigRow
    <3>3. QED
      BY <2>2, <3>1, <3>2 DEF GetVersion
  <2>4. CASE GetActive(c)
    <3>1. CASE bundle' = bundle
      BY <1>1, <2>4, <3>1
         DEF GetActive, ConfigTypeOK, ClientsHoldVersions, PublishedAs, HasContent
    <3>2. CASE bundle' # bundle
      BY <1>4, <2>2, <2>4, <3>2 DEF GetActive
    <3>3. QED
      BY <3>1, <3>2
  <2>5. QED
    BY <2>1, <2>3, <2>4
<1>7. QED
  BY <1>2, <1>3, <1>6

-------------------------------------------------------------------------------

\* The inductive invariant: versions are made without gaps, whatever is in use,
\* about to be put in use or announced to a client is published, and whatever a
\* client holds is the content of its version.
THEOREM ConfigInvariant == ConfigSpec => []ConfigInv
<1>1. ConfigInit => ConfigInv
  <2> SUFFICES ASSUME ConfigInit
               PROVE  ConfigInv
    OBVIOUS
  <2>1. Made = 1..0 /\ 0 \in 0..MaxVersion
    BY MaxVersionIsNumber DEF ConfigInit, Made
  <2>2. NoGaps
    BY <2>1 DEF NoGaps
  <2>3. QED
    BY <2>2 DEF ConfigInit, ConfigInv, ConfigTypeOK, ActiveIsPublished, TargetsArePublished,
                ClientsHoldVersions
<1>2. ConfigInv /\ [ConfigNext]_configVars => ConfigInv'
  <2> SUFFICES ASSUME ConfigInv, [ConfigNext]_configVars
               PROVE  ConfigInv'
    OBVIOUS
  <2>1. CASE UNCHANGED configVars
    BY <2>1 DEF configVars, ConfigInv, ConfigTypeOK, NoGaps, Made, ActiveIsPublished,
                TargetsArePublished, ClientsHoldVersions, IsPublished, PublishedAs, HasContent
  <2>2. CASE \E content \in Content : CreateDraft(content)
    BY <2>2, DraftKeepsConfig
  <2>3. CASE \E v \in Version : Publish(v)
    BY <2>3, PublishKeepsConfig
  <2>4. CASE \E r \in Request : (\E v \in Version : RollbackReads(r, v)) \/ RollbackMoves(r)
    BY <2>4, RollbackKeepsConfig
  <2>5. CASE \E c \in UserId :
            GetManifest(c) \/ (\E v \in Version : GetVersion(c, v)) \/ GetActive(c)
    BY <2>5, AnswersKeepConfig
  <2>6. QED
    BY <2>1, <2>2, <2>3, <2>4, <2>5 DEF ConfigNext
<1>3. QED
  BY <1>1, <1>2, PTL DEF ConfigSpec

\* The version in use, and every version a client was told of, is published, with
\* the checksum it was told, also when a rollback moves the pointer after its target
\* was read; and no version that a client has loaded, drafts included, changes.
THEOREM AnnouncedStaysPublished == ConfigSpec => []AnnouncedIsPublished
<1>1. ConfigInv => AnnouncedIsPublished
  BY DEF ConfigInv, ActiveIsPublished, IsPublished, PublishedAs, HasContent, ClientsHoldVersions,
         AnnouncedIsPublished
<1>2. QED
  BY <1>1, ConfigInvariant, PTL

===============================================================================
