------------------------------- MODULE Timers -------------------------------
(***************************************************************************)
(* TimerQueue (utils/TimerQueue.cpp) and a RateLimitedSender that sends    *)
(* through it (utils/RateLimitedSender.cpp), used by one thread, as the    *)
(* clock goes on.  What a timer's function does is up to the program: it   *)
(* may add and cancel timers, its own too, and report updates to send.     *)
(***************************************************************************)
EXTENDS Integers, Sequences, FiniteSetsExt

CONSTANTS Periods,      \* the periods given to addTimer
          SendPeriod,   \* send_period
          MaxTime,      \* bound: the last reading of the clock
          MaxTimers     \* bound: the most timers added

ASSUME TimersAssumption == Periods \subseteq Nat /\ SendPeriod \in Nat

VARIABLES now,              \* the clock
          queue,            \* the timers in the heap
          next_timer_id,
          cur_time,         \* think's cur_time; outside a call, that of the last one
          thinking,
          running,          \* think's local timer while its function is called, or none
          last_send_time, send_scheduled,
          (* history *)
          added,            \* what addTimer was asked, and when: [at, period, repeating, func]
          fires,            \* how often each timer's function was called
          cancelled,        \* per timer, fires when it was cancelled, or NotCancelled
          sent_at, gap,     \* when send_func was called last, the least time between calls
          unsent            \* an update was reported since

timerVars == <<now, queue, next_timer_id, cur_time, thinking, running, last_send_time,
               send_scheduled, added, fires, cancelled, sent_at, gap, unsent>>

NotCancelled == -1
Long_ago     == -1000

InitTimers ==
    /\ now = 0 /\ cur_time = 0 /\ thinking = FALSE
    /\ queue = {} /\ next_timer_id = 0 /\ running = {}
    /\ last_send_time = Long_ago /\ send_scheduled = FALSE
    /\ added = <<>> /\ fires = <<>> /\ cancelled = <<>>
    /\ sent_at = Long_ago /\ gap = SendPeriod /\ unsent = FALSE

(* The program's code runs: outside think, or in a timer's function.        *)
Calls == thinking => running # {}

Tick ==
    /\ now < MaxTime
    /\ now' = now + 1
    /\ UNCHANGED <<queue, next_timer_id, cur_time, thinking, running, last_send_time,
                   send_scheduled, added, fires, cancelled, sent_at, gap, unsent>>

-----------------------------------------------------------------------------
(* addTimer; func is what the timer's function is: the program's own, or    *)
(* the sender's.  ids count from 1 here.                                    *)
Push(period, repeating, func) ==
    /\ next_timer_id < MaxTimers
    /\ next_timer_id' = next_timer_id + 1
    /\ queue' = queue \cup {[id |-> next_timer_id', trigger_time |-> now + period,
                             period |-> period, repeating |-> repeating, func |-> func]}
    /\ added' = Append(added, [at |-> now, period |-> period, repeating |-> repeating, func |-> func])
    /\ fires' = Append(fires, 0)
    /\ cancelled' = Append(cancelled, NotCancelled)

AddTimer(period, repeating) ==
    /\ Calls
    /\ repeating => period > 0
    /\ Push(period, repeating, "program")
    /\ UNCHANGED <<now, cur_time, thinking, running, last_send_time, send_scheduled, sent_at, gap, unsent>>

(* cancelTimer, of a timer the program has added: it stays in the heap      *)
(* until it is due.                                                         *)
CancelTimer(id) ==
    /\ Calls /\ added[id].func = "program"
    /\ queue' = {IF t.id = id THEN [t EXCEPT !.func = "none", !.repeating = FALSE] ELSE t : t \in queue}
    /\ cancelled' = IF \E t \in queue : t.id = id /\ t.func = "program"
                    THEN [cancelled EXCEPT ![id] = fires[id]] ELSE cancelled
    /\ UNCHANGED <<now, next_timer_id, cur_time, thinking, running, last_send_time,
                   send_scheduled, added, fires, sent_at, gap, unsent>>

-----------------------------------------------------------------------------
Think ==
    /\ ~thinking
    /\ thinking' = TRUE /\ cur_time' = now
    /\ UNCHANGED <<now, queue, next_timer_id, running, last_send_time, send_scheduled,
                   added, fires, cancelled, sent_at, gap, unsent>>

Due == {t \in queue : t.trigger_time <= cur_time /\ \A u \in queue : t.trigger_time <= u.trigger_time}

(* The first timer that is due leaves the heap, and its function is called, *)
(* if cancelTimer has not cleared it.                                       *)
Fire ==
    /\ thinking /\ running = {}
    /\ \E t \in Due :
         /\ queue' = queue \ {t}
         /\ running' = IF t.func = "none" THEN {} ELSE {t}
         /\ fires' = IF t.func = "none" THEN fires ELSE [fires EXCEPT ![t.id] = @ + 1]
    /\ UNCHANGED <<now, next_timer_id, cur_time, thinking, last_send_time, send_scheduled,
                   added, cancelled, sent_at, gap, unsent>>

(* Mutant of Again: the next period begins now.                             *)
AgainFromNow(t) == {[t EXCEPT !.trigger_time = now + t.period]}

(* think's own copy of the timer says whether, and when, it fires again.    *)
Again(t) == {[t EXCEPT !.trigger_time = @ + t.period]}

FunctionReturns ==
    /\ \E t \in running :
         /\ t.func = "program"
         /\ queue' = IF t.repeating THEN queue \cup Again(t) ELSE queue
    /\ running' = {}
    /\ UNCHANGED <<now, next_timer_id, cur_time, thinking, last_send_time, send_scheduled,
                   added, fires, cancelled, sent_at, gap, unsent>>

ThinkReturns ==
    /\ thinking /\ running = {} /\ Due = {}
    /\ thinking' = FALSE
    /\ UNCHANGED <<now, queue, next_timer_id, cur_time, running, last_send_time,
                   send_scheduled, added, fires, cancelled, sent_at, gap, unsent>>

-----------------------------------------------------------------------------
Sent     == sent_at' = now /\ gap' = Min({gap, now - sent_at}) /\ unsent' = FALSE
SendFunc == Sent /\ last_send_time' = now

(* checkSend, for an update: nothing when a send is scheduled, else a send  *)
(* at once if the last one is long enough ago, else a timer for when it is. *)
CheckSend ==
    /\ Calls
    /\ IF send_scheduled
       THEN /\ unsent' = TRUE
            /\ UNCHANGED <<queue, next_timer_id, last_send_time, send_scheduled, added, fires,
                           cancelled, sent_at, gap>>
       ELSE IF now >= last_send_time + SendPeriod
       THEN /\ SendFunc
            /\ UNCHANGED <<queue, next_timer_id, send_scheduled, added, fires, cancelled>>
       ELSE /\ Push(last_send_time + SendPeriod - now, FALSE, "send")
            /\ send_scheduled' = TRUE /\ unsent' = TRUE
            /\ UNCHANGED <<last_send_time, sent_at, gap>>
    /\ UNCHANGED <<now, cur_time, thinking, running>>

(* Mutant of SendTimer: send_scheduled stays set.                           *)
SendTimerStaysScheduled ==
    /\ \E t \in running : t.func = "send"
    /\ SendFunc
    /\ running' = {}
    /\ UNCHANGED <<now, queue, next_timer_id, cur_time, thinking, send_scheduled, added, fires,
                   cancelled>>

(* The function of that timer.                                              *)
SendTimer ==
    /\ \E t \in running : t.func = "send"
    /\ SendFunc
    /\ send_scheduled' = FALSE
    /\ running' = {}
    /\ UNCHANGED <<now, queue, next_timer_id, cur_time, thinking, added, fires, cancelled>>

NextTimers ==
    \/ Tick \/ Think \/ Fire \/ FunctionReturns \/ ThinkReturns \/ CheckSend \/ SendTimer
    \/ \E p \in Periods, repeating \in BOOLEAN : AddTimer(p, repeating)
    \/ \E id \in DOMAIN added : CancelTimer(id)

SpecTimers == InitTimers /\ [][NextTimers]_timerVars

-----------------------------------------------------------------------------
(* How often a timer that is not cancelled has been due by the last think.  *)
Promised(a) ==
    IF cur_time < a.at + a.period THEN 0
    ELSE IF a.repeating THEN (cur_time - a.at) \div a.period ELSE 1

(* Whatever timers' functions add and cancel, and however late think is     *)
(* called, a timer has fired once, or once for each of its periods, that    *)
(* has passed by then, and not at all since it was cancelled.  A timer      *)
(* that is cancelled by its own function is not in the heap, so it goes on. *)
FiresAsPromised ==
    \A id \in DOMAIN added :
        IF cancelled[id] # NotCancelled THEN fires[id] = cancelled[id]
        ELSE thinking \/ fires[id] = Promised(added[id])
             \/ (added[id].period = 0 /\ added[id].at = cur_time)

(* "send_period is minimum time elapsed between sends".                     *)
SendsArePeriodApart == gap >= SendPeriod

(* An update is sent at the next think at or after last_send_time +         *)
(* send_period, and no sooner: a timer for it is there, and no second one.  *)
UpdatesGetSent ==
    LET timers == {t \in queue \cup running : t.func = "send"}
    IN  /\ unsent \/ send_scheduled => Cardinality(timers) = 1
        /\ \A t \in timers : t.trigger_time <= last_send_time + SendPeriod
        /\ SendsArePeriodApart
=============================================================================
