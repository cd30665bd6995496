--------------------------- MODULE EventScheduler ---------------------------
(***************************************************************************)
(* The scheduler of timed events (event-scheduler.h) over the monotonic    *)
(* clock (linux/clock-timers.h), driven by the loop of EpollDispatcher::   *)
(* Start when it is given one.  The queue orders pointers by a time that   *)
(* lives in the events, and a callback may change that time, or add to the *)
(* queue, while the entry of its own event is still at the top.            *)
(***************************************************************************)
EXTENDS Integers, Sequences, SequencesExt

CONSTANTS OneOffs,   \* the events of class OneOffEvent
          Backoffs,  \* the events of class ExponentialBackoffEvent
          Fraction,  \* ticks of the clock in a millisecond: 1000000
          Second,    \* milliseconds in a second: 1000
          Limit,     \* the number of values of ms_timer_t: 2^32
          Delays,    \* the delays that are asked for, in milliseconds
          Offsets,   \* the ticks from now to the Timers they count from
          MaxDelay,  \* the max of a backoff
          MaxTime    \* bound on the clock

VARIABLES
  now,      \* the clock
  loop,     \* where the dispatcher is: in its handlers, asleep, running events
  passed,   \* the time ProcessPendingEvents was given
  wake,     \* when epoll_wait returns, Forever without a timeout
  queue,    \* queue_, a heap
  when,     \* timer_ of each event
  backoff,  \* start_ and delay_ of each backoff
  armed,    \* the events that were started and have not run since
  crossed   \* a callback started an event earlier than its own

ASSUME ClockAssumption ==
  /\ Fraction \in Nat \ {0} /\ Second \in Nat \ {0, 1}
  /\ Limit \in Nat /\ Second * Second <= Limit
ASSUME DelaysAssumption ==
  Delays \subseteq Nat /\ Offsets \subseteq Int /\ MaxDelay \in Nat

eventVars == <<now, loop, passed, wake, queue, when, backoff, armed, crossed>>

Events == OneOffs \union Backoffs
Forever == -1
KTimerMax == Limit - 2

-----------------------------------------------------------------------------
(* ClockTimer.  A time is a number of ticks.                               *)

IncrementBy(t, amount) == t + amount * Fraction

Seconds(t) == t \div (Second * Fraction)
Nanoseconds(t) == t % (Second * Fraction)

\* In milliseconds, rounded down, or up when a second is borrowed.
GetDelayFrom(t, past) ==
  LET borrow    == Nanoseconds(past) > Nanoseconds(t)
      deltaSec  == Seconds(t) - Seconds(past) - (IF borrow THEN 1 ELSE 0)
      deltaMsec == IF borrow
                     THEN Second - ((Nanoseconds(past) - Nanoseconds(t)) \div Fraction)
                     ELSE (Nanoseconds(t) - Nanoseconds(past)) \div Fraction
      result    == (deltaSec * Second + deltaMsec) % Limit
  IN  IF deltaSec < 0 THEN 0
      ELSE IF \/ deltaSec > KTimerMax \div Second
              \/ deltaSec >= result
              \/ result > KTimerMax
             THEN KTimerMax
             ELSE result

-----------------------------------------------------------------------------
(* The priority_queue of the library: push_heap and pop_heap move entries  *)
(* along one path and compare no others.                                   *)

\* Mutant: EventOrdering without the exchange of its arguments.
PrecedesLatest(times, a, b) == times[a] > times[b]

Precedes(times, a, b) == times[a] < times[b]

\* An entry that precedes the one above it goes up, a place a turn.
SiftTurn(s, times) ==
  LET parent == s.i \div 2
  IN  IF s.i = 1 \/ ~Precedes(times, s.heap[s.i], s.heap[parent]) THEN s
      ELSE [heap |-> [s.heap EXCEPT ![s.i] = s.heap[parent], ![parent] = s.heap[s.i]],
            i    |-> parent]

SiftUp(heap, i, times) ==
  FoldLeft(LAMBDA s, x : SiftTurn(s, times), [heap |-> heap, i |-> i], heap).heap

Push(heap, e, times) == SiftUp(Append(heap, e), Len(heap) + 1, times)

\* The hole left at the top sinks to a leaf, where the last entry goes.
SinkTurn(s, times) ==
  LET left  == 2 * s.i
      right == left + 1
      child == IF right <= Len(s.heap) /\ ~Precedes(times, s.heap[left], s.heap[right])
                 THEN right ELSE left
  IN  IF left > Len(s.heap) THEN s
      ELSE [heap |-> [s.heap EXCEPT ![s.i] = s.heap[child]], i |-> child]

Sunk(heap, times) ==
  FoldLeft(LAMBDA s, x : SinkTurn(s, times), [heap |-> heap, i |-> 1], heap)

SinkHole(heap, last, times) ==
  LET s == Sunk(heap, times)
  IN  SiftUp([s.heap EXCEPT ![s.i] = last], s.i, times)

Pop(heap, times) ==
  IF Len(heap) = 1 THEN <<>> ELSE SinkHole(Front(heap), Last(heap), times)

-----------------------------------------------------------------------------
(* Starting an event: at a delay from a Timer, which is the current time   *)
(* or one the caller has kept or computed.                                 *)

Asks == [start : {now + offset : offset \in Offsets} \cap Nat, delay : Delays]

\* The parts of the state that Start changes.
Schedule == [queue |-> queue, when |-> when, backoff |-> backoff]

StartEvent(s, e, ask) ==
  LET times == [s.when EXCEPT ![e] = IncrementBy(ask.start, ask.delay)]
  IN  [queue   |-> Push(s.queue, e, times),
       when    |-> times,
       backoff |-> IF e \in Backoffs THEN [s.backoff EXCEPT ![e] = ask]
                   ELSE s.backoff]

\* A handler of the dispatcher, or the program before the loop.
Start(e, ask) ==
  /\ loop = "handlers"
  /\ e \notin armed
  /\ LET s == StartEvent(Schedule, e, ask)
     IN  /\ queue' = s.queue
         /\ when' = s.when
         /\ backoff' = s.backoff
  /\ armed' = armed \union {e}
  /\ UNCHANGED <<now, loop, passed, wake, crossed>>

-----------------------------------------------------------------------------
(* Running what is due.                                                    *)

\* What a callback starts: nothing, its own event, another that is not
\* pending, or both.
Calls(e) == LET others == {o \in Events \ armed : o # e}
            IN  {<<>>, <<e>>}
                  \union {<<o>> : o \in others}
                  \union {<<e, o>> : o \in others}
                  \union {<<o, e>> : o \in others}

\* The k-th of them.
StartCall(s, calls, asked, k) ==
  IF k \in DOMAIN calls THEN StartEvent(s, calls[k], asked[k]) ELSE s

\* It is for another event, and a time before that of e as it is by then.
Crosses(s, calls, asked, k, e) ==
  /\ k \in DOMAIN calls
  /\ calls[k] # e
  /\ IncrementBy(asked[k].start, asked[k].delay) < s.when[e]

\* delay_ counts from the first event.
NextDelay(delay) ==
  LET next == (2 * delay) % Limit
  IN  IF (delay + next) % Limit < delay \/ next >= MaxDelay
        THEN (delay + MaxDelay) % Limit
        ELSE (delay + next) % Limit

\* The end of ExponentialBackoffEvent::Run, after a callback that failed.
Reschedule(s, e) ==
  LET delay == NextDelay(s.backoff[e].delay)
      times == [s.when EXCEPT ![e] = IncrementBy(s.backoff[e].start, delay)]
  IN  [queue   |-> Push(s.queue, e, times),
       when    |-> times,
       backoff |-> [s.backoff EXCEPT ![e].delay = delay]]

\* IsBefore or IsSame.
IsDue == queue # <<>> /\ when[Head(queue)] <= passed

RunEvent ==
  /\ loop = "pending"
  /\ IsDue
  /\ LET e == Head(queue)
     IN  \E calls \in Calls(e) : \E asked \in [DOMAIN calls -> Asks], again \in BOOLEAN :
           /\ again => e \in Backoffs /\ ~Contains(calls, e)
           /\ LET first   == StartCall(Schedule, calls, asked, 1)
                  started == StartCall(first, calls, asked, 2)
                  s       == IF again THEN Reschedule(started, e) ELSE started
              IN  /\ queue' = Pop(s.queue, s.when)
                  /\ when' = s.when
                  /\ backoff' = s.backoff
                  /\ crossed' = \/ crossed
                                \/ Crosses(Schedule, calls, asked, 1, e)
                                \/ Crosses(first, calls, asked, 2, e)
           /\ armed' = ((armed \ {e}) \union ToSet(calls))
                         \union (IF again THEN {e} ELSE {})
  /\ UNCHANGED <<now, loop, passed, wake>>

\* ProcessPendingEvents returns.
NothingDue ==
  /\ loop = "pending"
  /\ ~IsDue
  /\ loop' = "handlers"
  /\ UNCHANGED <<now, passed, wake, queue, when, backoff, armed, crossed>>

-----------------------------------------------------------------------------
(* The loop of the dispatcher.                                             *)

GetTimeUntilNextEvent ==
  IF queue = <<>> THEN KTimerMax ELSE GetDelayFrom(when[Head(queue)], now)

\* The delay becomes an int, and a negative one is no timeout.
Sleep ==
  /\ loop = "handlers"
  /\ loop' = "asleep"
  /\ wake' = IF GetTimeUntilNextEvent >= Limit \div 2 THEN Forever
             ELSE IncrementBy(now, GetTimeUntilNextEvent)
  /\ UNCHANGED <<now, passed, queue, when, backoff, armed, crossed>>

\* A timeout, or a descriptor that is ready.
Wake ==
  /\ loop = "asleep"
  /\ loop' = "pending"
  /\ passed' = now
  /\ wake' = 0
  /\ UNCHANGED <<now, queue, when, backoff, armed, crossed>>

Advance ==
  /\ now < MaxTime
  /\ loop = "asleep" => now # wake
  /\ now' = now + 1
  /\ UNCHANGED <<loop, passed, wake, queue, when, backoff, armed, crossed>>

EventInit ==
  /\ now = 0
  /\ loop = "handlers"
  /\ passed = 0
  /\ wake = 0
  /\ queue = <<>>
  /\ when = [e \in Events |-> 0]
  /\ backoff = [e \in Backoffs |-> [start |-> 0, delay |-> 0]]
  /\ armed = {}
  /\ crossed = FALSE

EventNext ==
  \/ \E e \in Events, ask \in Asks : Start(e, ask)
  \/ RunEvent
  \/ NothingDue
  \/ Sleep
  \/ Wake
  \/ Advance

EventSpec == EventInit /\ [][EventNext]_eventVars

-----------------------------------------------------------------------------
\* When a pass over the queue ends, every event that was started and has not
\* run is later than the time the pass was given; and when the loop goes to
\* sleep, it is in the queue once, and the sleep ends no more than a
\* millisecond after it.  So nothing is lost by the pop that follows Run, and
\* nothing is left behind by an entry that was moved in the heap, whatever
\* the callbacks start and in which past or future, short of an event earlier
\* than their own, which is popped in its place.  The edges of GetDelayFrom
\* and of epoll_wait are excluded here: see EventsAwaited.
EventsInTime ==
  [][~crossed =>
       /\ loop = "pending" /\ loop' = "handlers" =>
            \A e \in armed : when[e] > passed
       /\ loop # "asleep" /\ loop' = "asleep" =>
            \A e \in armed :
              /\ \E i \in DOMAIN queue : \A j \in DOMAIN queue : queue[j] = e <=> j = i
              /\ \/ wake' = now
                 \/ wake' # Forever /\ wake' < when[e] + Fraction
                 \/ \E o \in armed : when[o] - now \in 0..(Fraction - 1)
                 \/ when[e] - now > ((Limit \div 2) - 1) * Fraction]_eventVars

\* The loop does not sleep without a timeout while an event waits: as GetDelayFrom
\* says of itself, "the delay is delta_sec * 1000 + delta_msec"
\* (linux/clock-timers.h:101), which is 0 for one that is due within the
\* millisecond, and "32 bits allow delays up to 49 days" (line 38).
EventsAwaited ==
  loop = "asleep" /\ armed # {} => wake # Forever
=============================================================================
