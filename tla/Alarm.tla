-------------------------------- MODULE Alarm --------------------------------
(***************************************************************************)
(* The alarm of include/async/alarm.h: a timer that does not call its      *)
(* handler once it was stopped or destroyed, although a handler of the     *)
(* timer below it (boost::asio::steady_timer) that is queued already       *)
(* cannot be taken back.                                                   *)
(***************************************************************************)
EXTENDS Naturals

CONSTANTS
  Durations,   \* arguments of start, in ticks
  MaxCalls     \* bound: calls of start, stop and the destructor

ASSUME AlarmAssumption == Durations \subseteq Nat

VARIABLES
  state,       \* _state
  timeout,     \* _timeout
  destroyed,   \* _storage->was_destroyed
  wait,        \* the wait of the timer: "none", "pending", or its handler is
               \* queued because it "expired" or was "aborted"
  left,        \* ticks until the wait expires
  calls,
  due,         \* ticks after which on_expire may be called, none if it may not
  early        \* was on_expire called before, or when it may not be?

alarmVars == <<state, timeout, destroyed, wait, left, calls, due, early>>

AlarmInit ==
  /\ state = "idle" /\ timeout = 0 /\ destroyed = FALSE
  /\ wait = "none" /\ left = 0
  /\ calls = 0 /\ due = {} /\ early = FALSE

\* steady_timer::cancel
Cancelled == IF wait = "pending" THEN "aborted" ELSE wait

\* alarm::start in state idle.
Wait(duration) ==
  /\ state' = "running" /\ wait' = "pending" /\ left' = duration
  /\ UNCHANGED timeout

\* Mutant: the wait of a running alarm goes on.
RestartLate(duration) ==
  \/ state = "idle" /\ Wait(duration)
  \/ state # "idle" /\ timeout' = duration /\ UNCHANGED <<state, wait, left>>

\* Mutant: an alarm whose wait was cancelled is running again.
RestartAtOnce(duration) ==
  \/ state = "idle" /\ Wait(duration)
  \/ state # "idle" /\ state' = "running" /\ timeout' = duration /\ UNCHANGED <<wait, left>>

start(duration) ==
  \/ state = "idle" /\ Wait(duration)
  \/ /\ state # "idle"
     /\ state' = "canceling_for_restart" /\ timeout' = duration
     /\ wait' = IF state = "running" THEN Cancelled ELSE wait
     /\ UNCHANGED left

\* Mutant: the timer is left alone when it is stopped.
StopNothing == UNCHANGED <<state, wait, timeout, left>>

stop ==
  /\ state' = IF state = "idle" THEN "idle" ELSE "canceling"
  /\ wait' = IF state = "running" THEN Cancelled ELSE wait
  /\ UNCHANGED <<timeout, left>>

\* The calls, by the owner or from inside on_expire.
AlarmCall ==
  \/ \E d \in Durations : start(d) /\ due' = {d} /\ UNCHANGED destroyed
  \/ stop /\ due' = {} /\ UNCHANGED destroyed
  \/ stop /\ due' = {} /\ destroyed' = TRUE

OwnerCalls ==
  /\ ~destroyed /\ calls < MaxCalls
  /\ calls' = calls + 1
  /\ AlarmCall
  /\ UNCHANGED early

Tick ==
  /\ left > 0 \/ \E d \in due : d > 0
  /\ left' = IF left > 0 THEN left - 1 ELSE 0
  /\ due' = {IF d > 0 THEN d - 1 ELSE 0 : d \in due}
  /\ UNCHANGED <<state, timeout, destroyed, wait, calls, early>>

Expire ==
  /\ wait = "pending" /\ left = 0
  /\ wait' = "expired"
  /\ UNCHANGED <<state, timeout, destroyed, left, calls, due, early>>

\* on_timeout in state running: on_expire is called, and may call the alarm; its
\* start then begins in state idle.
OnExpire ==
  /\ early' = (early \/ due # {0})
  /\ \/ state' = "idle" /\ wait' = "none" /\ due' = {}
        /\ UNCHANGED <<timeout, destroyed, left, calls>>
     \/ /\ calls < MaxCalls /\ calls' = calls + 1
        /\ \/ \E d \in Durations : Wait(d) /\ due' = {d} /\ UNCHANGED destroyed
           \/ /\ state' = "idle" /\ wait' = "none" /\ due' = {} /\ destroyed' = TRUE
              /\ UNCHANGED <<timeout, left>>

on_timeout ==
  \/ state = "running" /\ OnExpire
  \/ /\ state = "canceling"
     /\ state' = "idle" /\ wait' = "none"
     /\ UNCHANGED <<timeout, destroyed, left, calls, due, early>>
  \/ /\ state = "canceling_for_restart"
     /\ Wait(timeout)
     /\ UNCHANGED <<destroyed, calls, due, early>>

\* The handler of the wait.
Handle ==
  /\ wait \in {"expired", "aborted"}
  /\ \/ destroyed /\ wait' = "none"
        /\ UNCHANGED <<state, timeout, destroyed, left, calls, due, early>>
     \/ ~destroyed /\ on_timeout

AlarmNext == OwnerCalls \/ Tick \/ Expire \/ Handle

AlarmSpec == AlarmInit /\ [][AlarmNext]_alarmVars
-------------------------------------------------------------------------------
\* "it doesn't call its on_expire handler if it was stopped or destroyed", nor
\* before the time of the last start has passed.
OnTime == ~early

\* on_timeout asserts that the alarm is not idle, and that a running one has
\* expired: there is one wait at a time, and it belongs to the state.
OneWait ==
  ~destroyed =>
    /\ state = "idle" <=> wait = "none"
    /\ state = "running" => wait \in {"pending", "expired"}

\* An alarm that is not stopped expires, also when it was restarted meanwhile and
\* the wait had to be cancelled first (canceling_for_restart).
EventuallyExpires == due # {} ~> due = {}
===============================================================================
