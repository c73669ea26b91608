------------------------------- MODULE PollOneOff -------------------------------
(***************************************************************************)
(* WasiSocketExt::WasiPollOneOff, which replaces uvwasi's poll_oneoff: the *)
(* guest's subscriptions become an array for poll(), and what poll()       *)
(* returns becomes the guest's events.  Times are nanoseconds; NsPerMs,   *)
(* MaxPoll and MaxSleep stand for 10^6, INT_MAX and INT64_MAX.             *)
(***************************************************************************)
EXTENDS Lists, Sequences, SequencesExt

CONSTANTS
    NsPerMs,    \* nanoseconds in a millisecond
    MaxPoll,    \* the greatest timeout of poll(), in milliseconds
    MaxSleep,   \* the longest sleep of std::this_thread, in nanoseconds
    Forever     \* UINT64_MAX, no timeout

ASSUME TimeAssumption ==
    /\ NsPerMs \in Nat \ {0} /\ {MaxPoll, MaxSleep, Forever} \subseteq Nat
    /\ MaxPoll * NsPerMs < Forever /\ MaxSleep < Forever

INVALID_SOCKET == -1

\* The subscriptions of a guest whose app descriptors are fds; the userdata of
\* one is its index.
Subscriptions(fds) ==
    [type : {"CLOCK"}, timeout : 0..Forever, abs : BOOLEAN] \cup [type : {"FD_READ", "FD_WRITE"}, fd : fds]

IsClock(sub) == sub.type = "CLOCK"

\* The time a clock subscription asks for, at the time now.  (A clock that
\* cannot be read, now = Forever, gives no timeout to an absolute one.)
TimeoutOf(sub, now) ==
    IF ~sub.abs THEN sub.timeout
    ELSE IF now = Forever THEN Forever
    ELSE IF now < sub.timeout THEN sub.timeout - now ELSE 0

\* Mutant: the last clock subscription counts.
LaterCounts(subs, now, i, j) == j <= i

\* Of two clock subscriptions that have a timeout, does the loop keep i?
Keeps(subs, now, i, j) ==
    \/ TimeoutOf(subs[i], now) < TimeoutOf(subs[j], now)
    \/ TimeoutOf(subs[i], now) = TimeoutOf(subs[j], now) /\ i <= j

\* timeoutNanoSec and pTimeoutSub (0 for null) after the loop.
Timeout(subs, now) ==
    LET timed == {i \in DOMAIN subs : IsClock(subs[i]) /\ TimeoutOf(subs[i], now) < Forever}
        kept == CHOOSE i \in timed : \A j \in timed : Keeps(subs, now, i, j)
    IN IF timed = {} THEN [timeout |-> Forever, sub |-> 0]
       ELSE [timeout |-> TimeoutOf(subs[kept], now), sub |-> kept]

\* pollArr: the host descriptor of each subscription; host gives that of an
\* app descriptor, INVALID_SOCKET if there is none.
PollArr(subs, host) ==
    [i \in DOMAIN subs |-> IF IsClock(subs[i]) THEN INVALID_SOCKET ELSE host[subs[i].fd]]

SleepOnly(arr) == \A i \in DOMAIN arr : arr[i] = INVALID_SOCKET

\* std::chrono::nanoseconds is signed: a longer time is negative, no sleep.
SleepTime(ns) == IF ns <= MaxSleep THEN ns ELSE 0

Milliseconds(ns) == ns \div NsPerMs

PollTimeout(ns) == IF Milliseconds(ns) < MaxPoll THEN Milliseconds(ns) ELSE MaxPoll

-----------------------------------------------------------------------------
Event(subs, i, error, hangup) ==
    [error |-> error, userdata |-> i, type |-> subs[i].type, hangup |-> hangup]

ClockEvent(subs, sub) == IF sub = 0 THEN <<>> ELSE <<Event(subs, sub, "0", FALSE)>>

\* Mutant: a hangup with nothing left to read is not told.
NoHangupEvent(subs, i, revents) == <<>>

HangupEvent(subs, i, revents) ==
    IF "POLLHUP" \in revents THEN <<Event(subs, i, "EPIPE", TRUE)>> ELSE <<>>

\* Mutant: a descriptor that is closed when poll() looks at it is passed over.
OnlyMissing(subs, i, fd, revents) == ~IsClock(subs[i]) /\ fd = INVALID_SOCKET

CannotPoll(subs, i, fd, revents) == ~IsClock(subs[i]) /\ (fd = INVALID_SOCKET \/ "POLLNVAL" \in revents)

\* The event of subscription i, if there is one.
EventOf(subs, i, fd, revents) ==
    IF CannotPoll(subs, i, fd, revents) THEN <<Event(subs, i, "EBADF", FALSE)>>
    ELSE IF IsClock(subs[i]) THEN <<>>
    ELSE IF revents \cap {"POLLRDNORM", "POLLWRNORM"} # {}
         THEN <<Event(subs, i, "0", "POLLHUP" \in revents)>>
    ELSE HangupEvent(subs, i, revents)

\* What poll() says of a descriptor that the guest is told.  (POLLERR is not.)
Told == {"POLLRDNORM", "POLLWRNORM", "POLLHUP", "POLLNVAL"}

\* The events of a poll() that found some descriptor ready.
ReadyEvents(subs, arr, revents) ==
    LET event(i) == EventOf(subs, i, arr[i], revents[i])
        answered == Ascending({i \in DOMAIN subs : event(i) # <<>>})
    IN [k \in DOMAIN answered |-> event(answered[k])[1]]
=============================================================================
