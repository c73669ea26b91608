------------------------------ MODULE LoopThread ------------------------------
(***************************************************************************)
(* LoopThread: a thread that runs a libuv loop, the timers other threads   *)
(* post to it, and its end.  Start, PostTimerTask and Stop run on a thread *)
(* of the program under m_lock; libuv takes no lock.  A call of libuv is   *)
(* one step, except uv_timer_again, which reads whether the handle is      *)
(* closing and then puts it back: Stop, on its own thread, may close the   *)
(* handle in between.                                                      *)
(*                                                                         *)
(* A timer may be due at any turn of the loop, at most once in a turn (the *)
(* callback is shorter than the interval).  Every timer repeats, as those  *)
(* of the program do.                                                      *)
(***************************************************************************)
EXTENDS Naturals

CONSTANTS
    Timers,   \* the UVHandleTimerData that may be made
    Async,    \* &m_uvAsync
    None

ASSUME HandlesAssumption == Async \notin Timers /\ None \notin Timers \cup {Async}

ASSUME NoneAssumption == None \notin {"assert", "memory assert", "freed memory"}

VARIABLES
    m_bRunning,
    post,       \* the timer PostTimerTask works on, None outside
    stopPc,     \* where Stop is, "idle" outside
    toWalk,     \* handles uv_walk has still to visit
    uvPc,       \* where uv_run is on the loop thread
    handles,    \* the handles of m_uvloop
    heap,       \* its active timers
    closing,    \* handles uv_close was called on
    deleted,    \* timers deleted by DestroyUVHandleData
    turn,       \* timers that were due in this turn of the loop
    due,        \* the timer whose callback runs
    woken,      \* the descriptor of the async handle is readable
    timeout,    \* what the poll of this turn waits for: "none", "timer" or "forever"
    dead        \* the process died: "assert" or "freed memory"; None while it lives

stopVars == <<stopPc, toWalk>>
turnVars == <<turn, due, timeout>>
loopVars == <<uvPc, handles, heap, closing, deleted, turnVars, woken>>
loopThreadVars == <<m_bRunning, post, stopVars, loopVars, dead>>

LoopInit ==
    /\ m_bRunning = FALSE
    /\ post = None
    /\ stopPc = "idle" /\ toWalk = {}
    /\ uvPc = "none"
    /\ handles = {} /\ heap = {} /\ closing = {} /\ deleted = {}
    /\ turn = {} /\ due = None /\ timeout = "none"
    /\ woken = FALSE
    /\ dead = None

\* m_lock is free: Stop holds it until it has joined the thread.
LockFree == stopPc \in {"idle", "stopped"} /\ post = None

-----------------------------------------------------------------------------
Start ==
    /\ LockFree
    /\ IF m_bRunning
       THEN UNCHANGED <<m_bRunning, uvPc, handles, stopPc>>
       ELSE /\ m_bRunning' = TRUE
            /\ handles' = {Async}
            /\ uvPc' = "timers"
            /\ stopPc' = "idle"
    /\ UNCHANGED <<post, toWalk, heap, closing, deleted, turnVars, woken, dead>>

\* uv_timer_init and uv_timer_start, while the loop may be at any point.
PostTimerTask(t) ==
    /\ LockFree /\ m_bRunning
    /\ t \notin handles \cup deleted
    /\ post' = t
    /\ handles' = handles \cup {t}
    /\ heap' = heap \cup {t}
    /\ UNCHANGED <<m_bRunning, stopVars, uvPc, closing, deleted, turnVars, woken, dead>>

\* Mutant: the loop is not woken up.
NotWoken(w) == w

AsyncSend(w) == TRUE

PostSend ==
    /\ post # None
    /\ woken' = AsyncSend(woken)
    /\ post' = None
    /\ UNCHANGED <<m_bRunning, stopVars, uvPc, handles, heap, closing, deleted, turnVars, dead>>

-----------------------------------------------------------------------------
StopIdle ==
    /\ LockFree /\ ~m_bRunning
    /\ stopPc' = "stopped"
    /\ UNCHANGED <<m_bRunning, post, toWalk, loopVars, dead>>

\* Mutant: only the timers are closed.
TimersOnly(hs) == hs \ {Async}

Walked(hs) == hs

StopWalk ==
    /\ LockFree /\ m_bRunning
    /\ toWalk' = Walked(handles)
    /\ stopPc' = "walk"
    /\ UNCHANGED <<m_bRunning, post, loopVars, dead>>

\* uv_close asserts that the handle is not closing already.
Close(h) ==
    /\ closing' = closing \cup {h}
    /\ heap' = heap \ {h}
    /\ dead' = IF h \in closing \cup deleted THEN "assert" ELSE dead

StopClose(h) ==
    /\ stopPc = "walk"
    /\ h \in toWalk
    /\ Close(h)
    /\ toWalk' = toWalk \ {h}
    /\ UNCHANGED <<m_bRunning, post, stopPc, uvPc, handles, deleted, turnVars, woken>>

StopSend ==
    /\ stopPc = "walk" /\ toWalk = {}
    /\ woken' = TRUE
    /\ stopPc' = "join"
    /\ UNCHANGED <<m_bRunning, post, toWalk, uvPc, handles, heap, closing, deleted, turnVars, dead>>

\* The thread is joined; uv_loop_close must find no handle.
StopJoin ==
    /\ stopPc = "join"
    /\ uvPc = "ended"
    /\ dead' = IF handles # {} THEN "assert" ELSE dead
    /\ m_bRunning' = FALSE
    /\ stopPc' = "stopped"
    /\ uvPc' = "none"
    /\ UNCHANGED <<post, toWalk, handles, heap, closing, deleted, turnVars, woken>>

StopStep == StopSend \/ StopJoin \/ \E h \in toWalk : StopClose(h)

-----------------------------------------------------------------------------
\* A timer is due.  One that was put back after it had been closed is freed memory.
TimerDue(t) ==
    /\ uvPc = "timers"
    /\ t \in heap \ turn
    /\ heap' = heap \ {t}
    /\ turn' = turn \cup {t}
    /\ due' = t
    /\ uvPc' = "again"
    /\ dead' = IF t \in deleted THEN "freed memory" ELSE dead
    /\ UNCHANGED <<m_bRunning, post, stopVars, handles, closing, deleted, timeout, woken>>

\* uv_timer_again leaves a closing handle alone,
TimerAgain ==
    /\ uvPc = "again"
    /\ uvPc' = IF due \in closing THEN "callback" ELSE "restart"
    /\ UNCHANGED <<m_bRunning, post, stopVars, handles, heap, closing, deleted, turnVars, woken,
                   dead>>

\* and puts back one that was not closing.
TimerRestart ==
    /\ uvPc = "restart"
    /\ heap' = heap \cup {due}
    /\ uvPc' = "callback"
    /\ UNCHANGED <<m_bRunning, post, stopVars, handles, closing, deleted, turnVars, woken, dead>>

\* Mutant: the test of uv_timer_get_repeat() is the other way round.
ClosesRepeating(t) == TRUE

\* uv_timer_get_repeat() is 0: the timer closes itself.
OneShot(t) == FALSE

\* After pData->cb().
CallbackEnds ==
    /\ uvPc = "called"
    /\ IF OneShot(due) THEN Close(due) ELSE UNCHANGED <<heap, closing, dead>>
    /\ uvPc' = "timers"
    /\ due' = None
    /\ UNCHANGED <<m_bRunning, post, stopVars, handles, deleted, turn, timeout, woken>>

\* The active handles are those the heap counts and the async handle.
ActiveHandles == heap \cup (({Async} \cap handles) \ closing)

TimersDone ==
    /\ uvPc = "timers"
    /\ timeout' = CASE closing # {} \/ ActiveHandles = {} -> "none"
                    [] OTHER -> IF heap # {} THEN "timer" ELSE "forever"
    /\ uvPc' = "poll"
    /\ UNCHANGED <<m_bRunning, post, stopVars, handles, heap, closing, deleted, turn, due, woken,
                   dead>>

PollEnds ==
    /\ uvPc = "poll"
    /\ timeout # "forever" \/ woken
    /\ woken' = FALSE
    /\ uvPc' = "closing"
    /\ UNCHANGED <<m_bRunning, post, stopVars, handles, heap, closing, deleted, turnVars, dead>>

\* The closed handles go, with DestroyUVHandleData; the loop ends without handles.
ClosingHandles ==
    /\ uvPc = "closing"
    /\ handles' = handles \ closing
    /\ deleted' = deleted \cup (closing \cap Timers)
    /\ closing' = {}
    /\ turn' = {}
    /\ uvPc' = IF heap = {} /\ Async \notin handles' THEN "ended" ELSE "timers"
    /\ UNCHANGED <<m_bRunning, post, stopVars, heap, due, timeout, woken, dead>>

UVRun ==
    \/ \E t \in heap : TimerDue(t)
    \/ TimerAgain \/ TimerRestart \/ CallbackEnds
    \/ TimersDone \/ PollEnds \/ ClosingHandles

=============================================================================
