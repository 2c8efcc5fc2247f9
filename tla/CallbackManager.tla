--------------------------- MODULE CallbackManager ---------------------------
(***************************************************************************)
(* CallbackManager (src/src/callback_manager.cc): pending requests keyed   *)
(* by message id, each with a response callback, an expect_count and a    *)
(* timeout in seconds.  Every operation finds and updates the entry under *)
(* callback_map_mutex_ and invokes the callback after releasing it, so    *)
(* each invocation is a step of its own.                                  *)
(*                                                                         *)
(* Threads: requesters call Add and Cancel, workers call Callback when a  *)
(* response arrives, and the timer thread runs TimeoutCheck every second, *)
(* which calls Timeout for each expired entry.  Message ids come from the *)
(* atomic MessageId() counter and are distinct, so requests are model     *)
(* values that stand for their ids.                                        *)
(***************************************************************************)
EXTENDS Integers, FiniteSets, FiniteSetsExt

CONSTANTS
    Reqs,         \* requests, one message id each
    ExpectCount,  \* Reqs -> expect_count given to Add (>= 1)
    TimeoutSec,   \* Reqs -> timeout_sec given to Add
    Workers,      \* threads that handle responses
    Requester,    \* the thread that calls Add and Cancel
    Timer,        \* the SingleThreadTimer running TimeoutCheck
    None

Threads == Workers \cup {Requester, Timer}

VARIABLES
    cbMap,      \* ids present in callback_map_
    expect,     \* Reqs -> the entry's expect_count
    tsec,       \* Reqs -> the entry's timeout_sec
    status,     \* Reqs -> "new" | "added" | "dropped" (Cancel without callback)
    succ,       \* Reqs -> callback invocations with kKadSuccess so far
    tmo,        \* Reqs -> callback invocations with kKadTimeout so far
    pc,         \* Threads -> position
    cur,        \* Threads -> the request whose callback the thread invokes
    left,       \* Threads -> invocations the thread still owes cur
    expired     \* TimeoutCheck's message_vec still to time out

vars == <<cbMap, expect, tsec, status, succ, tmo, pc, cur, left, expired>>

Init ==
    /\ cbMap = {}
    /\ expect = [r \in Reqs |-> 0]
    /\ tsec = [r \in Reqs |-> 0]
    /\ status = [r \in Reqs |-> "new"]
    /\ succ = [r \in Reqs |-> 0]
    /\ tmo = [r \in Reqs |-> 0]
    /\ pc = [t \in Threads |-> "idle"]
    /\ cur = [t \in Threads |-> None]
    /\ left = [t \in Threads |-> 0]
    /\ expired = {}

-----------------------------------------------------------------------------
(* Add, 53-64: callback_map_.insert under the lock (a no-op for an id     *)
(* already present, which distinct ids never hit).                        *)
Add(r) ==
    /\ pc[Requester] = "idle"
    /\ status[r] = "new"
    /\ cbMap' = cbMap \cup {r}
    /\ expect' = [expect EXCEPT ![r] = ExpectCount[r]]
    /\ tsec' = [tsec EXCEPT ![r] = TimeoutSec[r]]
    /\ status' = [status EXCEPT ![r] = "added"]
    /\ UNCHANGED <<succ, tmo, pc, cur, left, expired>>

(* Callback, 75-108: find, decrement expect_count, erase at <= 0; the     *)
(* success invocation follows outside the lock.  A response for an id no  *)
(* longer in callback_map_ returns at once and changes nothing.           *)
\* Mutation of CallbackLocked: the entry is erased only below zero.
CallbackLockedEraseBelowZero(t, r) ==
    /\ pc[t] = "idle"
    /\ r \in cbMap
    /\ expect' = [expect EXCEPT ![r] = @ - 1]
    /\ cbMap' = IF expect[r] - 1 < 0 THEN cbMap \ {r} ELSE cbMap
    /\ pc' = [pc EXCEPT ![t] = "success"]
    /\ cur' = [cur EXCEPT ![t] = r]
    /\ left' = [left EXCEPT ![t] = 1]
    /\ UNCHANGED <<tsec, status, succ, tmo, expired>>

CallbackLocked(t, r) ==
    /\ pc[t] = "idle"
    /\ r \in cbMap
    /\ expect' = [expect EXCEPT ![r] = @ - 1]
    /\ cbMap' = IF expect[r] - 1 <= 0 THEN cbMap \ {r} ELSE cbMap
    /\ pc' = [pc EXCEPT ![t] = "success"]
    /\ cur' = [cur EXCEPT ![t] = r]
    /\ left' = [left EXCEPT ![t] = 1]
    /\ UNCHANGED <<tsec, status, succ, tmo, expired>>

InvokeSuccess(t) ==
    /\ pc[t] = "success"
    /\ succ' = [succ EXCEPT ![cur[t]] = @ + 1]
    /\ pc' = [pc EXCEPT ![t] = "idle"]
    /\ cur' = [cur EXCEPT ![t] = None]
    /\ left' = [left EXCEPT ![t] = 0]
    /\ UNCHANGED <<cbMap, expect, tsec, status, tmo, expired>>

(* Cancel(id, no_callback), 114-155, and Timeout(id) = Cancel(id, 0):     *)
(* under the lock read expect_count and erase; with no_callback = 0 the  *)
(* callback is then invoked expect_count times with kKadTimeout.  back is *)
(* where the thread returns afterwards.                                   *)
\* Mutation of CancelLocked: times out with the expect_count given to Add
\* instead of the remaining one.
CancelLockedFullCount(t, r, noCallback, back) ==
    /\ r \in cbMap
    /\ cbMap' = cbMap \ {r}
    /\ IF noCallback
         THEN /\ status' = [status EXCEPT ![r] = "dropped"]
              /\ pc' = [pc EXCEPT ![t] = back]
              /\ UNCHANGED <<cur, left>>
         ELSE /\ pc' = [pc EXCEPT ![t] = "timeout"]
              /\ cur' = [cur EXCEPT ![t] = r]
              /\ left' = [left EXCEPT ![t] = ExpectCount[r]]
              /\ UNCHANGED status
    /\ UNCHANGED <<expect, tsec, succ, tmo>>

CancelLocked(t, r, noCallback, back) ==
    /\ r \in cbMap
    /\ cbMap' = cbMap \ {r}
    /\ IF noCallback
         THEN /\ status' = [status EXCEPT ![r] = "dropped"]
              /\ pc' = [pc EXCEPT ![t] = back]
              /\ UNCHANGED <<cur, left>>
         ELSE /\ pc' = [pc EXCEPT ![t] = "timeout"]
              /\ cur' = [cur EXCEPT ![t] = r]
              /\ left' = [left EXCEPT ![t] = expect[r]]
              /\ UNCHANGED status
    /\ UNCHANGED <<expect, tsec, succ, tmo>>

\* The id is gone: Cancel returns without invoking anything.
CancelMissing(t, r, back) ==
    /\ r \notin cbMap
    /\ pc' = [pc EXCEPT ![t] = back]
    /\ UNCHANGED <<cbMap, expect, tsec, status, succ, tmo, cur, left>>

\* One iteration of "for (i = 0; i < expect_count; ++i) callback(kKadTimeout)".
InvokeTimeout(t) ==
    /\ pc[t] = "timeout"
    /\ IF left[t] > 0
         THEN /\ tmo' = [tmo EXCEPT ![cur[t]] = @ + 1]
              /\ left' = [left EXCEPT ![t] = @ - 1]
              /\ UNCHANGED <<pc, cur>>
         ELSE /\ pc' = [pc EXCEPT ![t] = IF t = Timer THEN "loop" ELSE "idle"]
              /\ cur' = [cur EXCEPT ![t] = None]
              /\ UNCHANGED <<tmo, left>>
    /\ UNCHANGED <<cbMap, expect, tsec, status, succ, expired>>

RequesterCancel(r) ==
    /\ pc[Requester] = "idle"
    /\ \E noCallback \in BOOLEAN : CancelLocked(Requester, r, noCallback, "idle")
    /\ UNCHANGED expired

-----------------------------------------------------------------------------
(* TimeoutCheck, 157-173: under the lock decrement every timeout_sec and  *)
(* collect the ids at <= 0; then Timeout each; then reschedule.           *)
\* Mutation of TimeoutCheckLocked: timeout_sec is never decremented.
TimeoutCheckLockedNoDecrement ==
    /\ pc[Timer] = "idle"
    /\ expired' = {r \in cbMap : tsec[r] <= 0}
    /\ pc' = [pc EXCEPT ![Timer] = "loop"]
    /\ UNCHANGED <<cbMap, expect, tsec, status, succ, tmo, cur, left>>

TimeoutCheckLocked ==
    /\ pc[Timer] = "idle"
    /\ tsec' = [r \in Reqs |-> IF r \in cbMap THEN tsec[r] - 1 ELSE tsec[r]]
    /\ expired' = {r \in cbMap : tsec[r] - 1 <= 0}
    /\ pc' = [pc EXCEPT ![Timer] = "loop"]
    /\ UNCHANGED <<cbMap, expect, status, succ, tmo, cur, left>>

TimeoutNext ==
    /\ pc[Timer] = "loop"
    /\ expired # {}
    /\ \E r \in expired :
          /\ expired' = expired \ {r}
          /\ \/ CancelLocked(Timer, r, FALSE, "loop")
             \/ CancelMissing(Timer, r, "loop")

\* timer_.CallAfter(kTimeCheckoutPeriod, TimeoutCheck)
TimeoutReschedule ==
    /\ pc[Timer] = "loop"
    /\ expired = {}
    /\ pc' = [pc EXCEPT ![Timer] = "idle"]
    /\ UNCHANGED <<cbMap, expect, tsec, status, succ, tmo, cur, left, expired>>

-----------------------------------------------------------------------------

Next ==
    \/ \E r \in Reqs : Add(r) \/ RequesterCancel(r)
    \/ \E t \in Workers, r \in Reqs : CallbackLocked(t, r)
    \/ \E t \in Threads : InvokeSuccess(t) \/ InvokeTimeout(t)
    \/ TimeoutCheckLocked \/ TimeoutNext \/ TimeoutReschedule

\* The timer thread and the invocations a thread has started are code that
\* runs to completion; responses and requester calls may never come.
Fairness ==
    /\ WF_vars(TimeoutCheckLocked) /\ WF_vars(TimeoutNext)
    /\ WF_vars(TimeoutReschedule)
    /\ \A t \in Threads : WF_vars(InvokeSuccess(t)) /\ WF_vars(InvokeTimeout(t))

Spec == Init /\ [][Next]_vars /\ Fairness

-----------------------------------------------------------------------------

TypeOK ==
    /\ cbMap \subseteq Reqs
    /\ expect \in [Reqs -> Nat] /\ tsec \in [Reqs -> Int]
    /\ status \in [Reqs -> {"new", "added", "dropped"}]
    /\ succ \in [Reqs -> Nat] /\ tmo \in [Reqs -> Nat]
    /\ pc \in [Threads -> {"idle", "success", "timeout", "loop"}]
    /\ cur \in [Threads -> Reqs \cup {None}]
    /\ left \in [Threads -> Nat]
    /\ expired \subseteq Reqs

\* Invocations request r is still owed: its remaining expect_count while it
\* is in callback_map_, plus those a thread has taken out of the map and
\* not yet made.
Owed(r) ==
    (IF r \in cbMap THEN expect[r] ELSE 0)
    + MapThenSumSet(LAMBDA t : left[t], {t \in Threads : cur[t] = r})

\* Exactly expect_count invocations (spec.md 8.8, 8.9 and section 3): for a
\* request not cancelled with no_callback, success invocations, timeout
\* invocations and the ones still owed always add up to the expect_count
\* given to Add, however Callback, TimeoutCheck/Timeout and Cancel
\* interleave on the same id.
CallbackAccounting ==
    \A r \in Reqs : status[r] = "added" =>
        succ[r] + tmo[r] + Owed(r) = ExpectCount[r]

\* Every request added and not cancelled with no_callback eventually has
\* its callback invoked expect_count times, whether or not any response
\* arrives: the 1 s TimeoutCheck expires it.
EventuallyAnswered ==
    \A r \in Reqs :
        status[r] = "added" ~>
            (status[r] = "dropped" \/ succ[r] + tmo[r] = ExpectCount[r])

=============================================================================
