------------------------------ MODULE QuotaPoll ------------------------------
(***************************************************************************)
(* When the window reads the quotas (request_quota, apply_quota and         *)
(* schedule_poll in crates/combe/src/quota_panel.rs).                       *)
(*                                                                          *)
(* A request starts a thread that reads; a thread that waits QUOTA_POLL     *)
(* makes the next request.  Each of them raises an epoch, and a wait whose  *)
(* epoch has passed does nothing when it ends, so that of the waits only    *)
(* the last one counts; requests of it may be queued behind others.         *)
(***************************************************************************)
EXTENDS Naturals

CONSTANT MaxPolls   \* bound: requests of waits queued on the main thread

VARIABLES
    fetching,  \* QUOTA_FETCHING; a thread reads or its block is queued
    posted,    \* that block is queued
    waiting,   \* a wait of the current epoch runs
    polls,     \* requests of waits queued on the main thread
    fresh,     \* QUOTA_LAST is less than QUOTA_FRESH ago
    live,      \* the window is in use
    starved    \* a thread could not be started

vars == <<fetching, posted, waiting, polls, fresh, live, starved>>

Init ==
    /\ fetching = TRUE    \* start
    /\ posted = FALSE /\ waiting = FALSE /\ polls = 0 /\ fresh = FALSE
    /\ live \in BOOLEAN
    /\ starved = FALSE

\* schedule_poll: the new wait replaces another one.
SchedulePoll ==
    \/ waiting' = TRUE /\ UNCHANGED starved
    \/ waiting' = FALSE /\ starved' = TRUE

\* The thread that reads; the epoch ends a wait.
Fetch ==
    /\ waiting' = FALSE
    /\ \/ fetching' = TRUE /\ UNCHANGED starved
       \/ UNCHANGED fetching /\ starved' = TRUE

\* MUTANT of RequestQuota: without a window in use it does nothing.
RequestIfLive ==
    IF fetching \/ fresh \/ ~live THEN UNCHANGED <<fetching, waiting, starved>> ELSE Fetch

RequestQuota ==
    IF fetching \/ fresh THEN UNCHANGED <<fetching, waiting, starved>>
    ELSE IF ~live THEN SchedulePoll /\ UNCHANGED fetching
    ELSE Fetch

\* applicationDidBecomeActive: the window may be the one in use already or not.
Activate ==
    /\ live' \in {live, TRUE}
    /\ RequestQuota
    /\ UNCHANGED <<posted, polls, fresh>>

ChangeLive ==
    /\ live' = ~live
    /\ UNCHANGED <<fetching, posted, waiting, polls, fresh, starved>>

\* The reading thread ends.
Post ==
    /\ fetching /\ ~posted
    /\ posted' = TRUE
    /\ UNCHANGED <<fetching, waiting, polls, fresh, live, starved>>

\* apply_quota.
Apply ==
    /\ posted
    /\ posted' = FALSE /\ fetching' = FALSE /\ fresh' = TRUE
    /\ SchedulePoll
    /\ UNCHANGED <<polls, live>>

\* QUOTA_POLL is longer than QUOTA_FRESH, and the wait began when the quotas were
\* as fresh as they are or fresher.
WaitTakes == ~fresh

\* The wait ends; its epoch is the current one.
WaitEnds ==
    /\ waiting /\ WaitTakes /\ polls < MaxPolls
    /\ waiting' = FALSE
    /\ polls' = polls + 1
    /\ UNCHANGED <<fetching, posted, fresh, live, starved>>

Poll ==
    /\ polls > 0
    /\ polls' = polls - 1
    /\ RequestQuota
    /\ UNCHANGED <<posted, fresh, live>>

Age ==
    /\ fresh
    /\ fresh' = FALSE
    /\ UNCHANGED <<fetching, posted, waiting, polls, live, starved>>

Next == Activate \/ ChangeLive \/ Post \/ Apply \/ WaitEnds \/ Poll \/ Age

Spec == Init /\ [][Next]_vars

\* Threads and queued blocks run, time passes.
Works == Post \/ Apply \/ WaitEnds \/ Poll
Fairness == WF_vars(Works) /\ WF_vars(Age)
FairSpec == Spec /\ Fairness

-----------------------------------------------------------------------------
(* Properties *)

\* Every variable has its type.
TypeOK ==
    /\ {fetching, posted, waiting, fresh, live, starved} \subseteq BOOLEAN
    /\ polls \in 0..MaxPolls
    /\ posted => fetching

\* Something always leads to the next reading: a reading, a wait or a request,
\* unless a thread could once not be started; then only an activation does.
PollingGoesOn == fetching \/ waiting \/ polls > 0 \/ starved

\* "While focused, it checks every 15 minutes" (docs/DESIGN.md:277).
CheckedWhileLive == (live /\ ~starved) ~> (fetching \/ ~live \/ starved)
=============================================================================
