------------------------------ MODULE RedLock -------------------------------
(***************************************************************************)
(* The distributed lock of src/jupiter/redis/lock.rs: SET NX PX with a      *)
(* token per acquisition, a task that renews the TTL at half its length, an *)
(* unlock that stops that task and deletes the key if it still carries the  *)
(* token, and a guard whose Drop does the same in a spawned task.           *)
(*                                                                          *)
(* A call of lock() is named by its lease: every acquisition has a token, a *)
(* stop flag and a Notify of its own.  Time advances in ticks.  A call to   *)
(* Redis may fail, with or without having taken effect; a task may be late. *)
(* The bare try_lock and unlock, which only tests call, are left out.       *)
(***************************************************************************)
EXTENDS Naturals

CONSTANTS
    Calls,          \* the calls of lock(), each with its Lease
    TTL,            \* ttl_ms in ticks
    MaxLag,         \* ticks a task or a reply may be late without a fault
    None

ASSUME RedLockAssumption ==
    /\ TTL \in Nat /\ MaxLag \in Nat
    /\ MaxLag + (TTL \div 2) + MaxLag < TTL
    /\ None \notin Calls

Half_Mutant == TTL
Half == TTL \div 2

VARIABLES
    key,            \* the token stored under the lock's key in Redis, or None
    ttl,            \* ticks until Redis drops the key
    pc,             \* where a call is
    stop,           \* Lease.stop
    ren,            \* the renewal task of a lease
    timer,          \* ticks its sleep still lasts
    lag,            \* ticks it, or the reply to SET, is late
    faulty,         \* a renewal failed or was later than MaxLag: history only
    extra           \* TTL refreshes after the stop flag, up to 2: history only

lockVars == <<key, ttl, pc, stop, ren, timer, lag, faulty, extra>>

LockInit ==
    /\ key = None /\ ttl = 0
    /\ pc = [c \in Calls |-> "idle"]
    /\ stop = [c \in Calls |-> FALSE]
    /\ ren = [c \in Calls |-> "off"]
    /\ timer = [c \in Calls |-> 0]
    /\ lag = [c \in Calls |-> 0]
    /\ faulty = [c \in Calls |-> FALSE]
    /\ extra = [c \in Calls |-> 0]

-----------------------------------------------------------------------------
(* lock                                                                     *)

\* SET NX PX takes effect; the reply is on its way, or is lost and lock()
\* returns the error.
SetApplied(c, after) ==
    /\ pc[c] = "waiting" /\ key = None
    /\ key' = c /\ ttl' = TTL
    /\ pc' = [pc EXCEPT ![c] = after]
    /\ lag' = [lag EXCEPT ![c] = 0]
    /\ UNCHANGED <<stop, ren, timer, faulty, extra>>

\* The command fails without effect: lock() returns the error.  (A SET that
\* finds the key taken changes nothing and is retried.)
SetFails(c) ==
    /\ pc[c] = "waiting"
    /\ pc' = [pc EXCEPT ![c] = "failed"]
    /\ UNCHANGED <<key, ttl, stop, ren, timer, lag, faulty, extra>>

\* The reply arrives: the renewal task is spawned and the guard returned.
Acquired(c) ==
    /\ pc[c] = "granted"
    /\ pc' = [pc EXCEPT ![c] = "held"]
    /\ ren' = [ren EXCEPT ![c] = "sleep"]
    /\ timer' = [timer EXCEPT ![c] = Half]
    /\ lag' = [lag EXCEPT ![c] = 0]
    /\ UNCHANGED <<key, ttl, stop, faulty, extra>>

-----------------------------------------------------------------------------
(* spawn_auto_renew                                                         *)

\* The task is over.
RenewEnds(c) ==
    /\ ren' = [ren EXCEPT ![c] = "off"]
    /\ timer' = [timer EXCEPT ![c] = 0]
    /\ lag' = [lag EXCEPT ![c] = 0]

FlagSet_Mutant(c) == FALSE
FlagSet(c) == stop[c]

\* The sleep ends; the flag is read whatever became of the notification.
RenewWake(c) ==
    /\ ren[c] = "sleep" /\ timer[c] = 0
    /\ IF FlagSet(c)
       THEN RenewEnds(c)
       ELSE ren' = [ren EXCEPT ![c] = "attempt"] /\ UNCHANGED <<timer, lag>>
    /\ UNCHANGED <<key, ttl, pc, stop, faulty, extra>>

SleepAgain(c) ==
    /\ ren' = [ren EXCEPT ![c] = "sleep"]
    /\ timer' = [timer EXCEPT ![c] = Half]
    /\ lag' = [lag EXCEPT ![c] = 0]

Extended_Mutant == ttl
Extended == TTL

Refresh(c) ==
    /\ ttl' = Extended
    /\ extra' = [extra EXCEPT ![c] = IF stop[c] /\ @ < 2 THEN @ + 1 ELSE @]

StillOwner(c) == key = c

\* The script compares the token and refreshes the TTL in one step; 0 ends the
\* task.
Renew(c) ==
    /\ ren[c] = "attempt"
    /\ IF StillOwner(c)
       THEN Refresh(c) /\ SleepAgain(c)
       ELSE RenewEnds(c) /\ UNCHANGED <<ttl, extra>>
    /\ UNCHANGED <<key, pc, stop, faulty>>

\* A transient error: the task goes on; the script may have run.
RenewFails(c) ==
    /\ ren[c] = "attempt"
    /\ \/ StillOwner(c) /\ Refresh(c)
       \/ UNCHANGED <<ttl, extra>>
    /\ SleepAgain(c)
    /\ faulty' = [faulty EXCEPT ![c] = TRUE]
    /\ UNCHANGED <<key, pc, stop>>

-----------------------------------------------------------------------------
(* unlock_lease, from the guard's unlock or from the task its Drop spawns   *)

\* The guard is given up; the section it protected ends here.
Release(c) ==
    /\ pc[c] = "held"
    /\ pc' = [pc EXCEPT ![c] = "releasing"]
    /\ UNCHANGED <<key, ttl, stop, ren, timer, lag, faulty, extra>>

\* Flag first, then notify_waiters: it reaches a renewer that waits, and is lost
\* on one that renews or has not yet begun to wait.
StopRenewer(c) ==
    /\ pc[c] = "releasing"
    /\ pc' = [pc EXCEPT ![c] = "unlocking"]
    /\ stop' = [stop EXCEPT ![c] = TRUE]
    /\ \/ ren[c] = "sleep" /\ RenewEnds(c)
       \/ ~(ren[c] = "sleep" /\ timer[c] < Half) /\ UNCHANGED <<ren, timer, lag>>
    /\ UNCHANGED <<key, ttl, faulty, extra>>

Deletable_Mutant(c) == key # None
Deletable(c) == key = c

\* The script deletes the key if it still carries this lease's token.
Delete(c) ==
    /\ pc[c] = "unlocking"
    /\ pc' = [pc EXCEPT ![c] = "done"]
    /\ key' = IF Deletable(c) THEN None ELSE key
    /\ ttl' = IF Deletable(c) THEN 0 ELSE ttl
    /\ UNCHANGED <<stop, ren, timer, lag, faulty, extra>>

\* The call fails and is not retried.
DeleteFails(c) ==
    /\ pc[c] = "unlocking"
    /\ pc' = [pc EXCEPT ![c] = "done"]
    /\ UNCHANGED <<key, ttl, stop, ren, timer, lag, faulty, extra>>

-----------------------------------------------------------------------------
(* The surroundings                                                         *)

\* The process dies with its guard and its renewal task.
Crash(c) ==
    /\ pc[c] \in {"waiting", "granted", "held", "releasing", "unlocking"}
    /\ pc' = [pc EXCEPT ![c] = "dead"]
    /\ RenewEnds(c)
    /\ UNCHANGED <<key, ttl, stop, faulty, extra>>

Late(c) ==
    \/ pc[c] = "granted"
    \/ ren[c] = "attempt"
    \/ ren[c] = "sleep" /\ timer[c] = 0

\* A tick: Redis drops a key whose TTL has run out; a task that is late by more
\* than MaxLag is at fault.
Tick ==
    /\ key' = IF ttl = 1 THEN None ELSE key
    /\ ttl' = IF ttl = 0 THEN 0 ELSE ttl - 1
    /\ timer' = [c \in Calls |-> IF ren[c] = "sleep" /\ timer[c] > 0 THEN timer[c] - 1 ELSE timer[c]]
    /\ lag' = [c \in Calls |-> IF Late(c) /\ lag[c] < MaxLag THEN lag[c] + 1 ELSE lag[c]]
    /\ faulty' = [c \in Calls |-> faulty[c] \/ (Late(c) /\ lag[c] = MaxLag)]
    /\ UNCHANGED <<pc, stop, ren, extra>>

\* The steps of the lock itself; what a call does before and while it holds the
\* lock belongs to the caller.
LockStep(c) ==
    \/ SetApplied(c, "granted") \/ SetApplied(c, "failed") \/ SetFails(c) \/ Acquired(c)
    \/ RenewWake(c) \/ Renew(c) \/ RenewFails(c)
    \/ StopRenewer(c) \/ Delete(c) \/ DeleteFails(c)

-----------------------------------------------------------------------------
(* Properties                                                               *)

LockTypeOK ==
    /\ key \in Calls \cup {None} /\ ttl \in 0..TTL
    /\ pc \in [Calls -> {"idle", "waiting", "granted", "held", "releasing", "unlocking",
                         "done", "failed", "dead"}]
    /\ stop \in [Calls -> BOOLEAN]
    /\ ren \in [Calls -> {"off", "sleep", "attempt"}]
    /\ timer \in [Calls -> 0..(TTL \div 2)]
    /\ lag \in [Calls -> 0..MaxLag]
    /\ faulty \in [Calls -> BOOLEAN]
    /\ extra \in [Calls -> 0..2]

\* Two guards are out at the same time only if a renewal of one of them failed
\* or came too late: the first renewal, half a TTL after the grant, and every
\* later one reaches Redis before the key expires, and nobody else's unlock or
\* renewal frees it.
OverlapNeedsFault ==
    \A c, d \in Calls :
        c # d /\ pc[c] = "held" /\ pc[d] = "held" => faulty[c] \/ faulty[d]

\* A key leaves its owner only by expiring or through the owner's own unlock,
\* whatever late renewals and unlocks of other leases are still running.
NoForeignRelease ==
    [][\A c \in Calls : key = c /\ key' # c => ttl = 1 \/ pc[c] = "unlocking"]_lockVars

\* A renewer outlives its guard by at most one refresh, also when the
\* notification is lost and the delete fails: the key of a lease that was given
\* up is free again after one more TTL.
OneRefreshAfterStop == \A c \in Calls : extra[c] <= 1

\* Both: a live holder keeps the key, and one that is gone gives it up.
LeaseDiscipline == OverlapNeedsFault /\ OneRefreshAfterStop
=============================================================================
