------------------------- MODULE SigningKeys_proofs -------------------------
(***************************************************************************)
(* Proofs about RedLock and SigningKeys, for any set of calls, any TTL and  *)
(* any admissible lag.  The lock's invariant has two parts: what the        *)
(* renewal task of a lease may still do (Renewer) and how much of the TTL   *)
(* is left while a lease without a fault is out (Lease).  The Vault         *)
(* secrets need the order of the writes (Secrets) and, for the history, the *)
(* mutual exclusion that the lock's invariant gives (History).              *)
(***************************************************************************)
EXTENDS SigningKeys, TLAPS

\* Where the renewal task of call c can be, and how often it refreshed the TTL
\* after the flag.
Renewer(c) ==
    /\ stop[c] => pc[c] \in {"unlocking", "done", "dead"}
    /\ ren[c] # "off" => pc[c] \in {"held", "releasing", "unlocking", "done"}
    /\ ren[c] = "attempt" => timer[c] = 0
    /\ ~stop[c] \/ ren[c] = "attempt" => extra[c] = 0
    /\ extra[c] <= 1

\* A call whose renewals are in time has the key, and what is left of the TTL
\* lasts until its next renewal and MaxLag more.
Lease(c) ==
    ~faulty[c] =>
        /\ pc[c] = "granted" => key = c /\ TTL <= ttl + lag[c]
        /\ pc[c] \in {"held", "releasing"} =>
              /\ key = c /\ ren[c] # "off"
              /\ TTL + timer[c] <= ttl + Half + MaxLag + lag[c]

LockInv == LockTypeOK /\ \A c \in Calls : Renewer(c) /\ Lease(c)

-----------------------------------------------------------------------------
(* The lock                                                                 *)

LEMMA HalfTyped == Half \in Nat /\ Half = TTL \div 2 /\ Half <= TTL
  BY RedLockAssumption DEF Half

LEMMA Slack == TTL \in Nat /\ MaxLag \in Nat /\ MaxLag + Half + MaxLag < TTL
  BY RedLockAssumption DEF Half

\* A call begins to wait for the lock, or is over.
Arrives(c) ==
    /\ pc[c] = "idle"
    /\ \E s \in {"waiting", "done"} : pc' = [pc EXCEPT ![c] = s]
    /\ UNCHANGED <<key, ttl, stop, ren, timer, lag, faulty, extra>>

\* What a step of the whole specification does to the lock.
LEMMA LockView ==
  ASSUME [Next]_vars
  PROVE  \/ UNCHANGED lockVars
         \/ Tick
         \/ \E c \in Calls : Arrives(c) \/ LockStep(c) \/ Release(c) \/ Crash(c)
  <1>1. CASE UNCHANGED vars BY <1>1 DEF vars
  <1>2. CASE Tick BY <1>2
  <1>3. ASSUME NEW c \in Calls, EnsureKey(c) PROVE Arrives(c)
    BY <1>3 DEF EnsureKey, Arrives
  <1>4. ASSUME NEW c \in Calls, RotateKey(c) PROVE Arrives(c)
    BY <1>4 DEF RotateKey, Arrives
  <1>5. ASSUME NEW c \in Calls, Work(c) PROVE UNCHANGED lockVars \/ Release(c)
    BY <1>5 DEF Work, Check, WriteEntry, ReadIndex, WriteIndex, WritePointer, VaultFails, Unlock
  <1> QED BY <1>1, <1>2, <1>3, <1>4, <1>5 DEF Next, Lock

LEMMA LockTypeStep ==
  ASSUME LockTypeOK, [Next]_vars
  PROVE  LockTypeOK'
  <1> USE HalfTyped, RedLockAssumption DEF LockTypeOK
  <1>1. CASE UNCHANGED lockVars BY <1>1 DEF lockVars
  <1>2. CASE Tick
    <2>1. timer' \in [Calls -> 0..(TTL \div 2)] BY <1>2 DEF Tick
    <2>2. lag' \in [Calls -> 0..MaxLag] BY <1>2 DEF Tick
    <2>3. key' \in Calls \cup {None} /\ ttl' \in 0..TTL BY <1>2 DEF Tick
    <2>4. faulty' \in [Calls -> BOOLEAN] BY <1>2, Zenon DEF Tick
    <2> QED BY <1>2, <2>1, <2>2, <2>3, <2>4 DEF Tick
  <1>3. ASSUME NEW c \in Calls, Arrives(c) PROVE LockTypeOK' BY <1>3 DEF Arrives
  <1>4. ASSUME NEW c \in Calls, Release(c) PROVE LockTypeOK' BY <1>4 DEF Release
  <1>5. ASSUME NEW c \in Calls, Crash(c) PROVE LockTypeOK' BY <1>5 DEF Crash, RenewEnds
  <1>6. ASSUME NEW c \in Calls, LockStep(c) PROVE LockTypeOK'
    <2>1. CASE SetApplied(c, "granted") \/ SetApplied(c, "failed") BY <2>1 DEF SetApplied
    <2>2. CASE SetFails(c) BY <2>2 DEF SetFails
    <2>3. CASE Acquired(c) BY <2>3 DEF Acquired
    <2>4. CASE RenewWake(c) BY <2>4 DEF RenewWake, RenewEnds
    <2>5. CASE Renew(c) BY <2>5 DEF Renew, Refresh, Extended, SleepAgain, RenewEnds
    <2>6. CASE RenewFails(c) BY <2>6 DEF RenewFails, Refresh, Extended, SleepAgain
    <2>7. CASE StopRenewer(c) BY <2>7 DEF StopRenewer, RenewEnds
    <2>8. CASE Delete(c) BY <2>8 DEF Delete
    <2>9. CASE DeleteFails(c) BY <2>9 DEF DeleteFails
    <2> QED BY <1>6, <2>1, <2>2, <2>3, <2>4, <2>5, <2>6, <2>7, <2>8, <2>9 DEF LockStep
  <1> QED BY <1>1, <1>2, <1>3, <1>4, <1>5, <1>6, LockView

\* Every step of the lock but the tick concerns one call.
LEMMA OtherCalls ==
  ASSUME LockTypeOK, NEW c \in Calls, NEW d \in Calls, d # c,
         Arrives(c) \/ LockStep(c) \/ Release(c) \/ Crash(c)
  PROVE  /\ pc'[d] = pc[d] /\ stop'[d] = stop[d] /\ ren'[d] = ren[d]
         /\ timer'[d] = timer[d] /\ lag'[d] = lag[d]
         /\ faulty'[d] = faulty[d] /\ extra'[d] = extra[d]
  BY DEF LockTypeOK, Arrives, Release, Crash, RenewEnds, LockStep, SetApplied, SetFails, Acquired,
         RenewWake, Renew, RenewFails, Refresh, SleepAgain, StopRenewer, Delete, DeleteFails

LEMMA RenewerStep ==
  ASSUME LockInv, [Next]_vars, NEW d \in Calls
  PROVE  Renewer(d)'
  <1>0. Renewer(d) /\ LockTypeOK BY DEF LockInv
  <1> USE <1>0, RedLockAssumption, HalfTyped DEF LockTypeOK, Renewer
  <1>1. CASE UNCHANGED lockVars BY <1>1 DEF lockVars
  <1>2. CASE Tick BY <1>2 DEF Tick
  <1>3. ASSUME NEW c \in Calls, Arrives(c) \/ LockStep(c) \/ Release(c) \/ Crash(c), c # d
        PROVE  Renewer(d)'
    <2> HIDE DEF LockTypeOK
    <2> QED BY <1>3, OtherCalls
  <1>4. CASE Arrives(d) BY <1>4 DEF Arrives
  <1>5. CASE Release(d) BY <1>5 DEF Release
  <1>6. CASE Crash(d) BY <1>6 DEF Crash, RenewEnds
  <1>7. CASE LockStep(d)
    <2>1. CASE SetApplied(d, "granted") \/ SetApplied(d, "failed") BY <2>1 DEF SetApplied
    <2>2. CASE SetFails(d) BY <2>2 DEF SetFails
    <2>3. CASE Acquired(d) BY <2>3 DEF Acquired
    <2>4. CASE RenewWake(d) BY <2>4 DEF RenewWake, RenewEnds, FlagSet
    <2>5. CASE Renew(d) BY <2>5 DEF Renew, Refresh, SleepAgain, RenewEnds
    <2>6. CASE RenewFails(d) BY <2>6 DEF RenewFails, Refresh, SleepAgain
    <2>7. CASE StopRenewer(d) BY <2>7 DEF StopRenewer, RenewEnds
    <2>8. CASE Delete(d) BY <2>8 DEF Delete
    <2>9. CASE DeleteFails(d) BY <2>9 DEF DeleteFails
    <2> QED BY <1>7, <2>1, <2>2, <2>3, <2>4, <2>5, <2>6, <2>7, <2>8, <2>9 DEF LockStep
  <1> QED BY <1>1, <1>2, <1>3, <1>4, <1>5, <1>6, <1>7, LockView

\* A step of another call leaves the key of a lease that is out alone and never
\* shortens its TTL.
LEMMA KeyKept ==
  ASSUME LockTypeOK, NEW c \in Calls, NEW d \in Calls, d # c, key = d,
         Arrives(c) \/ LockStep(c) \/ Release(c) \/ Crash(c)
  PROVE  key' = d /\ ttl' = ttl
  BY RedLockAssumption
     DEF LockTypeOK, Arrives, Release, Crash, RenewEnds, LockStep, SetApplied, SetFails, Acquired,
         RenewWake, Renew, RenewFails, StillOwner, StopRenewer, Delete, DeleteFails, Deletable

LEMMA LeaseTick ==
  ASSUME LockInv, Tick, NEW d \in Calls
  PROVE  Lease(d)'
  <1>1. Renewer(d) /\ Lease(d) /\ LockTypeOK BY DEF LockInv
  <1>2. SUFFICES ASSUME ~faulty'[d] PROVE Lease(d)' BY DEF Lease
  <1>3. ~faulty[d] /\ ~(Late(d) /\ lag[d] = MaxLag)
    BY <1>2, <1>1, Zenon DEF Tick, LockTypeOK
  <1>4. /\ ttl \in Nat /\ lag[d] \in Nat /\ lag[d] <= MaxLag /\ timer[d] \in Nat
        /\ ren[d] \in {"off", "sleep", "attempt"}
    BY <1>1, HalfTyped, Slack DEF LockTypeOK
  <1>5. CASE pc[d] = "granted"
    <2>1. Late(d) /\ lag[d] < MaxLag BY <1>3, <1>4, <1>5, Slack DEF Late
    <2>2. key = d /\ TTL <= ttl + lag[d] BY <1>1, <1>3, <1>5 DEF Lease
    <2>3. ttl > 1 BY <2>1, <2>2, <1>4, Slack, HalfTyped
    <2>4. key' = d /\ ttl' = ttl - 1 /\ lag'[d] = lag[d] + 1 /\ pc' = pc
      BY <2>1, <2>2, <2>3 DEF Tick
    <2> QED BY <2>2, <2>4, <1>4, <1>5, Slack DEF Lease
  <1>6. CASE pc[d] \in {"held", "releasing"}
    <2>1. /\ key = d /\ ren[d] \in {"sleep", "attempt"}
          /\ TTL + timer[d] <= ttl + Half + MaxLag + lag[d]
      BY <1>1, <1>3, <1>4, <1>6 DEF Lease
    <2>2. CASE ren[d] = "sleep" /\ timer[d] > 0
      <3>1. ~Late(d) BY <2>2, <1>4, <1>6 DEF Late
      <3>2. ttl > 1 BY <2>1, <2>2, <1>4, Slack, HalfTyped
      <3>3. key' = d /\ ttl' = ttl - 1 /\ lag'[d] = lag[d] /\ timer'[d] = timer[d] - 1
            /\ pc' = pc /\ ren' = ren
        BY <2>1, <2>2, <3>1, <3>2 DEF Tick
      <3> QED BY <2>1, <3>2, <3>3, <1>4, <1>6, HalfTyped, Slack DEF Lease
    <2>3. CASE ~(ren[d] = "sleep" /\ timer[d] > 0)
      <3>1. timer[d] = 0 BY <2>1, <2>3, <1>1, <1>4 DEF Renewer
      <3>2. Late(d) /\ lag[d] < MaxLag BY <2>1, <3>1, <1>3, <1>4, Slack DEF Late
      <3>3. ttl > 1 BY <2>1, <3>1, <3>2, <1>4, Slack, HalfTyped
      <3>4. key' = d /\ ttl' = ttl - 1 /\ lag'[d] = lag[d] + 1 /\ timer'[d] = timer[d]
            /\ pc' = pc /\ ren' = ren
        BY <2>1, <2>3, <3>2, <3>3 DEF Tick
      <3> QED BY <2>1, <3>3, <3>4, <1>4, <1>6, HalfTyped, Slack DEF Lease
    <2> QED BY <2>2, <2>3
  <1> QED BY <1>5, <1>6 DEF Lease, Tick

LEMMA LeaseStep ==
  ASSUME LockInv, [Next]_vars, NEW d \in Calls
  PROVE  Lease(d)'
  <1>0. Renewer(d) /\ Lease(d) /\ LockTypeOK BY DEF LockInv
  <1>1. CASE UNCHANGED lockVars BY <1>0, <1>1 DEF lockVars, Lease
  <1>2. CASE Tick BY <1>2, LeaseTick
  <1>3. ASSUME NEW c \in Calls, Arrives(c) \/ LockStep(c) \/ Release(c) \/ Crash(c), c # d
        PROVE  Lease(d)'
    BY <1>0, <1>3, OtherCalls, KeyKept DEF Lease
  <1>4. CASE Arrives(d) BY <1>0, <1>4 DEF Arrives, Lease, LockTypeOK
  <1>5. CASE Release(d) BY <1>0, <1>5 DEF Release, Lease, LockTypeOK
  <1>6. CASE Crash(d) BY <1>0, <1>6 DEF Crash, Lease, LockTypeOK
  <1>7. CASE LockStep(d)
    <2> USE <1>0, HalfTyped, Slack DEF LockTypeOK, Lease
    <2>1. CASE SetApplied(d, "granted") \/ SetApplied(d, "failed") BY <2>1 DEF SetApplied
    <2>2. CASE SetFails(d) BY <2>2 DEF SetFails
    <2>3. CASE Acquired(d) BY <2>3 DEF Acquired
    <2>4. CASE RenewWake(d) BY <2>4 DEF RenewWake, RenewEnds, FlagSet, Renewer
    <2>5. CASE Renew(d)
      <3>1. CASE key = d
        BY <2>5, <3>1 DEF Renew, Refresh, Extended, SleepAgain, StillOwner, Renewer
      <3>2. CASE key # d
        BY <2>5, <3>2 DEF Renew, StillOwner, Renewer
      <3> QED BY <3>1, <3>2
    <2>6. CASE RenewFails(d) BY <2>6 DEF RenewFails
    <2>7. CASE StopRenewer(d) BY <2>7 DEF StopRenewer
    <2>8. CASE Delete(d) BY <2>8 DEF Delete
    <2>9. CASE DeleteFails(d) BY <2>9 DEF DeleteFails
    <2> QED BY <1>7, <2>1, <2>2, <2>3, <2>4, <2>5, <2>6, <2>7, <2>8, <2>9 DEF LockStep
  <1> QED BY <1>1, <1>2, <1>3, <1>4, <1>5, <1>6, <1>7, LockView

\* The lock's invariant holds at the start and is kept by every step.
LEMMA LockInvariant == Spec => []LockInv
  <1>1. Init => LockInv
    <2> SUFFICES ASSUME Init PROVE LockInv OBVIOUS
    <2>1. LockTypeOK BY RedLockAssumption, HalfTyped DEF Init, LockInit, LockTypeOK
    <2>2. ASSUME NEW c \in Calls PROVE Renewer(c) /\ Lease(c)
      BY DEF Init, LockInit, Renewer, Lease
    <2> QED BY <2>1, <2>2 DEF LockInv
  <1>2. LockInv /\ [Next]_vars => LockInv'
    <2> SUFFICES ASSUME LockInv, [Next]_vars PROVE LockInv' OBVIOUS
    <2>1. LockTypeOK' BY LockTypeStep DEF LockInv
    <2>2. ASSUME NEW c \in Calls PROVE Renewer(c)' /\ Lease(c)' BY RenewerStep, LeaseStep
    <2> QED BY <2>1, <2>2 DEF LockInv
  <1> QED BY <1>1, <1>2, PTL DEF Spec

\* Two leases are never out together unless a renewal of one of them failed or
\* was later than MaxLag, and a renewer outlives its guard by at most one refresh.
THEOREM LeasesAreDisciplined == Spec => []LeaseDiscipline
  <1>1. LockInv => LeaseDiscipline
    BY DEF LockInv, Lease, Renewer, LeaseDiscipline, OverlapNeedsFault, OneRefreshAfterStop
  <1> QED BY <1>1, LockInvariant, PTL

\* No step frees the key of a lease but its expiry and its own unlock: late
\* renewals and unlocks of other leases compare their token.
THEOREM NoForeignReleases == Spec => NoForeignRelease
  <1> DEFINE Kept == \A c \in Calls : key = c /\ key' # c => ttl = 1 \/ pc[c] = "unlocking"
  <1>1. LockInv /\ [Next]_vars => [Kept]_lockVars
    <2> SUFFICES ASSUME LockInv, [Next]_vars, NEW d \in Calls, key = d, key' # d
                 PROVE  ttl = 1 \/ pc[d] = "unlocking"
      BY DEF lockVars
    <2>0. LockTypeOK BY DEF LockInv
    <2>1. CASE UNCHANGED lockVars BY <2>1 DEF lockVars
    <2>2. CASE Tick BY <2>2 DEF Tick
    <2>3. ASSUME NEW c \in Calls, Arrives(c) \/ LockStep(c) \/ Release(c) \/ Crash(c)
          PROVE  pc[d] = "unlocking"
      <3>1. c = d BY <2>0, <2>3, KeyKept
      <3> QED BY <2>3, <3>1, RedLockAssumption
          DEF Arrives, Release, Crash, LockStep, SetApplied, SetFails, Acquired, RenewWake,
              Renew, RenewFails, StopRenewer, Delete, DeleteFails
    <2> QED BY <2>1, <2>2, <2>3, LockView
  <1>2. Spec => [][Kept]_lockVars BY <1>1, LockInvariant, PTL DEF Spec
  <1> QED BY <1>2 DEF NoForeignRelease

-----------------------------------------------------------------------------
(* The Vault secrets                                                        *)

\* Call c has written its entry before the index and the pointer can name it,
\* and what it read from the index has entries too.
Secrets ==
    /\ KeysResolve
    /\ \A c \in Calls : /\ seen[c] \subseteq entries
                        /\ step[c] \in {"read", "append", "point"} => c \in entries

\* While the lock excludes, the call inside it knows the index as it is, and one
\* that ensures found no key and still finds none; the pointer moves from None
\* once and for all.
Inside(c) ==
    pc[c] = "held" =>
        /\ step[c] = "append" => seen[c] = index
        /\ step[c] = "point" => c \in index
        /\ step[c] \in {"entry", "read", "append", "point"} /\ c \notin rotators => active = None
History ==
    (\A c \in Calls : ~faulty[c]) =>
        /\ everActive \subseteq index
        /\ active = None => inits = {}
        /\ \A c, d \in inits : c = d
        /\ \A c \in Calls : Inside(c)

Inv == LockInv /\ TypeOK /\ Secrets /\ History

LEMMA TypeStep ==
  ASSUME TypeOK, [Next]_vars
  PROVE  TypeOK'
  <1>0. LockTypeOK' BY LockTypeStep DEF TypeOK
  <1> USE <1>0 DEF TypeOK
  <1>1. CASE UNCHANGED vars BY <1>1 DEF vars, keyVars
  <1>2. CASE Tick /\ UNCHANGED keyVars BY <1>2 DEF keyVars
  <1>3. ASSUME NEW c \in Calls, EnsureKey(c) PROVE TypeOK' BY <1>3 DEF EnsureKey, keyVars
  <1>4. ASSUME NEW c \in Calls, RotateKey(c) PROVE TypeOK' BY <1>4 DEF RotateKey
  <1>5. ASSUME NEW c \in Calls, Lock(c) PROVE TypeOK' BY <1>5 DEF Lock, After
  <1>6. ASSUME NEW c \in Calls, Crash(c) /\ UNCHANGED keyVars PROVE TypeOK' BY <1>6 DEF keyVars
  <1>7. ASSUME NEW c \in Calls, Work(c) PROVE TypeOK'
    <2>1. CASE Check(c) BY <2>1 DEF Check, Goto, After
    <2>2. CASE WriteEntry(c) BY <2>2 DEF WriteEntry, Goto, After
    <2>3. CASE ReadIndex(c) BY <2>3 DEF ReadIndex, Goto, After
    <2>4. CASE WriteIndex(c) BY <2>4 DEF WriteIndex, Appended, Goto, After
    <2>5. CASE WritePointer(c) BY <2>5 DEF WritePointer, Goto, After
    <2>6. CASE VaultFails(c) BY <2>6 DEF VaultFails, Goto
    <2>7. CASE Unlock(c) BY <2>7 DEF Unlock, keyVars
    <2> QED BY <1>7, <2>1, <2>2, <2>3, <2>4, <2>5, <2>6, <2>7 DEF Work
  <1> QED BY <1>1, <1>2, <1>3, <1>4, <1>5, <1>6, <1>7 DEF Next

LEMMA SecretsStep ==
  ASSUME TypeOK, Secrets, [Next]_vars
  PROVE  Secrets'
  <1> USE RedLockAssumption DEF TypeOK, Secrets, KeysResolve
  <1>1. CASE UNCHANGED vars BY <1>1 DEF vars, keyVars
  <1>2. CASE Tick /\ UNCHANGED keyVars BY <1>2 DEF keyVars
  <1>3. ASSUME NEW c \in Calls, EnsureKey(c) PROVE Secrets' BY <1>3 DEF EnsureKey, keyVars
  <1>4. ASSUME NEW c \in Calls, RotateKey(c) PROVE Secrets' BY <1>4 DEF RotateKey
  <1>5. ASSUME NEW c \in Calls, Lock(c) PROVE Secrets' BY <1>5 DEF Lock, After
  <1>6. ASSUME NEW c \in Calls, Crash(c) /\ UNCHANGED keyVars PROVE Secrets' BY <1>6 DEF keyVars
  <1>7. ASSUME NEW c \in Calls, Work(c) PROVE Secrets'
    <2>1. CASE Check(c) BY <2>1 DEF Check, Goto, After
    <2>2. CASE WriteEntry(c) BY <2>2 DEF WriteEntry, Goto, After
    <2>3. CASE ReadIndex(c) BY <2>3 DEF ReadIndex, Held, Goto, After
    <2>4. CASE WriteIndex(c) BY <2>4 DEF WriteIndex, Held, Appended, Goto, After
    <2>5. CASE WritePointer(c) BY <2>5 DEF WritePointer, Held, Goto, After
    <2>6. CASE VaultFails(c) BY <2>6 DEF VaultFails, Goto
    <2>7. CASE Unlock(c) BY <2>7 DEF Unlock, keyVars
    <2> QED BY <1>7, <2>1, <2>2, <2>3, <2>4, <2>5, <2>6, <2>7 DEF Work
  <1> QED BY <1>1, <1>2, <1>3, <1>4, <1>5, <1>6, <1>7 DEF Next

\* A fault is never taken back.
LEMMA FaultsStay ==
  ASSUME LockTypeOK, [Next]_vars, NEW c \in Calls, faulty[c]
  PROVE  faulty'[c]
  <1>1. CASE UNCHANGED lockVars BY <1>1 DEF lockVars
  <1>2. CASE Tick BY <1>2 DEF Tick
  <1>3. ASSUME NEW d \in Calls, Arrives(d) \/ LockStep(d) \/ Release(d) \/ Crash(d)
        PROVE  faulty'[c]
    BY <1>3 DEF LockTypeOK, Arrives, Release, Crash, LockStep, SetApplied, SetFails, Acquired,
         RenewWake, Renew, RenewFails, StopRenewer, Delete, DeleteFails
  <1> QED BY <1>1, <1>2, <1>3, LockView

LEMMA HistoryStep ==
  ASSUME LockInv, TypeOK, History, [Next]_vars
  PROVE  History'
  <1>1. SUFFICES ASSUME \A c \in Calls : ~faulty'[c] PROVE History' BY DEF History
  <1>2. /\ everActive \subseteq index
        /\ active = None => inits = {}
        /\ \A c, d \in inits : c = d
        /\ \A c \in Calls : Inside(c)
    BY <1>1, FaultsStay DEF History, LockInv
  <1>3. \A c, d \in Calls : pc[c] = "held" /\ pc[d] = "held" => c = d
    BY <1>1, FaultsStay DEF LockInv, Lease
  <1> USE <1>2, RedLockAssumption DEF TypeOK, LockTypeOK, History, Inside
  <1>4. CASE UNCHANGED vars BY <1>4 DEF vars, keyVars, lockVars
  <1>5. CASE Tick /\ UNCHANGED keyVars BY <1>5 DEF keyVars, Tick
  <1>6. ASSUME NEW c \in Calls, EnsureKey(c) PROVE History' BY <1>6 DEF EnsureKey, keyVars
  <1>7. ASSUME NEW c \in Calls, RotateKey(c) PROVE History' BY <1>7 DEF RotateKey
  <1>8. ASSUME NEW c \in Calls, Lock(c) PROVE History'
    <2>1. ASSUME NEW d \in Calls, pc'[d] = "held"
          PROVE  /\ pc[d] = "held" \/ (d = c /\ pc[c] = "granted")
                 /\ step'[d] = IF pc[d] = "held" THEN step[d]
                               ELSE IF d \in rotators THEN "entry" ELSE "check"
      BY <1>8, <2>1 DEF Lock, After, LockStep, SetApplied, SetFails, Acquired,
         RenewWake, Renew, RenewFails, StopRenewer, Delete, DeleteFails
    <2> QED BY <1>8, <2>1 DEF Lock
  <1>9. ASSUME NEW c \in Calls, Crash(c) /\ UNCHANGED keyVars PROVE History'
    BY <1>9 DEF keyVars, Crash
  <1>10. ASSUME NEW c \in Calls, Work(c) PROVE History'
    <2>1. CASE Check(c) BY <2>1 DEF Check, Held, Goto, After, MustInit, lockVars
    <2>2. CASE WriteEntry(c) BY <2>2 DEF WriteEntry, Held, Goto, After, lockVars
    <2>3. CASE ReadIndex(c) BY <2>3 DEF ReadIndex, Held, Goto, After, lockVars
    <2>4. CASE WriteIndex(c) BY <2>4, <1>3 DEF WriteIndex, Held, Appended, Goto, After, lockVars
    <2>5. CASE WritePointer(c) BY <2>5, <1>3 DEF WritePointer, Held, Goto, After, lockVars
    <2>6. CASE VaultFails(c) BY <2>6 DEF VaultFails, Goto, lockVars
    <2>7. CASE Unlock(c) BY <2>7 DEF Unlock, Release, keyVars
    <2> QED BY <1>10, <2>1, <2>2, <2>3, <2>4, <2>5, <2>6, <2>7 DEF Work
  <1> QED BY <1>4, <1>5, <1>6, <1>7, <1>8, <1>9, <1>10 DEF Next

\* The inductive invariant of the lock and the secrets holds in every reachable
\* state of any number of ensure and rotate calls.
THEOREM Invariance == Spec => []Inv
  <1>1. Init => TypeOK /\ Secrets /\ History
    <2> SUFFICES ASSUME Init PROVE TypeOK /\ Secrets /\ History OBVIOUS
    <2>1. LockTypeOK BY RedLockAssumption, HalfTyped DEF Init, LockInit, LockTypeOK
    <2>2. TypeOK BY <2>1 DEF Init, TypeOK
    <2>3. Secrets BY DEF Init, Secrets, KeysResolve
    <2>4. History BY DEF Init, LockInit, History, Inside
    <2> QED BY <2>2, <2>3, <2>4
  <1>2. LockInv /\ (TypeOK /\ Secrets /\ History) /\ [Next]_vars => (TypeOK /\ Secrets /\ History)'
    BY TypeStep, SecretsStep, HistoryStep
  <1> QED BY <1>1, <1>2, LockInvariant, PTL DEF Spec, Inv

\* Every variable of the lock and of the secrets keeps its type.
THEOREM TypeCorrect == Spec => []TypeOK
  <1>1. Inv => TypeOK BY DEF Inv
  <1> QED BY <1>1, Invariance, PTL

\* The pointer and the index only name keys whose entry was written, whatever
\* fails or overlaps.
THEOREM KeysAlwaysResolve == Spec => []KeysResolve
  <1>1. Inv => KeysResolve BY DEF Inv, Secrets
  <1> QED BY <1>1, Invariance, PTL

\* Unless a renewal was at fault, no key that was ever active leaves the index
\* and at most one call initialises.
THEOREM HistoryIsKept == Spec => []HistoryKept
  <1>1. Inv => HistoryKept BY DEF Inv, History, HistoryKept
  <1> QED BY <1>1, Invariance, PTL
=============================================================================
