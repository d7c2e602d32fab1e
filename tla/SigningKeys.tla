---------------------------- MODULE SigningKeys -----------------------------
(***************************************************************************)
(* The server signing keys of src/contract/vault/server_signing.rs under    *)
(* the RedLock: ensure_server_signing_key initialises the first key,        *)
(* rotate_server_signing_key adds a generation.  Both write three Vault     *)
(* secrets one after the other: the keyed entry, the index of all key ids   *)
(* and the pointer to the active one.  Replicas run them concurrently.      *)
(* A key is named by the call that generates it.                            *)
(***************************************************************************)
EXTENDS RedLock

VARIABLES
    rotators,       \* the calls that rotate; the others ensure
    step,           \* where a call is inside the lock
    entries,        \* server-signing/keys/<id>
    index,          \* server-signing/index
    active,         \* server-signing/active
    seen,           \* the index a call has read
    everActive,     \* the keys that were ever active: history only
    inits           \* the ensuring calls that moved the pointer: history only

keyVars == <<rotators, step, entries, index, active, seen, everActive, inits>>
vars == <<lockVars, keyVars>>

Init ==
    /\ LockInit
    /\ rotators = {}
    /\ step = [c \in Calls |-> "none"]
    /\ entries = {} /\ index = {} /\ active = None
    /\ seen = [c \in Calls |-> {}]
    /\ everActive = {} /\ inits = {}

\* An ensuring call returns the active key without the lock when there is one.
EnsureKey(c) ==
    /\ pc[c] = "idle"
    /\ pc' = [pc EXCEPT ![c] = IF active # None THEN "done" ELSE "waiting"]
    /\ UNCHANGED <<key, ttl, stop, ren, timer, lag, faulty, extra, keyVars>>

RotateKey(c) ==
    /\ pc[c] = "idle"
    /\ pc' = [pc EXCEPT ![c] = "waiting"]
    /\ rotators' = rotators \cup {c}
    /\ UNCHANGED <<key, ttl, stop, ren, timer, lag, faulty, extra,
                   step, entries, index, active, seen, everActive, inits>>

\* The order of the writes of persist_new_key_generation: the entry, the index
\* (read and appended to), the pointer.
After_Mutant == [start |-> "read", read |-> "append", append |-> "point", point |-> "entry", entry |-> "out"]
After == [start |-> "entry", entry |-> "read", read |-> "append", append |-> "point", point |-> "out"]

\* The lock's steps; the guard's holder starts with the pointer or, to rotate,
\* with the new key.
Lock(c) ==
    /\ LockStep(c)
    /\ step' = IF pc[c] = "granted" /\ pc'[c] = "held"
               THEN [step EXCEPT ![c] = IF c \in rotators THEN After.start ELSE "check"]
               ELSE step
    /\ UNCHANGED <<rotators, entries, index, active, seen, everActive, inits>>

Held(c, s) == pc[c] = "held" /\ step[c] = s
Goto(c, s) == step' = [step EXCEPT ![c] = s]

MustInit_Mutant == TRUE
MustInit == active = None

\* The pointer is read again inside the lock.
Check(c) ==
    /\ Held(c, "check")
    /\ Goto(c, IF MustInit THEN After.start ELSE "out")
    /\ UNCHANGED <<lockVars, rotators, entries, index, active, seen, everActive, inits>>

\* The three writes of persist_new_key_generation.
WriteEntry(c) ==
    /\ Held(c, "entry")
    /\ entries' = entries \cup {c}
    /\ Goto(c, After.entry)
    /\ UNCHANGED <<lockVars, rotators, index, active, seen, everActive, inits>>

ReadIndex(c) ==
    /\ Held(c, "read")
    /\ seen' = [seen EXCEPT ![c] = index]
    /\ Goto(c, After.read)
    /\ UNCHANGED <<lockVars, rotators, entries, index, active, everActive, inits>>

Appended_Mutant(c) == {c}
Appended(c) == seen[c] \cup {c}

WriteIndex(c) ==
    /\ Held(c, "append")
    /\ index' = Appended(c)
    /\ seen' = [seen EXCEPT ![c] = {}]
    /\ Goto(c, After.append)
    /\ UNCHANGED <<lockVars, rotators, entries, active, everActive, inits>>

WritePointer(c) ==
    /\ Held(c, "point")
    /\ active' = c
    /\ everActive' = everActive \cup {c}
    /\ inits' = IF c \in rotators THEN inits ELSE inits \cup {c}
    /\ Goto(c, After.point)
    /\ UNCHANGED <<lockVars, rotators, entries, index, seen>>

\* A Vault call fails: the error is kept until the guard is unlocked.
VaultFails(c) ==
    /\ pc[c] = "held" /\ step[c] \in {"check", "entry", "read", "append", "point"}
    /\ Goto(c, "out")
    /\ UNCHANGED <<lockVars, rotators, entries, index, active, seen, everActive, inits>>

Unlock(c) ==
    /\ step[c] = "out" /\ Release(c)
    /\ UNCHANGED keyVars

Work(c) ==
    \/ Check(c) \/ WriteEntry(c) \/ ReadIndex(c) \/ WriteIndex(c) \/ WritePointer(c)
    \/ VaultFails(c) \/ Unlock(c)

Next ==
    \/ \E c \in Calls :
          \/ EnsureKey(c) \/ RotateKey(c) \/ Lock(c) \/ Work(c)
          \/ Crash(c) /\ UNCHANGED keyVars
    \/ Tick /\ UNCHANGED keyVars

Spec == Init /\ [][Next]_vars

-----------------------------------------------------------------------------
(* Properties                                                               *)

\* The type invariant of the lock and of the Vault secrets.
TypeOK ==
    /\ LockTypeOK
    /\ rotators \subseteq Calls
    /\ step \in [Calls -> {"none", "check", "entry", "read", "append", "point", "out"}]
    /\ entries \subseteq Calls /\ index \subseteq Calls
    /\ active \in Calls \cup {None}
    /\ seen \in [Calls -> SUBSET Calls]
    /\ everActive \subseteq Calls /\ inits \subseteq Calls

\* The pointer and the index never name a key whose entry is missing, whatever
\* fails or overlaps: load_active and list_server_signing_public_keys never run
\* into their "missing" errors.
KeysResolve ==
    index \subseteq entries /\ (active # None => active \in entries)

\* Unless a renewal was at fault, every key that was ever active stays in the
\* index for the verifiers, and at most one call initialises the key: concurrent
\* initialisers agree on the winner's.
HistoryKept ==
    (\A c \in Calls : ~faulty[c]) =>
        /\ everActive \subseteq index
        /\ \A c, d \in inits : c = d
=============================================================================
