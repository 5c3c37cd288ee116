------------------------------ MODULE StorageKey ------------------------------
(***************************************************************************)
(* The application's storage key, that every process of the program makes  *)
(* or loads when it starts (get_or_create_storage_key in security.py).  It *)
(* is made once: whoever loses it loses the encrypted stores.  Processes   *)
(* exclude each other by a lock file that is created exclusively; they     *)
(* may die with it.                                                        *)
(*                                                                         *)
(* A key is a number, the order in which keys are made; 0 is none.         *)
(***************************************************************************)
EXTENDS Naturals

CONSTANTS
  Processes,   \* processes of the program that start
  Free,        \* no process: the lock file is not there
  MaxDeaths    \* bound on the processes that die (of the model)

ASSUME StorageKeyAssumption == Free \notin Processes /\ MaxDeaths \in Nat

VARIABLES
  starting,   \* where each process is, and the key it has
  keyFile,    \* the key in storage.key.json
  keyLock,    \* the process that created storage.key.create.lock
  keysMade,   \* keys generated
  deaths      \* processes that died

keyVars == <<starting, keyFile, keyLock, keysMade, deaths>>

Creating == {"again", "write", "release"}

KeyInit ==
  /\ starting = [p \in Processes |-> [pc |-> "look", key |-> 0]]
  /\ keyFile = 0 /\ keyLock = Free /\ keysMade = 0 /\ deaths = 0

At(p, pc) == starting[p].pc = pc
Goes(p, pc) == starting' = [starting EXCEPT ![p].pc = pc]
KeyFileKept == UNCHANGED <<keyFile, keyLock, keysMade, deaths>>

\* key_path.exists(), before the lock and in each round of the wait for it.
LookForKey(p) ==
  /\ At(p, "look")
  /\ Goes(p, IF keyFile # 0 THEN "load" ELSE "acquire")
  /\ KeyFileKept

\* os.open with O_EXCL: the process has the lock, or waits for another round, or
\* runs into the deadline and leaves the lock in place.
Acquire(p) ==
  /\ At(p, "acquire")
  /\ \/ keyLock = Free /\ keyLock' = p /\ Goes(p, "again")
     \/ keyLock # Free /\ UNCHANGED keyLock /\ \E pc \in {"look", "failed"} : Goes(p, pc)
  /\ UNCHANGED <<keyFile, keysMade, deaths>>

\* The lock file cannot be written: it is removed.
LockUnwritten(p) ==
  /\ At(p, "again")
  /\ keyLock' = Free /\ Goes(p, "failed")
  /\ UNCHANGED <<keyFile, keysMade, deaths>>

\* Another process may have made the key between the look and the lock.
\* (LookNoMore trusts the first look.)
LookNoMore(p) == At(p, "again") /\ Goes(p, "write") /\ KeyFileKept
LookAgain(p) ==
  /\ At(p, "again")
  /\ \/ starting' = [starting EXCEPT ![p] =
            IF keyFile # 0 THEN [pc |-> "release", key |-> keyFile]
            ELSE [@ EXCEPT !.pc = "write"]]
     \/ keyFile # 0 /\ Goes(p, "release")   \* it cannot be read
  /\ KeyFileKept

\* A key is generated, protected and written, by a rename; before the rename or
\* after it that may raise.
WriteKey(p) ==
  /\ At(p, "write")
  /\ \/ /\ keysMade' = keysMade + 1 /\ keyFile' = keysMade'
        /\ \E key \in {0, keysMade'} :
             starting' = [starting EXCEPT ![p] = [pc |-> "release", key |-> key]]
     \/ Goes(p, "release") /\ UNCHANGED <<keyFile, keysMade>>
  /\ UNCHANGED <<keyLock, deaths>>

\* The finally clause, after a failure too.
Release(p) ==
  /\ At(p, "release")
  /\ keyLock' = Free
  /\ Goes(p, IF starting[p].key # 0 THEN "ready" ELSE "failed")
  /\ UNCHANGED <<keyFile, keysMade, deaths>>

\* _load_storage_key. A key that cannot be read is never replaced.
LoadKey(p) ==
  /\ At(p, "load")
  /\ \/ starting' = [starting EXCEPT ![p] = [pc |-> "ready", key |-> keyFile]]
     \/ Goes(p, "failed")
  /\ KeyFileKept

\* The program is started again after a failure; or a process dies, at any point,
\* and is started again.
StartAgain(p) == At(p, "failed") /\ Goes(p, "look") /\ KeyFileKept
DiesWithKey(p) ==
  /\ deaths < MaxDeaths
  /\ starting' = [starting EXCEPT ![p] = [pc |-> "look", key |-> 0]]
  /\ deaths' = deaths + 1
  /\ UNCHANGED <<keyFile, keyLock, keysMade>>

KeyNext ==
  \E p \in Processes :
    \/ LookForKey(p) \/ Acquire(p) \/ LockUnwritten(p) \/ LookAgain(p)
    \/ WriteKey(p) \/ Release(p) \/ LoadKey(p) \/ StartAgain(p) \/ DiesWithKey(p)

KeySpec == KeyInit /\ [][KeyNext]_keyVars

-----------------------------------------------------------------------------
(* Properties *)

\* Every process that goes on with a key has the key that is in the file.
OneKey == \A p \in Processes : starting[p].key # 0 => starting[p].key = keyFile

\* The key, once it is written, is never replaced: not by a process that looked
\* before it was there, nor after any process died.
KeyIsKept == [][keyFile # 0 => UNCHANGED keyFile]_keyVars

\* Unless a process dies, the lock file is there only as long as one process is
\* making the key: a start that fails does not keep the next from trying.
LockHasOwner ==
  keyLock # Free =>
    \/ starting[keyLock].pc \in Creating
    \/ deaths > 0

=============================================================================
