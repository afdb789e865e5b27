--------------------------- MODULE InsertExecutor ---------------------------
(***************************************************************************)
(* InsertExecutor (src/execution/insert_executor.cpp) composed with the    *)
(* row lock manager.  The LockManager module is instantiated over this     *)
(* module's variables, so a lock call of the executor is the lock          *)
(* manager's own pair of steps (checks, then the latched part and its      *)
(* waits) on the rid the executor has just inserted.  Other transactions   *)
(* scan the table: they take shared locks on the tuples the table heap     *)
(* holds, through the same lock manager.  Each raw value is one Next:      *)
(* insert the tuple into the table heap, lock its rid exclusive, insert    *)
(* the index entries, unlock unless REPEATABLE_READ, and recurse.  The     *)
(* table heap, the scan and TransactionManager's rollback are not under    *)
(* src/; they are modelled from the spec.                                  *)
(***************************************************************************)
EXTENDS Naturals, FiniteSets

CONSTANTS
    Txns, Rids, Iso, MaxOps, Disciplined,   \* as in LockManager
    Role,       \* Role[t]: "insert" (runs an InsertExecutor) or "scan"
    NTuples     \* raw values each InsertExecutor inserts

VARIABLES
    state, shared, exclusive, queue, pc, req, signalled, ops,  \* LockManager
    heap,       \* the rids whose tuples the table heap holds
    writer,     \* writer[r]: the transaction that inserted the tuple at r
    epc,        \* where each transaction's executor is
    iter,       \* iter_: raw values inserted so far
    cur         \* *rid: the rid of the tuple being inserted

lmvars == <<state, shared, exclusive, queue, pc, req, signalled, ops>>
exvars == <<heap, writer, epc, iter, cur>>
vars == <<lmvars, exvars>>

LM == INSTANCE LockManager

NoTxn == 0
NoRid == CHOOSE r \in Rids : TRUE

Init ==
    /\ LM!Init
    /\ heap = {}
    /\ writer = [r \in Rids |-> NoTxn]
    /\ epc = [t \in Txns |-> IF Role[t] = "insert" THEN "next" ELSE "scan"]
    /\ iter = [t \in Txns |-> 0]
    /\ cur = [t \in Txns |-> NoRid]

-----------------------------------------------------------------------------
(* InsertExecutor::Next                                                    *)

\* Slots of the table heap never used; InsertTuple fails when none is left.
FreeRids == {r \in Rids : writer[r] = NoTxn}

(* Lines 36-57.  With the raw values exhausted, or InsertTuple failing,    *)
(* Next returns false.  Otherwise the tuple goes into the table heap,      *)
(* where every scan sees it, before any lock on its rid is asked for.      *)
NextTuple(t) ==
    /\ epc[t] = "next"
    /\ pc[t] = "run"
    /\ IF iter[t] = NTuples \/ FreeRids = {}
       THEN /\ epc' = [epc EXCEPT ![t] = "end"]
            /\ UNCHANGED <<heap, writer, iter, cur>>
       ELSE \E r \in FreeRids :
              /\ heap' = heap \cup {r}
              /\ writer' = [writer EXCEPT ![r] = t]
              /\ cur' = [cur EXCEPT ![t] = r]
              /\ iter' = [iter EXCEPT ![t] = @ + 1]
              /\ epc' = [epc EXCEPT ![t] = "lock"]
    /\ UNCHANGED lmvars

(* Lines 60-71: LockUpgrade when the rid is held shared, LockExclusive     *)
(* otherwise.  A call that returns false at once (CheckAbort, or the state *)
(* check, which sets ABORTED) makes Next throw; a call that takes latch_   *)
(* returns later, in LockReturn.                                           *)
LockRid(t) ==
    LET r == cur[t] IN
    /\ epc[t] = "lock"
    /\ \/ /\ state[t] = "ABORTED"
          /\ epc' = [epc EXCEPT ![t] = "throw"]
          /\ UNCHANGED lmvars
       \/ /\ IF r \in shared[t] THEN LM!LockUpgrade(t, r) ELSE LM!LockExclusive(t, r)
          /\ epc' = [epc EXCEPT ![t] = IF pc'[t] = "latch" THEN "locking" ELSE "throw"]
    /\ UNCHANGED <<heap, writer, iter, cur>>

(* The latched part of a lock call, and its wakeups, for any transaction.  *)
(* When the executor's call returns, true (granted) goes on to the index,  *)
(* false (woken ABORTED) throws.                                           *)
LockReturn(t) ==
    /\ LM!Enqueue(t) \/ LM!UpgradeLatched(t) \/ LM!Wake(t)
    /\ epc' = [epc EXCEPT ![t] =
                 IF @ = "locking" /\ pc'[t] = "run"
                 THEN IF state'[t] = "ABORTED" THEN "throw" ELSE "index"
                 ELSE @]
    /\ UNCHANGED <<heap, writer, iter, cur>>

(* Lines 73-87.  The index entries are inserted (InsertEntry returns       *)
(* nothing, so a refused insert goes unnoticed); then, unless the          *)
(* isolation is REPEATABLE_READ, the rid is unlocked, an Unlock returning  *)
(* false throwing; then Next recurses for the next raw value.              *)
IndexAndUnlock(t) ==
    LET r == cur[t] IN
    /\ epc[t] = "index"
    /\ pc[t] = "run"
    /\ \/ /\ Iso[t] = LM!RR
          /\ epc' = [epc EXCEPT ![t] = "next"]
          /\ UNCHANGED lmvars
       \/ /\ Iso[t] # LM!RR
          /\ LM!UnlockCall(t, r)
          /\ epc' = [epc EXCEPT ![t] = "next"]
       \/ /\ Iso[t] # LM!RR
          /\ ~(LM!Holds(t, r) /\ LM!FirstOf(queue[r], t) > 0)
          /\ epc' = [epc EXCEPT ![t] = "throw"]
          /\ UNCHANGED lmvars
    /\ UNCHANGED <<heap, writer, iter, cur>>

-----------------------------------------------------------------------------
(* A scan (not under src/): it takes a shared lock on a tuple the table    *)
(* heap holds and reads it while the lock is held; under READ_COMMITTED it *)
(* unlocks a rid once read.                                                *)

ScanLock(t) ==
    /\ epc[t] = "scan"
    /\ \E r \in heap : LM!LockShared(t, r)
    /\ UNCHANGED exvars

ScanUnlock(t) ==
    /\ epc[t] = "scan"
    /\ Iso[t] = LM!RC
    /\ \E r \in shared[t] : LM!UnlockCall(t, r)
    /\ UNCHANGED exvars

-----------------------------------------------------------------------------
(* TransactionManager (not under src/).  A transaction whose executor      *)
(* returned false commits, unless it was wounded; one whose executor threw *)
(* aborts, and so may a scan.  Abort rolls back the table heap's write set *)
(* -- the tuples t inserted leave the heap -- before the locks are         *)
(* released (spec: protocol violations are resolved by abort and          *)
(* rollback).                                                              *)

Written(t) == {r \in Rids : writer[r] = t}

CommitTxn(t) ==
    /\ epc[t] \in {"end", "scan"}
    /\ LM!Commit(t)
    /\ epc' = [epc EXCEPT ![t] = "done"]
    /\ UNCHANGED <<heap, writer, iter, cur>>

AbortTxn(t) ==
    /\ epc[t] \in {"throw", "scan"} \/ (epc[t] = "end" /\ state[t] = "ABORTED")
    /\ LM!Abort(t)
    /\ heap' = heap \ Written(t)
    /\ epc' = [epc EXCEPT ![t] = "done"]
    /\ UNCHANGED <<writer, iter, cur>>

Release(t) ==
    /\ (\E r \in Rids : LM!ReleaseLock(t, r)) \/ LM!Released(t)
    /\ UNCHANGED exvars

-----------------------------------------------------------------------------
Next ==
    \E t \in Txns :
        \/ NextTuple(t) \/ LockRid(t) \/ LockReturn(t) \/ IndexAndUnlock(t)
        \/ ScanLock(t) \/ ScanUnlock(t)
        \/ CommitTxn(t) \/ AbortTxn(t) \/ Release(t)

Spec == Init /\ [][Next]_vars

-----------------------------------------------------------------------------
(* Properties                                                              *)

\* Spec 2 (data flow): executors consult the lock manager before mutating
\* tuples, so no transaction holds a shared lock on -- and reads -- a tuple
\* another transaction inserted and has not committed.  InsertExecutor
\* inserts into the table heap (line 54) before it locks the rid (63-71),
\* and under READ_COMMITTED unlocks it (81-85) before the commit.
NoDirtyRead ==
    \A t \in Txns, r \in heap :
        (r \in shared[t] /\ writer[r] # t) => state[writer[r]] = "COMMITTED"

=============================================================================
