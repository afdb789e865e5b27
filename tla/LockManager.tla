---------------------------- MODULE LockManager ----------------------------
(***************************************************************************)
(* The row lock manager of src/concurrency/lock_manager.cpp, with one      *)
(* thread per transaction.  A lock call first checks the transaction's     *)
(* state without holding latch_ and then, under latch_, enqueues its       *)
(* request and loops on NeedWait, waiting on the queue's cv_ (which        *)
(* releases latch_).  So a call is two steps, and a wait is a third kind   *)
(* of step taken when the thread wakes: on a notify_all of that queue, or  *)
(* spuriously.  Wound-wait: NeedWait sets younger conflicting requesters   *)
(* ABORTED; the victims notice only at their next lock call or wakeup.     *)
(* TransactionManager (not under src/) commits or aborts a transaction and *)
(* then releases its locks through Unlock, one rid at a time.              *)
(***************************************************************************)
EXTENDS Naturals, Sequences, SequencesExt, FiniteSets

CONSTANTS
    Txns,        \* transaction ids: a smaller id is an older transaction
    Rids,        \* record ids
    Iso,         \* Iso[t]: the isolation level of t
    MaxOps,      \* bound: MaxOps[t] is the lock calls t makes
    Disciplined  \* TRUE: callers never ask for a second mode on a rid
                 \* they hold, except through LockUpgrade (insert_executor)

RU == "READ_UNCOMMITTED"
RC == "READ_COMMITTED"
RR == "REPEATABLE_READ"

VARIABLES
    state,       \* txn->GetState()
    shared,      \* txn->GetSharedLockSet()
    exclusive,   \* txn->GetExclusiveLockSet()
    queue,       \* lock_table_[rid].request_queue_
    pc,          \* where the thread of t is
    req,         \* the call t is in: [op, rid]
    signalled,   \* t was woken by a notify_all on the queue it waits on
    ops          \* lock calls t has made so far

vars == <<state, shared, exclusive, queue, pc, req, signalled, ops>>

Modes == {"SHARED", "EXCLUSIVE"}
Request == [txn : Txns, mode : Modes, granted : BOOLEAN]
States == {"GROWING", "SHRINKING", "COMMITTED", "ABORTED"}
Ops == {"LockShared", "LockExclusive", "LockUpgrade"}

\* req of a thread that is in no lock call.
NoCall == [op |-> "LockShared", rid |-> CHOOSE r \in Rids : TRUE]

Init ==
    /\ state = [t \in Txns |-> "GROWING"]
    /\ shared = [t \in Txns |-> {}]
    /\ exclusive = [t \in Txns |-> {}]
    /\ queue = [r \in Rids |-> <<>>]
    /\ pc = [t \in Txns |-> "run"]
    /\ req = [t \in Txns |-> NoCall]
    /\ signalled = [t \in Txns |-> FALSE]
    /\ ops = [t \in Txns |-> 0]

-----------------------------------------------------------------------------
(* Queue helpers                                                           *)

\* Position of t's first request in q (the loops stop there).
FirstOf(q, t) == SelectInSeq(q, LAMBDA e : e.txn = t)

\* The requests the NeedWait loops visit: those before t's first one.
Preds(q, t) == {q[i] : i \in 1..(FirstOf(q, t) - 1)}

\* The grant loop: every request of t in the queue is marked granted.
GrantAll(q, t) ==
    [i \in DOMAIN q |-> IF q[i].txn = t THEN [q[i] EXCEPT !.granted = TRUE]
                                        ELSE q[i]]

\* The threads blocked on the cv_ of rid r.
WaitersOn(r) == {u \in Txns : pc[u] = "wait" /\ req[u].rid = r}

\* Mutant: no wound; any conflicting request ahead makes t wait.
NeedWait_WaitForYounger(t, q) ==
    LET self == q[Len(q)]
        head == q[1]
        fast == IF self.mode = "SHARED"
                THEN head.txn = t \/ head.mode = "SHARED"
                ELSE head.txn = t
    IN IF fast THEN [wait |-> FALSE, wound |-> {}]
       ELSE [wait  |-> \E e \in Preds(q, t) :
                         self.mode = "EXCLUSIVE" \/ e.mode = "EXCLUSIVE",
             wound |-> {}]

(* NeedWait(txn, lock_queue), lines 191-242.  "self" is the request at the *)
(* back of the queue, whoever made it.  The fast path grants when the head *)
(* is self's transaction, or, for a shared self, when the head is shared.  *)
(* Otherwise every request before t's is visited: a younger one is wounded *)
(* (when self is exclusive, or it is exclusive), an older one makes t wait *)
(* (when self is exclusive, or it is exclusive).                           *)
NeedWait(t, q) ==
    LET self == q[Len(q)]
        head == q[1]
        fast == IF self.mode = "SHARED"
                THEN head.txn = t \/ head.mode = "SHARED"
                ELSE head.txn = t
        conflict(e) == self.mode = "EXCLUSIVE" \/ e.mode = "EXCLUSIVE"
    IN IF fast THEN [wait |-> FALSE, wound |-> {}]
       ELSE [wait  |-> \E e \in Preds(q, t) : e.txn < t /\ conflict(e),
             wound |-> {e.txn : e \in {e \in Preds(q, t) :
                                        e.txn > t /\ conflict(e)}}]

(* NeedWaitUpdate(txn, lock_queue), lines 245-270: every request before    *)
(* t's is visited; younger ones are wounded, an older one makes t wait.    *)
NeedWaitUpdate(t, q) ==
    [wait  |-> \E e \in Preds(q, t) : e.txn < t,
     wound |-> {e.txn : e \in {e \in Preds(q, t) : e.txn > t}}]

\* Wounding: the victims not already ABORTED become ABORTED.
Wounded(w) == {u \in w : state[u] # "ABORTED"}
StateAfterWound(w) == [u \in Txns |-> IF u \in w THEN "ABORTED" ELSE state[u]]

\* notify_all on rid r's cv_ when the loop aborted someone (has_aborted).
SignalAfterWound(w, r) ==
    IF Wounded(w) # {} THEN [u \in Txns |-> signalled[u] \/ u \in WaitersOn(r)]
                       ELSE signalled

-----------------------------------------------------------------------------
(* Lock calls: the checks made before latch_ is taken                      *)

Idle(t) == pc[t] = "run" /\ ops[t] < MaxOps[t]

Holds(t, r) == r \in shared[t] \cup exclusive[t]

\* The call returns false or throws after setting t ABORTED.
SelfAbort(t) ==
    /\ state' = [state EXCEPT ![t] = "ABORTED"]
    /\ ops' = [ops EXCEPT ![t] = @ + 1]
    /\ UNCHANGED <<shared, exclusive, queue, pc, req, signalled>>

\* The checks passed: the thread goes on to take latch_.
Proceed(t, op, r) ==
    /\ pc' = [pc EXCEPT ![t] = "latch"]
    /\ req' = [req EXCEPT ![t] = [op |-> op, rid |-> r]]
    /\ ops' = [ops EXCEPT ![t] = @ + 1]
    /\ UNCHANGED <<state, shared, exclusive, queue, signalled>>

\* Mutant: LockShared without the state != GROWING check.
LockShared_NoShrinkCheck(t, r) ==
    /\ Idle(t)
    /\ state[t] # "ABORTED"
    /\ \/ Iso[t] = RU /\ SelfAbort(t)
       \/ /\ Iso[t] # RU
          /\ r \notin shared[t]
          /\ Disciplined => ~Holds(t, r)
          /\ Proceed(t, "LockShared", r)

(* LockShared, lines 23-42.  CheckAbort and "already shared" return        *)
(* without changing anything (stuttering steps).                           *)
LockShared(t, r) ==
    /\ Idle(t)
    /\ state[t] # "ABORTED"
    /\ \/ Iso[t] = RU /\ SelfAbort(t)
       \/ Iso[t] # RU /\ state[t] # "GROWING" /\ SelfAbort(t)
       \/ /\ Iso[t] # RU /\ state[t] = "GROWING"
          /\ r \notin shared[t]
          /\ Disciplined => ~Holds(t, r)
          /\ Proceed(t, "LockShared", r)

(* LockExclusive, lines 72-83.                                             *)
LockExclusive(t, r) ==
    /\ Idle(t)
    /\ state[t] # "ABORTED"
    /\ \/ state[t] # "GROWING" /\ SelfAbort(t)
       \/ /\ state[t] = "GROWING"
          /\ r \notin exclusive[t]
          /\ Disciplined => ~Holds(t, r)
          /\ Proceed(t, "LockExclusive", r)

(* LockUpgrade, lines 114-125.  Its only caller, insert_executor.cpp:63-64,*)
(* calls it on a rid t holds shared.                                       *)
LockUpgrade(t, r) ==
    /\ Idle(t)
    /\ state[t] # "ABORTED"
    /\ r \in shared[t]
    /\ \/ state[t] # "GROWING" /\ SelfAbort(t)
       \/ /\ state[t] = "GROWING"
          /\ r \notin exclusive[t]
          /\ Proceed(t, "LockUpgrade", r)

-----------------------------------------------------------------------------
(* Under latch_: the NeedWait loop and the grant                           *)

(* One evaluation of the wait loop's condition on queue q, which holds t's *)
(* request: the wounds are applied and, when t need not wait, granted_q    *)
(* is installed and t set GROWING (lines 60-65, 102-108, 138-142), else t  *)
(* blocks on cv_.                                                          *)
Settle(t, r, q, nw, granted_q) ==
    LET w == Wounded(nw.wound) IN
    /\ queue' = [queue EXCEPT ![r] = IF nw.wait THEN q ELSE granted_q]
    /\ state' = [StateAfterWound(w) EXCEPT ![t] = IF nw.wait THEN @ ELSE "GROWING"]
    /\ pc' = [pc EXCEPT ![t] = IF nw.wait THEN "wait" ELSE "run"]
    /\ req' = IF nw.wait THEN req ELSE [req EXCEPT ![t] = NoCall]
    /\ signalled' = [SignalAfterWound(w, r) EXCEPT ![t] = FALSE]

\* Mutant: LockExclusive forgets GetExclusiveLockSet()->emplace(rid).
Enqueue_NoExclusiveSet(t) ==
    /\ pc[t] = "latch"
    /\ req[t].op # "LockUpgrade"
    /\ LET r == req[t].rid
           mode == IF req[t].op = "LockShared" THEN "SHARED" ELSE "EXCLUSIVE"
           q == Append(queue[r], [txn |-> t, mode |-> mode, granted |-> FALSE])
       IN /\ Settle(t, r, q, NeedWait(t, q), GrantAll(q, t))
          /\ shared' = IF mode = "SHARED" THEN [shared EXCEPT ![t] = @ \cup {r}]
                                          ELSE shared
          /\ UNCHANGED exclusive
    /\ UNCHANGED ops

(* LockShared / LockExclusive under latch_ (lines 45-65, 85-109): append   *)
(* the request, add the rid to the lock set, then the wait loop.           *)
Enqueue(t) ==
    /\ pc[t] = "latch"
    /\ req[t].op # "LockUpgrade"
    /\ LET r == req[t].rid
           mode == IF req[t].op = "LockShared" THEN "SHARED" ELSE "EXCLUSIVE"
           q == Append(queue[r], [txn |-> t, mode |-> mode, granted |-> FALSE])
       IN /\ Settle(t, r, q, NeedWait(t, q), GrantAll(q, t))
          /\ shared' = IF mode = "SHARED" THEN [shared EXCEPT ![t] = @ \cup {r}]
                                          ELSE shared
          /\ exclusive' = IF mode = "EXCLUSIVE"
                          THEN [exclusive EXCEPT ![t] = @ \cup {r}] ELSE exclusive
    /\ UNCHANGED ops

(* The upgrade's grant loop (lines 138-147) iterates over copies of the    *)
(* requests, so the queue keeps t's SHARED request; only the lock sets     *)
(* move the rid from shared to exclusive.                                  *)
UpgradeSets(t, r, wait) ==
    /\ shared' = IF wait THEN shared ELSE [shared EXCEPT ![t] = @ \ {r}]
    /\ exclusive' = IF wait THEN exclusive ELSE [exclusive EXCEPT ![t] = @ \cup {r}]

\* Mutant: the upgrade enqueues a new EXCLUSIVE request behind the old one.
UpgradeLatched_AppendRequest(t) ==
    /\ pc[t] = "latch"
    /\ req[t].op = "LockUpgrade"
    /\ LET r == req[t].rid
           q == Append(queue[r], [txn |-> t, mode |-> "EXCLUSIVE", granted |-> FALSE])
           nw == NeedWaitUpdate(t, q)
       IN /\ Settle(t, r, q, nw, GrantAll(q, t))
          /\ UpgradeSets(t, r, nw.wait)
    /\ UNCHANGED ops

(* LockUpgrade under latch_ (lines 127-148).                               *)
UpgradeLatched(t) ==
    /\ pc[t] = "latch"
    /\ req[t].op = "LockUpgrade"
    /\ LET r == req[t].rid
           q == queue[r]
           nw == NeedWaitUpdate(t, q)
       IN /\ FirstOf(q, t) > 0
          /\ Settle(t, r, q, nw, q)
          /\ UpgradeSets(t, r, nw.wait)
    /\ UNCHANGED ops

(* Woken from cv_.wait (notified or spuriously) and found ABORTED: the     *)
(* call returns false; its request and lock-set entry stay (lines 55-57,   *)
(* 95-97, 133-135).                                                        *)
WakeAborted(t) ==
    /\ pc[t] = "wait"
    /\ state[t] = "ABORTED"
    /\ pc' = [pc EXCEPT ![t] = "run"]
    /\ req' = [req EXCEPT ![t] = NoCall]
    /\ signalled' = [signalled EXCEPT ![t] = FALSE]
    /\ UNCHANGED <<state, shared, exclusive, queue, ops>>

(* Woken and not ABORTED: the loop condition is evaluated again.           *)
WakeRecheck(t) ==
    /\ pc[t] = "wait"
    /\ state[t] # "ABORTED"
    /\ LET r == req[t].rid
           q == queue[r]
       IN IF req[t].op = "LockUpgrade"
          THEN Settle(t, r, q, NeedWaitUpdate(t, q), q)
               /\ UpgradeSets(t, r, NeedWaitUpdate(t, q).wait)
          ELSE Settle(t, r, q, NeedWait(t, q), GrantAll(q, t))
               /\ UNCHANGED <<shared, exclusive>>
    /\ UNCHANGED ops

Wake(t) == WakeAborted(t) \/ WakeRecheck(t)

\* Mutant: Unlock erases the request without cv_.notify_all().
Unlock_NoNotify(t, r) ==
    LET q == queue[r] IN
    /\ Holds(t, r)
    /\ FirstOf(q, t) > 0
    /\ queue' = [queue EXCEPT ![r] = RemoveAt(q, FirstOf(q, t))]
    /\ UNCHANGED signalled
    /\ state' = IF state[t] = "GROWING" /\ Iso[t] = RR
                THEN [state EXCEPT ![t] = "SHRINKING"] ELSE state
    /\ shared' = [shared EXCEPT ![t] = @ \ {r}]
    /\ exclusive' = [exclusive EXCEPT ![t] = @ \ {r}]

(* Unlock (lines 151-188) of a rid in t's lock sets whose request is in    *)
(* the queue: the first request of t is erased and the queue notified; a   *)
(* GROWING REPEATABLE_READ transaction starts SHRINKING; the rid leaves    *)
(* both lock sets.  Not holding the rid, or no request found, returns      *)
(* false with nothing changed.                                             *)
Unlock(t, r) ==
    LET q == queue[r] IN
    /\ Holds(t, r)
    /\ FirstOf(q, t) > 0
    /\ queue' = [queue EXCEPT ![r] = RemoveAt(q, FirstOf(q, t))]
    /\ signalled' = [u \in Txns |-> signalled[u] \/ u \in WaitersOn(r)]
    /\ state' = IF state[t] = "GROWING" /\ Iso[t] = RR
                THEN [state EXCEPT ![t] = "SHRINKING"] ELSE state
    /\ shared' = [shared EXCEPT ![t] = @ \ {r}]
    /\ exclusive' = [exclusive EXCEPT ![t] = @ \ {r}]

\* An executor unlocks a rid it holds (insert_executor.cpp:81-85).
UnlockCall(t, r) ==
    /\ pc[t] = "run"
    /\ Unlock(t, r)
    /\ UNCHANGED <<pc, req, ops>>

-----------------------------------------------------------------------------
(* TransactionManager (not under src/): Commit and Abort set the state and *)
(* then ReleaseLocks calls Unlock on every rid of the lock sets.           *)

Commit(t) ==
    /\ pc[t] = "run"
    /\ state[t] # "ABORTED"
    /\ state' = [state EXCEPT ![t] = "COMMITTED"]
    /\ pc' = [pc EXCEPT ![t] = "release"]
    /\ UNCHANGED <<shared, exclusive, queue, req, signalled, ops>>

Abort(t) ==
    /\ pc[t] = "run"
    /\ state' = [state EXCEPT ![t] = "ABORTED"]
    /\ pc' = [pc EXCEPT ![t] = "release"]
    /\ UNCHANGED <<shared, exclusive, queue, req, signalled, ops>>

ReleaseLock(t, r) ==
    /\ pc[t] = "release"
    /\ Unlock(t, r)
    /\ UNCHANGED <<pc, req, ops>>

Released(t) ==
    /\ pc[t] = "release"
    /\ shared[t] \cup exclusive[t] = {}
    /\ pc' = [pc EXCEPT ![t] = "done"]
    /\ UNCHANGED <<state, shared, exclusive, queue, req, signalled, ops>>

-----------------------------------------------------------------------------
Next ==
    \E t \in Txns :
        \/ \E r \in Rids : \/ LockShared(t, r) \/ LockExclusive(t, r)
                           \/ LockUpgrade(t, r) \/ UnlockCall(t, r)
                           \/ ReleaseLock(t, r)
        \/ Enqueue(t) \/ UpgradeLatched(t) \/ Wake(t)
        \/ Commit(t) \/ Abort(t) \/ Released(t)

(* Threads that can run are scheduled; a notified waiter wakes (spurious   *)
(* wakeups get no fairness); every transaction eventually commits or       *)
(* aborts, and its locks are then released.  Enqueue and UpgradeLatched,   *)
(* and ReleaseLock and Released, are never enabled together for one t, so  *)
(* one weak fairness condition covers each pair.                           *)
Fairness ==
    \A t \in Txns :
        /\ WF_vars(Enqueue(t) \/ UpgradeLatched(t))
        /\ WF_vars(signalled[t] /\ Wake(t))
        /\ WF_vars(Commit(t) \/ Abort(t))
        /\ WF_vars(Released(t) \/ \E r \in Rids : ReleaseLock(t, r))

Spec == Init /\ [][Next]_vars
FairSpec == Spec /\ Fairness

-----------------------------------------------------------------------------
(* Properties                                                              *)

\* Every variable has its type; a queue holds no more requests than there
\* are transactions (each has at most one request on a rid).
TypeOK ==
    /\ state \in [Txns -> States]
    /\ shared \in [Txns -> SUBSET Rids]
    /\ exclusive \in [Txns -> SUBSET Rids]
    /\ queue \in [Rids -> Seq(Request)]
    /\ \A r \in Rids : Len(queue[r]) <= Cardinality(Txns)
    /\ pc \in [Txns -> {"run", "latch", "wait", "release", "done"}]
    /\ req \in [Txns -> [op : Ops, rid : Rids]]
    /\ signalled \in [Txns -> BOOLEAN]
    /\ ops \in [Txns -> Nat] /\ \A t \in Txns : ops[t] <= MaxOps[t]

\* Two-phase locking: once Unlock has put a REPEATABLE_READ transaction in
\* SHRINKING, no lock call adds a rid to its lock sets.
TwoPhaseLocking ==
    [][\A t \in Txns :
         (Iso[t] = RR /\ state[t] = "SHRINKING")
            => shared'[t] \cup exclusive'[t] \subseteq shared[t] \cup exclusive[t]]_vars

\* A rid is in t's lock sets exactly when t has a request in its queue, and
\* t has at most one request there.  Unlock and ReleaseLocks work from the
\* lock sets: a request they cannot see is never removed and blocks the
\* queue for good, and a set entry without a request makes Unlock fail.
QueueMatchesLockSets ==
    \A t \in Txns, r \in Rids :
        /\ pc[t] # "latch" => (Holds(t, r) <=> FirstOf(queue[r], t) > 0)
        /\ Cardinality({i \in DOMAIN queue[r] : queue[r][i].txn = t}) <= 1

\* Wound-wait: a thread blocked in cv_.wait that has not been notified has
\* an older transaction's request ahead of its own in that queue.  So every
\* wait is for an older transaction and no cycle of waits can form.  It
\* relies on every removal of a request ahead of a waiter notifying the
\* queue (Unlock, line 172) and on NeedWait's need_wait being set only by
\* older requests (lines 210-235), whatever "self" the back of the queue is.
WaitsOnlyForOlder ==
    \A t \in Txns :
        (pc[t] = "wait" /\ ~signalled[t])
            => \E e \in Preds(queue[req[t].rid], t) : e.txn < t

\* Every transaction finishes: no thread stays blocked on a cv_ for ever,
\* whatever the interleaving of requests, wounds and unlocks.
AllTxnsFinish == \A t \in Txns : <>(pc[t] = "done")

\* Spec 8.5: a granted exclusive request never coexists in a queue with a
\* granted request of another transaction.
ExclusiveIsExclusive ==
    \A r \in Rids : \A i, j \in DOMAIN queue[r] :
        (/\ queue[r][i].txn # queue[r][j].txn
         /\ queue[r][i].granted /\ queue[r][j].granted)
            => queue[r][i].mode = "SHARED" /\ queue[r][j].mode = "SHARED"

\* Spec 4.4 state machine: COMMITTED and ABORTED are terminal.  Two code
\* paths write the state of another thread's transaction: the grant's
\* SetState(GROWING) after an unlatched CheckAbort (lines 23, 65), and the
\* wound (lines 217-222), which skips only ABORTED victims, so it also hits
\* a transaction that committed but has not yet released this rid.
TerminalIsFinal ==
    [][\A t \in Txns : state[t] \in {"ABORTED", "COMMITTED"} => state'[t] = state[t]]_vars

\* Spec 4.4 LockUpgrade: once t holds a rid exclusive, its request in the
\* queue says EXCLUSIVE, which is what other requesters' NeedWait reads.
ExclusiveSetMatchesQueue ==
    \A t \in Txns, r \in Rids :
        (r \in exclusive[t] /\ pc[t] = "run")
            => \A i \in DOMAIN queue[r] :
                   queue[r][i].txn = t => queue[r][i].mode = "EXCLUSIVE"

=============================================================================
