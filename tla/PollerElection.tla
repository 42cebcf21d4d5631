--------------------------- MODULE PollerElection ---------------------------
(***************************************************************************)
(* Who may write the decision cache.  Every nginx worker runs a polling    *)
(* thread; the word poller_pid in shared memory elects one of them         *)
(* (try_become_poller, release_poller in src/shm.rs), the word lock is the *)
(* read-write lock of the cache.  A worker can die at any step, between    *)
(* two atomic instructions too, and a reload of nginx runs                 *)
(* decisions_shm_zone_init in the master beside the living workers.        *)
(*                                                                         *)
(* What the poller writes is module DecisionCache; here a batch of writes  *)
(* is one critical section.  A worker's process id is used by no other     *)
(* worker, but once it is dead the system may give it to another process.  *)
(***************************************************************************)
EXTENDS Integers, FiniteSets

CONSTANTS
  Pids,         \* process ids of workers
  Readers,      \* the workers that serve requests, hence look addresses up
  MaxCrashes,   \* bound on crashes
  MaxReloads    \* bound on reloads

ASSUME PidsAssumption == IsFiniteSet(Pids) /\ 0 \notin Pids /\ Readers \subseteq Pids
ASSUME CrashAssumption == MaxCrashes \in Nat /\ MaxReloads \in Nat

VARIABLES
  lock,         \* ShmData.lock
  poller_pid,   \* ShmData.poller_pid
  life,         \* life[p]: who has process id p; "other" is no worker
  stopping,     \* stopping[p]: exit_worker has cleared running
  is_poller,    \* is_poller[p]: IS_POLLER of the process
  thread,       \* thread[p]: where its polling thread is
  seen,         \* seen[p]: the poller_pid it loaded last
  reader,       \* reader[p]: where its request handler is
  master,       \* where the master is in decisions_shm_zone_init
  master_seen,  \* the poller_pid the master loaded
  crashes, reloads,
  left,         \* auxiliary: what killed holders have left in lock
  torn,         \* auxiliary: lock was set to 0 under one who was inside
  orphaned      \* auxiliary: a worker was killed while it had the claim

worker_vars == <<life, stopping, is_poller, thread, seen, reader>>
master_vars == <<master, master_seen, reloads>>
fault_vars == <<crashes, left, torn, orphaned>>
vars == <<lock, poller_pid, worker_vars, master_vars, fault_vars>>

Up(p) == life[p] = "up"

(* process_alive: kill(pid, 0) finds any process, also one of another user.*)
process_alive(pid) == pid \in Pids /\ life[pid] \in {"up", "other"}

-----------------------------------------------------------------------------
(* ngx_rwlock: -1 is a writer, n > 0 are n readers.  Unlocking a word that *)
(* is not a writer's subtracts one, whatever it holds.                     *)
WLOCK == -1

ngx_rwlock_wlock == lock = 0 /\ lock' = WLOCK
ngx_rwlock_rlock == lock # WLOCK /\ lock' = lock + 1
ngx_rwlock_unlock == lock' = IF lock = WLOCK THEN 0 ELSE lock - 1

Writing(p) == thread[p] = "write"
Reading(p) == reader[p] = "read"
WritersInside == {p \in Pids : Writing(p)}
ReadersInside == {p \in Pids : Reading(p)}

(* lock.store(0) by one who does not hold the lock: nothing of the killed  *)
(* is left in it then, but it says nothing of those who are inside.        *)
drop_lock ==
  /\ lock' = 0
  /\ left' = 0
  /\ torn' = (WritersInside \union ReadersInside # {})
  /\ UNCHANGED <<crashes, orphaned>>

Init ==
  /\ lock = 0
  /\ poller_pid = 0
  /\ life = [p \in Pids |-> "unborn"]
  /\ stopping = [p \in Pids |-> FALSE]
  /\ is_poller = [p \in Pids |-> FALSE]
  /\ thread = [p \in Pids |-> "off"]
  /\ seen = [p \in Pids |-> 0]
  /\ reader = [p \in Pids |-> "idle"]
  /\ master = "idle"
  /\ master_seen = 0
  /\ crashes = 0
  /\ reloads = 0
  /\ left = 0 /\ torn = FALSE /\ orphaned = FALSE

goto(p, label) == thread' = [thread EXCEPT ![p] = label]

-----------------------------------------------------------------------------
(* A worker's life.                                                        *)

(* The master forks a worker; init_worker starts the polling thread.       *)
init_worker(p) ==
  /\ life[p] = "unborn"
  /\ life' = [life EXCEPT ![p] = "up"]
  /\ goto(p, "elect")
  /\ UNCHANGED <<lock, poller_pid, stopping, is_poller, seen, reader, master_vars, fault_vars>>

(* exit_worker clears running; it runs in the event loop, so not while a   *)
(* request handler is inside the cache.                                    *)
exit_worker(p) ==
  /\ Up(p) /\ ~stopping[p] /\ reader[p] = "idle"
  /\ stopping' = [stopping EXCEPT ![p] = TRUE]
  /\ UNCHANGED <<lock, poller_pid, life, is_poller, thread, seen, reader, master_vars, fault_vars>>

release_poller(p) ==
  /\ poller_pid' = IF poller_pid = p THEN 0 ELSE poller_pid
  /\ is_poller' = [is_poller EXCEPT ![p] = FALSE]

(* The end of exit_worker: the thread is joined, the claim released, and   *)
(* the process ends.                                                       *)
EndWorker(p) ==
  /\ Up(p) /\ stopping[p] /\ thread[p] = "done"
  /\ release_poller(p)
  /\ life' = [life EXCEPT ![p] = "dead"]
  /\ goto(p, "off")
  /\ UNCHANGED <<lock, stopping, seen, reader, master_vars, fault_vars>>

(* A worker is killed: what it holds in shared memory stays.               *)
Crash(p) ==
  /\ Up(p) /\ crashes < MaxCrashes
  /\ crashes' = crashes + 1
  /\ left' = IF torn THEN left
             ELSE IF Writing(p) THEN WLOCK
             ELSE IF Reading(p) THEN left + 1 ELSE left
  /\ orphaned' = (orphaned \/ poller_pid = p)
  /\ life' = [life EXCEPT ![p] = "dead"]
  /\ is_poller' = [is_poller EXCEPT ![p] = FALSE]
  /\ reader' = [reader EXCEPT ![p] = "idle"]
  /\ goto(p, "off")
  /\ UNCHANGED <<lock, poller_pid, stopping, seen, master_vars, torn>>

(* The system gives the process id of a dead worker to another process.    *)
ReusePid(p) ==
  /\ life[p] = "dead"
  /\ life' = [life EXCEPT ![p] = "other"]
  /\ UNCHANGED <<lock, poller_pid, stopping, is_poller, thread, seen, reader, master_vars, fault_vars>>

-----------------------------------------------------------------------------
(* The polling thread: run_polling_loop around try_become_poller.          *)

(* A slip: the waiting loop does not look at running.                      *)
LoadPoller_Endless(p) ==
  /\ thread[p] = "elect"
  /\ goto(p, "check") /\ seen' = [seen EXCEPT ![p] = poller_pid]
  /\ UNCHANGED <<lock, poller_pid, life, stopping, is_poller, reader, master_vars, fault_vars>>

(* The head of the waiting loop, and the load.                             *)
LoadPoller(p) ==
  /\ thread[p] = "elect"
  /\ IF stopping[p]
     THEN goto(p, "done") /\ UNCHANGED seen
     ELSE goto(p, "check") /\ seen' = [seen EXCEPT ![p] = poller_pid]
  /\ UNCHANGED <<lock, poller_pid, life, stopping, is_poller, reader, master_vars, fault_vars>>

Orphaned(p) == seen[p] # 0 /\ seen[p] # p /\ ~process_alive(seen[p])

(* A slip: a dead poller keeps its claim.                                  *)
DropOrphan_Never(p) ==
  /\ thread[p] = "check"
  /\ goto(p, "claim")
  /\ UNCHANGED <<lock, poller_pid, life, stopping, is_poller, seen, reader, master_vars, fault_vars>>

(* A slip: the lock is dropped also by one who found the poller living.    *)
DropOrphan_AnyClaim(p) ==
  /\ thread[p] = "check"
  /\ IF seen[p] # 0 /\ seen[p] # p
     THEN UNCHANGED poller_pid /\ goto(p, "reset")
     ELSE UNCHANGED poller_pid /\ goto(p, "claim")
  /\ UNCHANGED <<lock, life, stopping, is_poller, seen, reader, master_vars, fault_vars>>

(* The claim of a dead process is cleared by one compare-exchange; only    *)
(* who wins it drops the lock.                                             *)
DropOrphan(p) ==
  /\ thread[p] = "check"
  /\ IF Orphaned(p) /\ poller_pid = seen[p]
     THEN poller_pid' = 0 /\ goto(p, "reset")
     ELSE UNCHANGED poller_pid /\ goto(p, "claim")
  /\ UNCHANGED <<lock, life, stopping, is_poller, seen, reader, master_vars, fault_vars>>

ResetLock(p) ==
  /\ thread[p] = "reset"
  /\ drop_lock
  /\ goto(p, "claim")
  /\ UNCHANGED <<poller_pid, life, stopping, is_poller, seen, reader, master_vars>>

(* A slip: the claim is a store, decided on what was loaded before.        *)
ClaimPoller_Stale(p) ==
  /\ thread[p] = "claim"
  /\ IF seen[p] \in {0, p}
     THEN poller_pid' = p /\ is_poller' = [is_poller EXCEPT ![p] = TRUE] /\ goto(p, "poll")
     ELSE UNCHANGED <<poller_pid, is_poller>> /\ goto(p, "elect")
  /\ UNCHANGED <<lock, life, stopping, seen, reader, master_vars, fault_vars>>

(* The compare-exchange from 0 to the own id, and the store to IS_POLLER.  *)
ClaimPoller(p) ==
  /\ thread[p] = "claim"
  /\ poller_pid' = IF poller_pid = 0 THEN p ELSE poller_pid
  /\ IF poller_pid \in {0, p}
     THEN is_poller' = [is_poller EXCEPT ![p] = TRUE] /\ goto(p, "poll")
     ELSE UNCHANGED is_poller /\ goto(p, "elect")
  /\ UNCHANGED <<lock, life, stopping, seen, reader, master_vars, fault_vars>>

(* The head of the polling loop: leave it, or poll LAPI and wait for the   *)
(* write lock to apply what it answers.                                    *)
StopPolling(p) ==
  /\ thread[p] = "poll" /\ stopping[p]
  /\ goto(p, "done")
  /\ UNCHANGED <<lock, poller_pid, life, stopping, is_poller, seen, reader, master_vars, fault_vars>>

Poll(p) ==
  /\ thread[p] = "poll" /\ ~stopping[p]
  /\ goto(p, "wwait")
  /\ UNCHANGED <<lock, poller_pid, life, stopping, is_poller, seen, reader, master_vars, fault_vars>>

(* WriteLock::acquire and its drop.                                        *)
AcquireWrite(p) ==
  /\ thread[p] = "wwait"
  /\ ngx_rwlock_wlock
  /\ goto(p, "write")
  /\ UNCHANGED <<poller_pid, life, stopping, is_poller, seen, reader, master_vars, fault_vars>>

(* A slip: the guard is dropped as if it were a reader's.                  *)
ReleaseWrite_AsReader(p) ==
  /\ thread[p] = "write"
  /\ lock' = lock - 1
  /\ goto(p, "poll")
  /\ UNCHANGED <<poller_pid, life, stopping, is_poller, seen, reader, master_vars, fault_vars>>

ReleaseWrite(p) ==
  /\ thread[p] = "write"
  /\ ngx_rwlock_unlock
  /\ goto(p, "poll")
  /\ UNCHANGED <<poller_pid, life, stopping, is_poller, seen, reader, master_vars, fault_vars>>

-----------------------------------------------------------------------------
(* A request handler: lookup_ip takes the read lock around its search.     *)

lookup_ip(p) ==
  /\ Up(p) /\ p \in Readers /\ ~stopping[p] /\ reader[p] = "idle"
  /\ reader' = [reader EXCEPT ![p] = "rwait"]
  /\ UNCHANGED <<lock, poller_pid, life, stopping, is_poller, thread, seen, master_vars, fault_vars>>

AcquireRead(p) ==
  /\ reader[p] = "rwait"
  /\ ngx_rwlock_rlock
  /\ reader' = [reader EXCEPT ![p] = "read"]
  /\ UNCHANGED <<poller_pid, life, stopping, is_poller, thread, seen, master_vars, fault_vars>>

(* A slip: the guard of a lookup is forgotten, not dropped.                *)
ReleaseRead_Forgotten(p) ==
  /\ reader[p] = "read"
  /\ reader' = [reader EXCEPT ![p] = "idle"]
  /\ UNCHANGED <<lock, poller_pid, life, stopping, is_poller, thread, seen, master_vars, fault_vars>>

ReleaseRead(p) ==
  /\ reader[p] = "read"
  /\ ngx_rwlock_unlock
  /\ reader' = [reader EXCEPT ![p] = "idle"]
  /\ UNCHANGED <<poller_pid, life, stopping, is_poller, thread, seen, master_vars, fault_vars>>

-----------------------------------------------------------------------------
(* The master reuses the zone on reload: decisions_shm_zone_init loads     *)
(* poller_pid, and if there is no poller or a dead one stores 0 in it and  *)
(* then in lock.  Nothing makes the load and the stores one step.          *)

LoadZone ==
  /\ master = "idle" /\ reloads < MaxReloads
  /\ reloads' = reloads + 1
  /\ master_seen' = poller_pid
  /\ master' = "check"
  /\ UNCHANGED <<lock, poller_pid, worker_vars, fault_vars>>

StoreNoPoller ==
  /\ master = "check"
  /\ IF master_seen = 0 \/ ~process_alive(master_seen)
     THEN poller_pid' = 0 /\ master' = "reset"
     ELSE UNCHANGED poller_pid /\ master' = "idle"
  /\ UNCHANGED <<lock, worker_vars, master_seen, reloads, fault_vars>>

StoreNoLock ==
  /\ master = "reset"
  /\ drop_lock
  /\ master' = "idle"
  /\ UNCHANGED <<poller_pid, worker_vars, master_seen, reloads>>

-----------------------------------------------------------------------------
PollingThread(p) ==
  \/ LoadPoller(p) \/ DropOrphan(p) \/ ResetLock(p) \/ ClaimPoller(p)
  \/ StopPolling(p) \/ Poll(p) \/ AcquireWrite(p) \/ ReleaseWrite(p)

zone_init == LoadZone \/ StoreNoPoller \/ StoreNoLock

Next ==
  \/ \E p \in Pids :
       \/ init_worker(p) \/ exit_worker(p) \/ EndWorker(p) \/ Crash(p) \/ ReusePid(p)
       \/ PollingThread(p)
       \/ lookup_ip(p) \/ AcquireRead(p) \/ ReleaseRead(p)
  \/ zone_init

Spec == Init /\ [][Next]_vars

(* Threads are scheduled and LAPI answers.  A thread that waits for the    *)
(* lock in nginx's spin loop gets it if it is free again and again.        *)
Fairness ==
  /\ \A p \in Pids :
       /\ WF_vars(PollingThread(p)) /\ WF_vars(EndWorker(p))
       /\ WF_vars(ReleaseRead(p))
       /\ SF_vars(AcquireWrite(p)) /\ SF_vars(AcquireRead(p))
  /\ WF_vars(StoreNoPoller) /\ WF_vars(StoreNoLock)

FairSpec == Spec /\ Fairness

-----------------------------------------------------------------------------
TypeOK ==
  /\ lock \in {WLOCK} \union Nat
  /\ poller_pid \in Pids \union {0}
  /\ life \in [Pids -> {"unborn", "up", "dead", "other"}]
  /\ stopping \in [Pids -> BOOLEAN]
  /\ is_poller \in [Pids -> BOOLEAN]
  /\ thread \in [Pids -> {"off", "elect", "check", "reset", "claim", "poll",
                          "wwait", "write", "done"}]
  /\ seen \in [Pids -> Pids \union {0}]
  /\ reader \in [Pids -> {"idle", "rwait", "read"}]
  /\ master \in {"idle", "check", "reset"}
  /\ master_seen \in Pids \union {0}
  /\ crashes \in 0 .. MaxCrashes
  /\ reloads \in 0 .. MaxReloads
  /\ left \in {WLOCK} \union Nat
  /\ torn \in BOOLEAN /\ orphaned \in BOOLEAN

(* Two workers never poll at the same time: init_worker says the others    *)
(* wait so that they can take over without two writers overlapping.        *)
PollersDontOverlap ==
  \A p, q \in Pids : is_poller[p] /\ is_poller[q] => p = q

(* Until nginx is reloaded that is so, whoever is killed between which two *)
(* instructions of try_become_poller.                                      *)
OnePollerUntilReload == reloads = 0 => PollersDontOverlap

(* The lock word says who is inside: a writer alone, or as many readers as *)
(* it counts beside those who were killed inside.  Behind a killed writer  *)
(* nobody is inside.  It is what makes every operation of the cache one    *)
(* step.                                                                   *)
LockExact ==
  \/ /\ lock = WLOCK /\ ReadersInside = {}
     /\ \/ left = WLOCK /\ WritersInside = {}
        \/ left = 0 /\ \E p \in Pids : WritersInside = {p}
  \/ /\ left \in Nat /\ lock = left + Cardinality(ReadersInside)
     /\ WritersInside = {}

(* That is so, whoever is killed inside, unless the lock was set to 0      *)
(* under one who was inside; and a lock set to 0 when nobody is inside is  *)
(* exact again.  Nobody sets it to 0 before a worker that had the claim is *)
(* killed or nginx is reloaded: a killed lookup makes nobody do so, and    *)
(* what it left in the lock stays.                                         *)
LockAccounted ==
  /\ ~torn => LockExact
  /\ ~orphaned /\ reloads = 0 => ~torn
  /\ crashes = 0 => left = 0

(* Who thinks it is the poller holds the claim in shared memory, so that   *)
(* no other worker can take it while that one lives.                       *)
PollerClaims ==
  \A p \in Pids :
    /\ is_poller[p] => Up(p) /\ poller_pid = p
    /\ thread[p] \in {"poll", "wwait", "write"} => is_poller[p]

(* Only a living worker has a thread or a request.                         *)
ThreadsLive ==
  \A p \in Pids :
    /\ thread[p] = "off" <=> ~Up(p)
    /\ reader[p] # "idle" => Up(p) /\ ~stopping[p]

(* The inductive invariant.                                                *)
ElectionInv ==
  /\ TypeOK
  /\ ThreadsLive
  /\ reloads = 0 => PollerClaims /\ master = "idle"

(* Before that the claim is a living process's, and nobody drops the lock. *)
NoOrphans ==
  /\ poller_pid # 0 => Up(poller_pid)
  /\ \A p \in Pids : thread[p] # "reset"

(* As long as some worker is not told to stop, there is a poller again and *)
(* again: a killed or stopped one is replaced, also if the one that takes  *)
(* over is killed on the way (init_worker: the others wait so that they    *)
(* can take over).  The one claim that stays is that of a dead poller      *)
(* whose process id belongs to another process by now (process_alive).     *)
SomeonePolls ==
  \/ []<>(\E p \in Pids : is_poller[p])
  \/ <>[](\A p \in Pids : ~Up(p) \/ stopping[p])
  \/ <>[](poller_pid \in Pids /\ life[poller_pid] = "other")

(* A worker that is told to stop ends, whether it polls, waits for its     *)
(* turn or is taking over: exit_worker joins the polling thread.  Only a   *)
(* lock that is never free again, as a killed lookup leaves it, can keep   *)
(* the thread in WriteLock::acquire and the worker with it.                *)
StoppedEnd ==
  []<>(lock = 0) => \A p \in Pids : stopping[p] ~> ~Up(p)

(* A lookup gets its lock: decisions_shm_zone_init says that the lock of a *)
(* killed poller is dropped so lookups cannot spin forever.                *)
LookupsEndSpinning ==
  \A p \in Pids : reader[p] = "rwait" ~> reader[p] # "rwait"
=============================================================================
