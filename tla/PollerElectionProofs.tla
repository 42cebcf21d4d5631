------------------------ MODULE PollerElectionProofs ------------------------
(***************************************************************************)
(* Proofs about PollerElection, for every set of workers.                  *)
(*                                                                         *)
(* Until nginx is reloaded two workers never poll at the same time,        *)
(* however many crash.  The lock word accounts for who is inside the cache *)
(* and for what the killed have left in it, unless it was set to 0 under   *)
(* one who was inside.                                                     *)
(***************************************************************************)
EXTENDS PollerElection, FiniteSetTheorems, TLAPS

(* The worker steps of try_become_poller, release_poller and the master's  *)
(* decisions_shm_zone_init start from a free claim and a free lock.        *)
LEMMA ElectionInit == Init => ElectionInv
<1> SUFFICES ASSUME Init PROVE ElectionInv
  OBVIOUS
<1>1. TypeOK
  <2>1. crashes \in 0 .. MaxCrashes /\ reloads \in 0 .. MaxReloads
    BY CrashAssumption DEF Init
  <2>2. /\ lock \in Nat /\ left \in Nat /\ torn \in BOOLEAN /\ orphaned \in BOOLEAN
        /\ life \in [Pids -> {"unborn", "up", "dead", "other"}]
        /\ stopping \in [Pids -> BOOLEAN] /\ is_poller \in [Pids -> BOOLEAN]
    BY DEF Init
  <2> QED
    BY <2>1, <2>2 DEF Init, TypeOK
<1>2. ThreadsLive /\ PollerClaims /\ master = "idle"
  BY DEF Init, ThreadsLive, PollerClaims, Up
<1> QED
  BY <1>1, <1>2 DEF ElectionInv

(* No step of try_become_poller, release_poller or a crash breaks the      *)
(* claim of a living poller before the first reload.                       *)
LEMMA ElectionStep ==
  ASSUME ElectionInv, [Next]_vars
  PROVE  ElectionInv'
<1> USE PidsAssumption, CrashAssumption
    DEF ElectionInv, ThreadsLive, TypeOK, PollerClaims, Up, goto, WLOCK, drop_lock,
      worker_vars, master_vars, fault_vars
<1>1. CASE UNCHANGED vars
  BY <1>1 DEF vars
<1>2. ASSUME NEW p \in Pids, init_worker(p) PROVE ElectionInv'
  BY <1>2 DEF init_worker
<1>3. ASSUME NEW p \in Pids, exit_worker(p) PROVE ElectionInv'
  BY <1>3 DEF exit_worker
<1>4. ASSUME NEW p \in Pids, EndWorker(p) PROVE ElectionInv'
  BY <1>4 DEF EndWorker, release_poller
<1>5. ASSUME NEW p \in Pids, Crash(p) PROVE ElectionInv'
  BY <1>5 DEF Crash
<1>6. ASSUME NEW p \in Pids, LoadPoller(p) PROVE ElectionInv'
  BY <1>6 DEF LoadPoller
<1>7. ASSUME NEW p \in Pids, DropOrphan(p) PROVE ElectionInv'
  BY <1>7 DEF DropOrphan, Orphaned, process_alive
<1>8. ASSUME NEW p \in Pids, ResetLock(p) PROVE ElectionInv'
  BY <1>8 DEF ResetLock
<1>9. ASSUME NEW p \in Pids, ClaimPoller(p) PROVE ElectionInv'
  <2>1. CASE poller_pid \in {0, p}
    <3>1. reloads = 0 => \A q \in Pids : is_poller[q] => q = p
      BY <2>1
    <3>2. /\ poller_pid' = p
          /\ is_poller' = [is_poller EXCEPT ![p] = TRUE]
          /\ thread' = [thread EXCEPT ![p] = "poll"]
      BY <1>9, <2>1 DEF ClaimPoller
    <3>3. Up(p)
      BY <1>9 DEF ClaimPoller
    <3>4. UNCHANGED <<lock, life, stopping, seen, reader, master_vars, fault_vars>>
      BY <1>9 DEF ClaimPoller
    <3>5. TypeOK' /\ master' = master
      BY <3>2, <3>4
    <3>6. ThreadsLive'
      BY <3>2, <3>3, <3>4
    <3> QED
      BY <3>1, <3>2, <3>3, <3>4, <3>5, <3>6
  <2>2. CASE poller_pid \notin {0, p}
    BY <1>9, <2>2 DEF ClaimPoller
  <2> QED
    BY <2>1, <2>2
<1>10. ASSUME NEW p \in Pids, StopPolling(p) PROVE ElectionInv'
  BY <1>10 DEF StopPolling
<1>11. ASSUME NEW p \in Pids, Poll(p) PROVE ElectionInv'
  BY <1>11 DEF Poll
<1>12. ASSUME NEW p \in Pids, AcquireWrite(p) PROVE ElectionInv'
  BY <1>12 DEF AcquireWrite, ngx_rwlock_wlock
<1>13. ASSUME NEW p \in Pids, ReleaseWrite(p) PROVE ElectionInv'
  BY <1>13 DEF ReleaseWrite, ngx_rwlock_unlock
<1>14. ASSUME NEW p \in Pids, lookup_ip(p) PROVE ElectionInv'
  BY <1>14 DEF lookup_ip
<1>15. ASSUME NEW p \in Pids, AcquireRead(p) PROVE ElectionInv'
  BY <1>15 DEF AcquireRead, ngx_rwlock_rlock
<1>16. ASSUME NEW p \in Pids, ReleaseRead(p) PROVE ElectionInv'
  BY <1>16 DEF ReleaseRead, ngx_rwlock_unlock
<1>17. CASE LoadZone
  BY <1>17 DEF LoadZone
<1>18. CASE StoreNoPoller
  BY <1>18 DEF StoreNoPoller
<1>19. CASE StoreNoLock
  BY <1>19 DEF StoreNoLock
<1>20. ASSUME NEW p \in Pids, ReusePid(p) PROVE ElectionInv'
  BY <1>20 DEF ReusePid
<1> QED
  BY <1>1, <1>2, <1>3, <1>4, <1>5, <1>6, <1>7, <1>8, <1>9, <1>10, <1>11,
     <1>12, <1>13, <1>14, <1>15, <1>16, <1>17, <1>18, <1>19, <1>20
     DEF Next, PollingThread, zone_init

(* Before the first reload, however many workers crash, the worker that    *)
(* thinks it polls is alive and holds the claim in poller_pid.             *)
THEOREM ElectionInvariant == Spec => []ElectionInv
<1>1. ElectionInv /\ [Next]_vars => ElectionInv'
  BY ElectionStep
<1> QED
  BY ElectionInit, <1>1, PTL DEF Spec

(* Every variable of the election keeps its type, also through reloads:    *)
(* the lock word is a writer's mark or a count, the claim a process id or  *)
(* nobody's.                                                               *)
THEOREM ElectionTypeCorrect == Spec => []TypeOK
<1>1. ElectionInv => TypeOK
  BY DEF ElectionInv
<1> QED
  BY ElectionInvariant, <1>1, PTL

(* However many workers crash between two instructions of                  *)
(* try_become_poller, no two workers poll at the same time before nginx is *)
(* reloaded.                                                               *)
THEOREM OnePoller == Spec => []OnePollerUntilReload
<1>1. ElectionInv => OnePollerUntilReload
  BY DEF ElectionInv, PollerClaims, OnePollerUntilReload, PollersDontOverlap
<1> QED
  BY ElectionInvariant, <1>1, PTL

-----------------------------------------------------------------------------
(* That a claim was orphaned, and that nginx was reloaded, stays so.       *)
LEMMA CalmBefore ==
  ASSUME ElectionInv, [Next]_vars, ~orphaned', reloads' = 0
  PROVE  /\ ~orphaned /\ reloads = 0 /\ ~zone_init
         /\ \A p \in Pids : Crash(p) => poller_pid # p
<1> USE DEF ElectionInv, TypeOK, master_vars, fault_vars
<1>1. ASSUME NEW p \in Pids, Crash(p)
      PROVE  ~orphaned /\ reloads = 0 /\ poller_pid # p
  BY <1>1 DEF Crash
<1>2. ~LoadZone
  BY CrashAssumption DEF LoadZone
<1>3. ~orphaned /\ reloads = 0
  BY <1>1, <1>2 DEF Next, PollingThread, zone_init, vars, init_worker, ReusePid,
     exit_worker, EndWorker, LoadPoller, DropOrphan, ResetLock, ClaimPoller, drop_lock,
     StopPolling, Poll, AcquireWrite, ReleaseWrite, lookup_ip, AcquireRead,
     ReleaseRead, StoreNoPoller, StoreNoLock
<1>4. ~StoreNoPoller /\ ~StoreNoLock
  BY <1>3 DEF StoreNoPoller, StoreNoLock
<1> QED
  BY <1>1, <1>2, <1>3, <1>4 DEF zone_init

(* Until a worker that has the claim is killed or nginx is reloaded, a     *)
(* claim is a living worker's, so try_become_poller never drops the lock.  *)
LEMMA OrphanStep ==
  ASSUME ElectionInv, NoOrphans, [Next]_vars, ~orphaned', reloads' = 0
  PROVE  NoOrphans'
<1> USE PidsAssumption, CalmBefore
    DEF ElectionInv, ThreadsLive, TypeOK, PollerClaims, NoOrphans, Up, goto
<1>1. ASSUME NEW p \in Pids, EndWorker(p) PROVE NoOrphans'
  BY <1>1 DEF EndWorker, release_poller
<1>2. ASSUME NEW p \in Pids, DropOrphan(p) PROVE NoOrphans'
  BY <1>2 DEF DropOrphan, Orphaned, process_alive
<1>3. ASSUME NEW p \in Pids, ClaimPoller(p) PROVE NoOrphans'
  BY <1>3 DEF ClaimPoller
<1>4. ASSUME NEW p \in Pids, init_worker(p) PROVE NoOrphans'
  BY <1>4 DEF init_worker
<1>5. ASSUME NEW p \in Pids, LoadPoller(p) PROVE NoOrphans'
  BY <1>5 DEF LoadPoller
<1>6. ASSUME NEW p \in Pids,
             \/ exit_worker(p) \/ ReusePid(p) \/ StopPolling(p) \/ Poll(p)
             \/ AcquireWrite(p) \/ ReleaseWrite(p)
             \/ lookup_ip(p) \/ AcquireRead(p) \/ ReleaseRead(p)
      PROVE  NoOrphans'
  BY <1>6 DEF exit_worker, ReusePid, StopPolling, Poll, AcquireWrite, ReleaseWrite,
              lookup_ip, AcquireRead, ReleaseRead
<1>7. \A p \in Pids : ~ResetLock(p)
  BY DEF ResetLock
<1>8. ASSUME NEW p \in Pids, Crash(p) PROVE NoOrphans'
  BY <1>8 DEF Crash
<1>9. CASE UNCHANGED vars
  BY <1>9 DEF vars, worker_vars
<1> QED
  BY <1>1, <1>2, <1>3, <1>4, <1>5, <1>6, <1>7, <1>8, <1>9
     DEF Next, PollingThread

(* Whoever takes, releases or drops the lock, and whoever is killed inside *)
(* or outside: if the lock is not torn after the step, it accounts for     *)
(* those who are inside and for what the killed have left.                 *)
LEMMA LockStep ==
  ASSUME ElectionInv, ~torn => LockExact, [Next]_vars
  PROVE  ~torn' => LockExact'
<1> SUFFICES ASSUME ~torn' PROVE LockExact'
  OBVIOUS
<1> DEFINE W == WritersInside
           R == ReadersInside
           Goal == LockExact'
<1> USE PidsAssumption DEF goto, WLOCK
<1>1. /\ thread \in [Pids -> {"off", "elect", "check", "reset", "claim", "poll",
                              "wwait", "write", "done"}]
      /\ reader \in [Pids -> {"idle", "rwait", "read"}]
  BY DEF ElectionInv, TypeOK
<1>2. ThreadsLive
  BY DEF ElectionInv
<1>3. IsFiniteSet(R) /\ Cardinality(R) \in Nat
  BY FS_Subset, FS_CardinalityType DEF ReadersInside
<1>4. ASSUME W' = W, R' = R, lock' = lock, UNCHANGED <<left, torn>> PROVE Goal
  BY <1>4 DEF LockExact
<1>5. ASSUME NEW p \in Pids, AcquireRead(p) PROVE Goal
  <2>1. p \notin R /\ R' = R \union {p} /\ W' = W
    BY <1>1, <1>5 DEF AcquireRead, ReadersInside, WritersInside, Reading, Writing
  <2>2. Cardinality(R') = Cardinality(R) + 1
    BY <1>3, <2>1, FS_AddElement
  <2>3. lock # WLOCK /\ lock' = lock + 1 /\ left' = left /\ torn' = torn
    BY <1>5 DEF AcquireRead, ngx_rwlock_rlock, fault_vars
  <2> QED
    BY <1>3, <2>1, <2>2, <2>3 DEF LockExact
<1>6. ASSUME NEW p \in Pids, ReleaseRead(p) PROVE Goal
  <2>1. p \in R /\ R' = R \ {p} /\ W' = W
    BY <1>1, <1>6 DEF ReleaseRead, ReadersInside, WritersInside, Reading, Writing
  <2>2. Cardinality(R') = Cardinality(R) - 1
    BY <1>3, <2>1, FS_RemoveElement
  <2>3. left' = left /\ torn' = torn
    BY <1>6 DEF ReleaseRead, fault_vars
  <2>4. left \in Nat /\ lock = left + Cardinality(R) /\ W = {}
    BY <2>1, <2>3 DEF LockExact
  <2>5. lock' = lock - 1
    BY <1>3, <1>6, <2>4 DEF ReleaseRead, ngx_rwlock_unlock
  <2> QED
    BY <1>3, <2>1, <2>2, <2>3, <2>4, <2>5 DEF LockExact
<1>7. ASSUME NEW p \in Pids, AcquireWrite(p) PROVE Goal
  <2>1. lock = 0 /\ lock' = WLOCK /\ left' = left /\ torn' = torn
    BY <1>7 DEF AcquireWrite, ngx_rwlock_wlock, fault_vars
  <2>2. left = 0 /\ Cardinality(R) = 0 /\ W = {}
    BY <1>3, <2>1 DEF LockExact
  <2>3. R = {}
    BY <1>3, <2>2, FS_EmptySet
  <2>4. R' = R /\ W' = W \union {p}
    BY <1>1, <1>7 DEF AcquireWrite, ReadersInside, WritersInside, Reading, Writing
  <2> QED
    BY <2>1, <2>2, <2>3, <2>4 DEF LockExact
<1>8. ASSUME NEW p \in Pids, ReleaseWrite(p) PROVE Goal
  <2>1. p \in W /\ R' = R /\ W' = W \ {p}
    BY <1>1, <1>8 DEF ReleaseWrite, ReadersInside, WritersInside, Reading, Writing
  <2>2. left' = left /\ torn' = torn
    BY <1>8 DEF ReleaseWrite, fault_vars
  <2>3. lock = WLOCK /\ left = 0 /\ R = {} /\ W = {p}
    BY <2>1, <2>2 DEF LockExact
  <2>4. lock' = 0
    BY <1>8, <2>3 DEF ReleaseWrite, ngx_rwlock_unlock
  <2> QED
    BY <2>1, <2>2, <2>3, <2>4, FS_EmptySet DEF LockExact
<1>9. ASSUME NEW p \in Pids, Crash(p) PROVE Goal
  <2>1. R' = R \ {p} /\ W' = W \ {p}
    BY <1>1, <1>9 DEF Crash, ReadersInside, WritersInside, Reading, Writing
  <2>2. lock' = lock /\ torn' = torn
    BY <1>9 DEF Crash
  <2>3. LockExact
    BY <2>2
  <2>4. CASE p \in W
    <3>1. left' = WLOCK
      BY <1>9, <2>2, <2>4 DEF Crash, WritersInside
    <3>2. lock = WLOCK /\ R = {} /\ W = {p}
      BY <2>3, <2>4 DEF LockExact
    <3> QED
      BY <2>1, <2>2, <3>1, <3>2 DEF LockExact
  <2>5. CASE p \in R
    <3>1. left \in Nat /\ lock = left + Cardinality(R) /\ W = {}
      BY <2>3, <2>5 DEF LockExact
    <3>2. left' = left + 1
      BY <1>9, <2>2, <2>5, <3>1 DEF Crash, ReadersInside, WritersInside
    <3>3. Cardinality(R') = Cardinality(R) - 1
      BY <1>3, <2>1, <2>5, FS_RemoveElement
    <3> QED
      BY <1>3, <2>1, <2>2, <3>1, <3>2, <3>3 DEF LockExact
  <2>6. CASE p \notin W /\ p \notin R
    <3>1. left' = left
      BY <1>9, <2>2, <2>6 DEF Crash, ReadersInside, WritersInside
    <3> QED
      BY <1>4, <2>1, <2>2, <2>6, <3>1
  <2> QED
    BY <2>4, <2>5, <2>6
<1>10. ASSUME drop_lock, UNCHANGED reader, W' = W PROVE Goal
  <2>1. W = {} /\ R = {} /\ lock' = 0 /\ left' = 0
    BY <1>10 DEF drop_lock
  <2>2. R' = R
    BY <1>10 DEF ReadersInside, Reading
  <2> QED
    BY <1>10, <2>1, <2>2, FS_EmptySet DEF LockExact
<1>11. ASSUME NEW p \in Pids, ResetLock(p) PROVE Goal
  BY <1>1, <1>10, <1>11 DEF ResetLock, WritersInside, Writing
<1>12. CASE StoreNoLock
  BY <1>10, <1>12 DEF StoreNoLock, worker_vars, WritersInside, Writing
<1>13. CASE LoadZone \/ StoreNoPoller
  BY <1>4, <1>13 DEF LoadZone, StoreNoPoller, worker_vars, fault_vars,
     ReadersInside, WritersInside, Reading, Writing
<1>14. ASSUME NEW p \in Pids,
             \/ init_worker(p) \/ exit_worker(p) \/ EndWorker(p) \/ ReusePid(p)
             \/ lookup_ip(p)
             \/ LoadPoller(p) \/ DropOrphan(p) \/ ClaimPoller(p)
             \/ StopPolling(p) \/ Poll(p)
      PROVE  Goal
  <2>1. W' = W
    BY <1>1, <1>2, <1>14 DEF ThreadsLive, Up, WritersInside, Writing,
       init_worker, exit_worker, EndWorker, ReusePid, lookup_ip, LoadPoller, DropOrphan,
       ClaimPoller, StopPolling, Poll
  <2>2. R' = R /\ lock' = lock /\ UNCHANGED <<left, torn>>
    BY <1>1, <1>14 DEF ReadersInside, Reading, init_worker, exit_worker, EndWorker, ReusePid,
       lookup_ip, LoadPoller, DropOrphan, ClaimPoller, StopPolling, Poll, fault_vars
  <2> QED
    BY <1>4, <2>1, <2>2
<1>15. CASE UNCHANGED vars
  BY <1>4, <1>15 DEF vars, worker_vars, fault_vars, ReadersInside, WritersInside, Reading, Writing
<1> QED
  BY <1>5, <1>6, <1>7, <1>8, <1>9, <1>11, <1>12, <1>13, <1>14, <1>15
     DEF Next, PollingThread, zone_init

(* Only one who drops the lock tears it, and only a kill leaves something  *)
(* in it.                                                                  *)
LEMMA TornStep ==
  ASSUME ElectionInv, [Next]_vars
  PROVE  /\ zone_init \/ (\E p \in Pids : ResetLock(p)) \/ torn' = torn
         /\ (crashes = 0 => left = 0) => (crashes' = 0 => left' = 0)
<1>1. ASSUME NEW p \in Pids, Crash(p) PROVE torn' = torn /\ crashes' # 0
  BY <1>1 DEF Crash, ElectionInv, TypeOK
<1>2. ASSUME drop_lock PROVE left' = 0
  BY <1>2 DEF drop_lock
<1>3. CASE \E p \in Pids : ResetLock(p)
  BY <1>2, <1>3 DEF ResetLock
<1>4. CASE zone_init
  BY <1>2, <1>4 DEF zone_init, LoadZone, StoreNoPoller, StoreNoLock, fault_vars
<1> QED
  BY <1>1, <1>3, <1>4 DEF Next, PollingThread, vars, fault_vars, init_worker, ReusePid,
     exit_worker, EndWorker, LoadPoller, DropOrphan, ClaimPoller,
     StopPolling, Poll, AcquireWrite, ReleaseWrite, lookup_ip, AcquireRead, ReleaseRead

(* Whoever is killed and however often nginx is reloaded: the lock word    *)
(* says who is inside and what the killed have left, unless somebody set   *)
(* it to 0 over the heads of those who were inside, which nobody does      *)
(* before a worker that has the claim is killed or nginx is reloaded.  So  *)
(* no lookup is beside a writer, and no writer beside another.             *)
THEOREM LockWordAccounted == Spec => []LockAccounted
<1> DEFINE LockInv ==
      /\ ElectionInv /\ LockAccounted
      /\ ~orphaned /\ reloads = 0 => NoOrphans
<1>1. Init => LockInv
  <2> SUFFICES ASSUME Init PROVE LockInv
    OBVIOUS
  <2>1. NoOrphans /\ ~torn /\ left = 0
    BY DEF Init, NoOrphans
  <2>2. ReadersInside = {} /\ WritersInside = {} /\ lock = 0
    BY DEF Init, ReadersInside, WritersInside, Reading, Writing
  <2>3. LockExact
    BY <2>1, <2>2, FS_EmptySet DEF LockExact
  <2> QED
    BY <2>1, <2>3, ElectionInit DEF LockAccounted
<1>2. LockInv /\ [Next]_vars => LockInv'
  <2> SUFFICES ASSUME LockInv, [Next]_vars PROVE LockInv'
    OBVIOUS
  <2>1. ElectionInv'
    BY ElectionStep
  <2>2. ~torn' => LockExact'
    BY LockStep DEF LockAccounted
  <2>3. crashes' = 0 => left' = 0
    BY TornStep DEF LockAccounted
  <2>4. ASSUME ~orphaned', reloads' = 0 PROVE NoOrphans' /\ ~torn'
    <3>1. NoOrphans /\ ~zone_init /\ ~torn
      BY <2>4, CalmBefore DEF LockAccounted
    <3>2. \A p \in Pids : ~ResetLock(p)
      BY <3>1 DEF NoOrphans, ResetLock
    <3> QED
      BY <2>4, <3>1, <3>2, TornStep, OrphanStep
  <2> QED
    BY <2>1, <2>2, <2>3, <2>4 DEF LockAccounted
<1>3. LockInv => LockAccounted
  OBVIOUS
<1> QED
  BY <1>1, <1>2, <1>3, PTL DEF Spec
=============================================================================
