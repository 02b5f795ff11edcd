---------------------------- MODULE ZvolOpenClose ----------------------------
(***************************************************************************)
(* The open/close reference-counting state machine of one FreeBSD zvol     *)
(* (src/module/os/freebsd/zfs/zvol_os.c), in GEOM mode (zvol_geom_open,    *)
(* zvol_geom_close, reached through zvol_geom_access) or in character      *)
(* device mode (zvol_cdev_open, zvol_cdev_close), racing against an        *)
(* administrative suspend/resume of the volume (zvol_suspend/zvol_resume,  *)
(* which live outside this file) and against the removal of the volume     *)
(* (zvol_wait_close, then the clearing of the provider's private pointer). *)
(*                                                                         *)
(* Every lock the code takes is a variable: the global zvol_state_lock     *)
(* (rwlock), the per-volume zv_state_lock (mutex), the per-volume          *)
(* zv_suspend_lock (rwlock) and the global spa_namespace_lock (mutex).     *)
(* A step of a thread runs from one blocking acquisition to the next; the  *)
(* code between them runs under a lock no other actor can take, so        *)
(* merging it into one step hides no interleaving.                         *)
(***************************************************************************)
EXTENDS Integers, FiniteSets, Functions, Relation

CONSTANTS
  Threads,      \* threads calling open and close on the device
  NsThreads,    \* threads whose calls run with spa_namespace_lock held (vdev open of a zvol)
  Admin,        \* the thread running zvol_suspend/zvol_resume
  Remover,      \* the thread removing the volume
  None,         \* no lock holder
  VolModes,     \* volmodes a volume may have: a subset of {"geom", "dev"}
  MaxHeld       \* bound on the opens one thread holds at once

ASSUME /\ NsThreads \subseteq Threads
       /\ {Admin, Remover, None} \cap Threads = {}
       /\ VolModes \subseteq {"geom", "dev"} /\ VolModes # {}
       /\ MaxHeld \in Nat \ {0}

Actors == Threads \cup {Admin, Remover}

VARIABLES
  pc,                 \* the program point of every actor
  arg,                \* the open/close arguments of the call a thread is in
  drop_suspend,       \* local drop_suspend of the open/close call
  new_open_count,     \* local new_open_count of the close call
  held,               \* opens a thread holds (what its caller will close)
  zvol_state_lock_r,  \* readers of the global zvol_state_lock
  zvol_state_lock_w,  \* writer of the global zvol_state_lock
  zv_state_lock,      \* holder of the per-volume mutex
  zv_suspend_lock_r,  \* readers of zv_suspend_lock
  zv_suspend_lock_w,  \* writer of zv_suspend_lock
  spa_namespace_lock, \* holder of spa_namespace_lock
  zv_open_count,      \* zv->zv_open_count
  zv_flags,           \* the ZVOL_EXCL, ZVOL_RDONLY and ZVOL_REMOVING bits of zv->zv_flags
  zso_dying,          \* zv->zv_zso->zso_dying
  pp_private,         \* pp->private (GEOM) or dev->si_drv2 (dev) still points at zv
  zv_objset,          \* zv->zv_objset is owned (set by first open, cleared by last close)
  zv_dn,              \* zv->zv_dn is held (set up by first open and resume, released by shutdown)
  enc_incompat,       \* dmu_objset_incompatible_encryption_version(zv->zv_objset)
  zv_volmode          \* zv->zv_volmode, fixed when zvol_alloc makes the volume

thrVars  == <<arg, drop_suspend, new_open_count, held>>
lockVars == <<zvol_state_lock_r, zvol_state_lock_w, zv_state_lock,
              zv_suspend_lock_r, zv_suspend_lock_w, spa_namespace_lock>>
zvVars   == <<zv_open_count, zv_flags, zso_dying, pp_private, zv_objset, zv_dn,
              enc_incompat>>
vars     == <<pc, thrVars, lockVars, zvVars, zv_volmode>>

ThreadPcs == {"idle", "o_lookup", "o_mutex", "o_susp", "o_relock", "o_first",
              "o_finish", "c_lookup", "c_mutex", "c_susp", "c_relock"}
AdminPcs == {"a_idle", "a_shutdown", "a_suspended"}
RemoverPcs == {"r_idle", "r_sleep", "r_remove", "r_done"}

(* Arguments of an open: zvol_geom_access turns (acr, acw, ace) into a     *)
(* count and FWRITE and never passes O_EXCL; a cdev open is one open,     *)
(* with or without FWRITE and O_EXCL.                                     *)
GeomOpenArgs ==
  {r \in {[write |-> a[2] # 0, excl |-> FALSE, count |-> a[1] + a[2] + a[3]] :
            a \in (0..1) \X (0..1) \X (0..1)} : r.count > 0}
DevOpenArgs == [write : BOOLEAN, excl : BOOLEAN, count : {1}]
OpenArgs == IF zv_volmode = "geom" THEN GeomOpenArgs ELSE DevOpenArgs

CloseCounts(t) == IF zv_volmode = "geom" THEN 1..held[t] ELSE {1}

Init ==
  /\ zv_volmode \in VolModes
  /\ pc = [a \in Actors |-> CASE a \in Threads -> "idle"
                              [] a = Admin     -> "a_idle"
                              [] a = Remover   -> "r_idle"]
  /\ arg = [t \in Threads |-> [write |-> FALSE, excl |-> FALSE, count |-> 0]]
  /\ drop_suspend = [t \in Threads |-> FALSE]
  /\ new_open_count = [t \in Threads |-> 0]
  /\ held = [t \in Threads |-> 0]
  /\ zvol_state_lock_r = {} /\ zvol_state_lock_w = None
  /\ zv_state_lock = None
  /\ zv_suspend_lock_r = {} /\ zv_suspend_lock_w = None
  /\ spa_namespace_lock = None
  /\ zv_open_count = 0
  /\ zv_flags \in {{}, {"RDONLY"}}
  /\ zso_dying = FALSE
  /\ pp_private = TRUE
  /\ zv_objset = FALSE
  /\ zv_dn = FALSE
  /\ enc_incompat \in IF zv_volmode = "geom" THEN BOOLEAN ELSE {FALSE}

-----------------------------------------------------------------------------
(* Helpers *)

Goto(a, l) == pc' = [pc EXCEPT ![a] = l]

(* Return from open/close: a thread that entered with spa_namespace_lock   *)
(* held gives it back once the call returns.                              *)
Return(t) ==
  /\ Goto(t, "idle")
  /\ spa_namespace_lock' = IF t \in NsThreads THEN None ELSE spa_namespace_lock

(* The volume is going away: zso_dying, or ZVOL_REMOVING in GEOM mode.    *)
Gone == zso_dying \/ (zv_volmode = "geom" /\ "REMOVING" \in zv_flags)

(* rw_tryenter(&zv->zv_suspend_lock, RW_READER) succeeds.                 *)
SuspendReadable == zv_suspend_lock_w = None

-----------------------------------------------------------------------------
(* Open: zvol_geom_open (lines 209-338) and zvol_cdev_open (916-1025).    *)

OpenCall(t) ==
  /\ pc[t] = "idle"
  /\ t \in NsThreads => spa_namespace_lock = None
  /\ \E a \in OpenArgs :
       /\ held[t] + a.count <= MaxHeld
       /\ arg' = [arg EXCEPT ![t] = a]
  /\ drop_suspend' = [drop_suspend EXCEPT ![t] = FALSE]
  /\ Goto(t, "o_lookup")
  /\ spa_namespace_lock' = IF t \in NsThreads THEN t ELSE spa_namespace_lock
  /\ UNCHANGED <<new_open_count, held, zvol_state_lock_r, zvol_state_lock_w,
                 zv_state_lock, zv_suspend_lock_r, zv_suspend_lock_w, zvVars>>

(* retry: take zvol_state_lock as reader and read the private pointer.    *)
OpenLookup(t) ==
  /\ pc[t] = "o_lookup"
  /\ zvol_state_lock_w = None
  /\ \/ /\ pp_private
        /\ zvol_state_lock_r' = zvol_state_lock_r \cup {t}
        /\ Goto(t, "o_mutex")
        /\ UNCHANGED spa_namespace_lock
     \/ /\ ~pp_private
        /\ Return(t)
        /\ UNCHANGED zvol_state_lock_r
  /\ UNCHANGED <<thrVars, zvol_state_lock_w, zv_state_lock, zv_suspend_lock_r,
                 zv_suspend_lock_w, zvVars>>

(* Seeded fault: the opener keeps zv_state_lock while it blocks on        *)
(* zv_suspend_lock instead of dropping it first (line 259 missing).       *)
OpenLockStateHoldMutex(t) ==
  /\ pc[t] = "o_mutex"
  /\ zv_state_lock = None
  /\ ~Gone /\ zv_open_count = 0 /\ ~SuspendReadable
  /\ drop_suspend' = [drop_suspend EXCEPT ![t] = TRUE]
  /\ zv_state_lock' = t
  /\ Goto(t, "o_susp")
  /\ UNCHANGED <<arg, new_open_count, held, zvol_state_lock_r, zvol_state_lock_w,
                 zv_suspend_lock_r, zv_suspend_lock_w, spa_namespace_lock, zvVars>>

(* Take zv_state_lock, refuse a dying volume, and for a first open try to *)
(* take zv_suspend_lock; if that fails drop zv_state_lock to block on it. *)
OpenLockState(t) ==
  /\ pc[t] = "o_mutex"
  /\ zv_state_lock = None
  /\ \/ /\ Gone
        /\ zvol_state_lock_r' = zvol_state_lock_r \ {t}
        /\ Return(t)
        /\ UNCHANGED <<zv_state_lock, zv_suspend_lock_r, drop_suspend>>
     \/ /\ ~Gone /\ zv_open_count = 0 /\ SuspendReadable
        /\ zv_suspend_lock_r' = zv_suspend_lock_r \cup {t}
        /\ drop_suspend' = [drop_suspend EXCEPT ![t] = TRUE]
        /\ zv_state_lock' = t
        /\ zvol_state_lock_r' = zvol_state_lock_r \ {t}
        /\ Goto(t, "o_first")
        /\ UNCHANGED spa_namespace_lock
     \/ /\ ~Gone /\ zv_open_count = 0 /\ ~SuspendReadable
        /\ drop_suspend' = [drop_suspend EXCEPT ![t] = TRUE]
        /\ Goto(t, "o_susp")
        /\ UNCHANGED <<zv_state_lock, zv_suspend_lock_r, zvol_state_lock_r,
                       spa_namespace_lock>>
     \/ /\ ~Gone /\ zv_open_count # 0
        /\ zv_state_lock' = t
        /\ zvol_state_lock_r' = zvol_state_lock_r \ {t}
        /\ Goto(t, "o_finish")
        /\ UNCHANGED <<zv_suspend_lock_r, drop_suspend, spa_namespace_lock>>
  /\ UNCHANGED <<arg, new_open_count, held, zvol_state_lock_w,
                 zv_suspend_lock_w, zvVars>>

(* Seeded fault: the first open blocks on zv_suspend_lock as writer (as *)
(* ZVOL_RW_READER expands under ZVOL_LOCK_DEBUG, lines 108-110).          *)
OpenWaitSuspendAsWriter(t) ==
  /\ pc[t] = "o_susp"
  /\ SuspendReadable /\ zv_suspend_lock_r = {}
  /\ zv_suspend_lock_w' = t
  /\ Goto(t, "o_relock")
  /\ UNCHANGED <<thrVars, zvol_state_lock_r, zvol_state_lock_w, zv_state_lock,
                 zv_suspend_lock_r, spa_namespace_lock, zvVars>>

(* rw_enter(&zv->zv_suspend_lock, ZVOL_RW_READER), still holding          *)
(* zvol_state_lock as reader.                                             *)
OpenWaitSuspend(t) ==
  /\ pc[t] = "o_susp"
  /\ SuspendReadable
  /\ zv_suspend_lock_r' = zv_suspend_lock_r \cup {t}
  /\ Goto(t, "o_relock")
  /\ UNCHANGED <<thrVars, zvol_state_lock_r, zvol_state_lock_w, zv_state_lock,
                 zv_suspend_lock_w, spa_namespace_lock, zvVars>>

(* Retake zv_state_lock and check whether zv_suspend_lock is still        *)
(* needed: another thread may have done the first open meanwhile.         *)
OpenRelock(t) ==
  /\ pc[t] = "o_relock"
  /\ zv_state_lock = None
  /\ zv_state_lock' = t
  /\ zvol_state_lock_r' = zvol_state_lock_r \ {t}
  /\ IF zv_open_count # 0
       THEN /\ zv_suspend_lock_r' = zv_suspend_lock_r \ {t}
            /\ drop_suspend' = [drop_suspend EXCEPT ![t] = FALSE]
            /\ Goto(t, "o_finish")
       ELSE /\ UNCHANGED <<zv_suspend_lock_r, drop_suspend>>
            /\ Goto(t, "o_first")
  /\ UNCHANGED <<arg, new_open_count, held, zvol_state_lock_w,
                 zv_suspend_lock_w, spa_namespace_lock, zvVars>>

(* Seeded fault: the mutex_owned(&spa_namespace_lock) test is missing, so *)
(* a caller already holding the lock only ever tries to take it again.    *)
OpenFirstNoOwnedCheck(t) ==
  /\ pc[t] = "o_first"
  /\ \/ /\ spa_namespace_lock = None
        /\ \/ /\ zv_objset' = TRUE
              /\ zv_dn' = TRUE
              /\ Goto(t, "o_finish")
              /\ UNCHANGED <<zv_state_lock, zv_suspend_lock_r, spa_namespace_lock>>
           \/ /\ zv_state_lock' = None
              /\ zv_suspend_lock_r' = zv_suspend_lock_r \ {t}
              /\ Return(t)
              /\ UNCHANGED <<zv_objset, zv_dn>>
        /\ UNCHANGED drop_suspend
     \/ /\ spa_namespace_lock # None
        /\ zv_state_lock' = None
        /\ zv_suspend_lock_r' = zv_suspend_lock_r \ {t}
        /\ drop_suspend' = [drop_suspend EXCEPT ![t] = FALSE]
        /\ Goto(t, "o_lookup")
        /\ UNCHANGED <<zv_objset, zv_dn, spa_namespace_lock>>
  /\ UNCHANGED <<arg, new_open_count, held, zvol_state_lock_r,
                 zvol_state_lock_w, zv_suspend_lock_w, zv_open_count, zv_flags,
                 zso_dying, pp_private, enc_incompat>>

(* First open: spa_namespace_lock must be owned or taken without          *)
(* blocking; otherwise drop every lock, yield and retry from the lookup.  *)
(* zvol_first_open (outside this file) owns the objset and sets up the   *)
(* dnode, or fails and leaves the volume closed.                         *)
OpenFirst(t) ==
  /\ pc[t] = "o_first"
  /\ \/ /\ spa_namespace_lock \in {t, None}
        /\ \/ /\ zv_objset' = TRUE
              /\ zv_dn' = TRUE
              /\ Goto(t, "o_finish")
              /\ UNCHANGED <<zv_state_lock, zv_suspend_lock_r, spa_namespace_lock>>
           \/ /\ zv_state_lock' = None
              /\ zv_suspend_lock_r' = zv_suspend_lock_r \ {t}
              /\ Return(t)
              /\ UNCHANGED <<zv_objset, zv_dn>>
        /\ UNCHANGED drop_suspend
     \/ /\ spa_namespace_lock \notin {t, None}
        /\ zv_state_lock' = None
        /\ zv_suspend_lock_r' = zv_suspend_lock_r \ {t}
        /\ drop_suspend' = [drop_suspend EXCEPT ![t] = FALSE]
        /\ Goto(t, "o_lookup")
        /\ UNCHANGED <<zv_objset, zv_dn, spa_namespace_lock>>
  /\ UNCHANGED <<arg, new_open_count, held, zvol_state_lock_r,
                 zvol_state_lock_w, zv_suspend_lock_w, zv_open_count, zv_flags,
                 zso_dying, pp_private, enc_incompat>>

(* Seeded fault: the ZVOL_EXCL check (lines 314, 1001) is missing.        *)
OpenErrorNoExclCheck(a) ==
  \/ a.write /\ ("RDONLY" \in zv_flags \/ (zv_volmode = "geom" /\ enc_incompat))
  \/ a.excl /\ zv_open_count # 0

(* The read-only, exclusivity and O_EXCL checks, the count increment, and *)
(* out_opened: a failed first open is undone by zvol_last_close.          *)
OpenError(a) ==
  \/ a.write /\ ("RDONLY" \in zv_flags \/ (zv_volmode = "geom" /\ enc_incompat))
  \/ "EXCL" \in zv_flags
  \/ a.excl /\ zv_open_count # 0

(* Seeded fault: out_opened does not undo a first open that failed its   *)
(* later checks (no zvol_last_close when the count is still zero).        *)
OpenFinishNoUndo(t) ==
  /\ pc[t] = "o_finish"
  /\ LET a   == arg[t]
         err == OpenError(a)
         cnt == IF err THEN zv_open_count ELSE zv_open_count + a.count
     IN  /\ zv_open_count' = cnt
         /\ zv_flags' = IF ~err /\ a.excl THEN zv_flags \cup {"EXCL"} ELSE zv_flags
         /\ held' = IF err THEN held ELSE [held EXCEPT ![t] = @ + a.count]
  /\ zv_state_lock' = None
  /\ zv_suspend_lock_r' = IF drop_suspend[t] THEN zv_suspend_lock_r \ {t}
                                              ELSE zv_suspend_lock_r
  /\ Return(t)
  /\ UNCHANGED <<arg, drop_suspend, new_open_count, zvol_state_lock_r,
                 zvol_state_lock_w, zv_suspend_lock_w, zso_dying, pp_private,
                 zv_objset, zv_dn, enc_incompat>>

OpenFinish(t) ==
  /\ pc[t] = "o_finish"
  /\ LET a   == arg[t]
         err == OpenError(a)
         cnt == IF err THEN zv_open_count ELSE zv_open_count + a.count
     IN  /\ zv_open_count' = cnt
         /\ zv_flags' = IF ~err /\ a.excl THEN zv_flags \cup {"EXCL"} ELSE zv_flags
         /\ held' = IF err THEN held ELSE [held EXCEPT ![t] = @ + a.count]
         /\ zv_objset' = (zv_objset /\ cnt # 0)
         /\ zv_dn' = (zv_dn /\ cnt # 0)
  /\ zv_state_lock' = None
  /\ zv_suspend_lock_r' = IF drop_suspend[t] THEN zv_suspend_lock_r \ {t}
                                              ELSE zv_suspend_lock_r
  /\ Return(t)
  /\ UNCHANGED <<arg, drop_suspend, new_open_count, zvol_state_lock_r,
                 zvol_state_lock_w, zv_suspend_lock_w, zso_dying, pp_private,
                 enc_incompat>>

-----------------------------------------------------------------------------
(* Close: zvol_geom_close (lines 340-409) and zvol_cdev_close (1027-1092). *)

CloseCall(t) ==
  /\ pc[t] = "idle"
  /\ held[t] > 0
  /\ t \in NsThreads => spa_namespace_lock = None
  /\ \E c \in CloseCounts(t) :
       arg' = [arg EXCEPT ![t] = [write |-> FALSE, excl |-> FALSE, count |-> c]]
  /\ drop_suspend' = [drop_suspend EXCEPT ![t] = TRUE]
  /\ Goto(t, "c_lookup")
  /\ spa_namespace_lock' = IF t \in NsThreads THEN t ELSE spa_namespace_lock
  /\ UNCHANGED <<new_open_count, held, zvol_state_lock_r, zvol_state_lock_w,
                 zv_state_lock, zv_suspend_lock_r, zv_suspend_lock_w, zvVars>>

(* Look the volume up under zvol_state_lock; a removed volume answers     *)
(* ENXIO and the caller's opens are gone with it.                         *)
CloseLookup(t) ==
  /\ pc[t] = "c_lookup"
  /\ zvol_state_lock_w = None
  /\ \/ /\ pp_private
        /\ zvol_state_lock_r' = zvol_state_lock_r \cup {t}
        /\ Goto(t, "c_mutex")
        /\ UNCHANGED <<held, spa_namespace_lock>>
     \/ /\ ~pp_private
        /\ held' = [held EXCEPT ![t] = @ - arg[t].count]
        /\ Return(t)
        /\ UNCHANGED zvol_state_lock_r
  /\ UNCHANGED <<arg, drop_suspend, new_open_count, zvol_state_lock_w,
                 zv_state_lock, zv_suspend_lock_r, zv_suspend_lock_w, zvVars>>

(* Lines 390-408: store the new count, run zvol_last_close when it is     *)
(* zero, drop zv_state_lock and return (the caller of CloseApply releases *)
(* zv_suspend_lock).                                                      *)
CloseApply(t, nc) ==
  /\ zvol_state_lock_r' = zvol_state_lock_r \ {t}
  /\ zv_open_count' = nc
  /\ zv_objset' = (zv_objset /\ nc # 0)
  /\ zv_dn' = (zv_dn /\ nc # 0)
  /\ held' = [held EXCEPT ![t] = @ - arg[t].count]
  /\ zv_state_lock' = None
  /\ Return(t)

(* Seeded fault: the last close does not wait for zv_suspend_lock (as if *)
(* rw_tryenter always succeeded).                                         *)
CloseLockStateNoSuspend(t) ==
  /\ pc[t] = "c_mutex"
  /\ zv_state_lock = None
  /\ LET nc == zv_open_count - arg[t].count
     IN  /\ zv_flags' = zv_flags \ {"EXCL"}
         /\ new_open_count' = [new_open_count EXCEPT ![t] = nc]
         /\ drop_suspend' = [drop_suspend EXCEPT ![t] = FALSE]
         /\ CloseApply(t, nc)
  /\ UNCHANGED <<arg, zvol_state_lock_w, zv_suspend_lock_r, zv_suspend_lock_w,
                 zso_dying, pp_private, enc_incompat>>

(* Seeded fault: a last close that must wait for zv_suspend_lock clears  *)
(* ZVOL_EXCL only after retaking zv_state_lock, and so never.             *)
CloseLockStateLateExcl(t) ==
  /\ pc[t] = "c_mutex"
  /\ zv_state_lock = None
  /\ LET nc == zv_open_count - arg[t].count
     IN  /\ zv_flags' = IF nc = 0 /\ ~SuspendReadable THEN zv_flags
                                                    ELSE zv_flags \ {"EXCL"}
         /\ new_open_count' = [new_open_count EXCEPT ![t] = nc]
         /\ \/ /\ nc = 0 /\ SuspendReadable
               /\ CloseApply(t, nc)
               /\ UNCHANGED drop_suspend
            \/ /\ nc = 0 /\ ~SuspendReadable
               /\ Goto(t, "c_susp")
               /\ UNCHANGED <<zvol_state_lock_r, zv_open_count, zv_objset, zv_dn,
                              held, zv_state_lock, spa_namespace_lock, drop_suspend>>
            \/ /\ nc # 0
               /\ drop_suspend' = [drop_suspend EXCEPT ![t] = FALSE]
               /\ CloseApply(t, nc)
  /\ UNCHANGED <<arg, zvol_state_lock_w, zv_suspend_lock_r, zv_suspend_lock_w,
                 zso_dying, pp_private, enc_incompat>>

(* Seeded fault: a last close that must wait for zv_suspend_lock drops   *)
(* zvol_state_lock with zv_state_lock, before blocking.                   *)
CloseLockStateEarlyUnlock(t) ==
  /\ pc[t] = "c_mutex"
  /\ zv_state_lock = None
  /\ LET nc == zv_open_count - arg[t].count
     IN  /\ zv_flags' = zv_flags \ {"EXCL"}
         /\ new_open_count' = [new_open_count EXCEPT ![t] = nc]
         /\ \/ /\ nc = 0 /\ SuspendReadable
               /\ CloseApply(t, nc)
               /\ UNCHANGED drop_suspend
            \/ /\ nc = 0 /\ ~SuspendReadable
               /\ Goto(t, "c_susp")
               /\ zvol_state_lock_r' = zvol_state_lock_r \ {t}
               /\ UNCHANGED <<zv_open_count, zv_objset, zv_dn,
                              held, zv_state_lock, spa_namespace_lock, drop_suspend>>
            \/ /\ nc # 0
               /\ drop_suspend' = [drop_suspend EXCEPT ![t] = FALSE]
               /\ CloseApply(t, nc)
  /\ UNCHANGED <<arg, zvol_state_lock_w, zv_suspend_lock_r, zv_suspend_lock_w,
                 zso_dying, pp_private, enc_incompat>>

(* Take zv_state_lock, clear ZVOL_EXCL, and for the last close try to     *)
(* take zv_suspend_lock; if that fails drop zv_state_lock to block on it. *)
CloseLockState(t) ==
  /\ pc[t] = "c_mutex"
  /\ zv_state_lock = None
  /\ LET nc == zv_open_count - arg[t].count
     IN  /\ zv_flags' = zv_flags \ {"EXCL"}
         /\ new_open_count' = [new_open_count EXCEPT ![t] = nc]
         /\ \/ /\ nc = 0 /\ SuspendReadable
               /\ CloseApply(t, nc)
               /\ UNCHANGED drop_suspend
            \/ /\ nc = 0 /\ ~SuspendReadable
               /\ Goto(t, "c_susp")
               /\ UNCHANGED <<zvol_state_lock_r, zv_open_count, zv_objset, zv_dn,
                              held, zv_state_lock, spa_namespace_lock, drop_suspend>>
            \/ /\ nc # 0
               /\ drop_suspend' = [drop_suspend EXCEPT ![t] = FALSE]
               /\ CloseApply(t, nc)
  /\ UNCHANGED <<arg, zvol_state_lock_w, zv_suspend_lock_r, zv_suspend_lock_w,
                 zso_dying, pp_private, enc_incompat>>

CloseWaitSuspend(t) ==
  /\ pc[t] = "c_susp"
  /\ SuspendReadable
  /\ zv_suspend_lock_r' = zv_suspend_lock_r \cup {t}
  /\ Goto(t, "c_relock")
  /\ UNCHANGED <<thrVars, zvol_state_lock_r, zvol_state_lock_w, zv_state_lock,
                 zv_suspend_lock_w, spa_namespace_lock, zvVars>>

(* Seeded fault: the new count computed before zv_state_lock was dropped *)
(* is reused after retaking it (line 381 missing).                        *)
CloseRelockStaleCount(t) ==
  /\ pc[t] = "c_relock"
  /\ zv_state_lock = None
  /\ LET nc == new_open_count[t]
     IN  /\ new_open_count' = new_open_count
         /\ drop_suspend' = [drop_suspend EXCEPT ![t] = (nc = 0)]
         /\ CloseApply(t, nc)
  /\ zv_suspend_lock_r' = zv_suspend_lock_r \ {t}
  /\ UNCHANGED <<arg, zvol_state_lock_w, zv_suspend_lock_w, zv_flags, zso_dying,
                 pp_private, enc_incompat>>

(* Retake zv_state_lock and recompute the new count: another thread may   *)
(* have opened meanwhile, and then zv_suspend_lock is not needed.         *)
CloseRelock(t) ==
  /\ pc[t] = "c_relock"
  /\ zv_state_lock = None
  /\ LET nc == zv_open_count - arg[t].count
     IN  /\ new_open_count' = [new_open_count EXCEPT ![t] = nc]
         /\ drop_suspend' = [drop_suspend EXCEPT ![t] = (nc = 0)]
         /\ CloseApply(t, nc)
  /\ zv_suspend_lock_r' = zv_suspend_lock_r \ {t}
  /\ UNCHANGED <<arg, zvol_state_lock_w, zv_suspend_lock_w, zv_flags, zso_dying,
                 pp_private, enc_incompat>>

-----------------------------------------------------------------------------
(* Administrative suspend and resume (zvol_suspend/zvol_resume, outside   *)
(* this file): take zv_suspend_lock as writer before zv_state_lock, shut  *)
(* the open volume down, and set it up again on resume.                   *)

AdminSuspend ==
  /\ pc[Admin] = "a_idle"
  /\ pp_private
  /\ zv_suspend_lock_w = None /\ zv_suspend_lock_r = {}
  /\ zv_suspend_lock_w' = Admin
  /\ Goto(Admin, "a_shutdown")
  /\ UNCHANGED <<thrVars, zvol_state_lock_r, zvol_state_lock_w, zv_state_lock,
                 zv_suspend_lock_r, spa_namespace_lock, zvVars>>

AdminShutdown ==
  /\ pc[Admin] = "a_shutdown"
  /\ zv_state_lock = None
  /\ zv_dn' = (zv_dn /\ zv_open_count = 0)
  /\ Goto(Admin, "a_suspended")
  /\ UNCHANGED <<thrVars, lockVars, zv_open_count, zv_flags, zso_dying,
                 pp_private, zv_objset, enc_incompat>>

AdminResume ==
  /\ pc[Admin] = "a_suspended"
  /\ zv_state_lock = None
  /\ zv_dn' = (zv_dn \/ zv_open_count > 0)
  /\ zv_suspend_lock_w' = None
  /\ Goto(Admin, "a_idle")
  /\ UNCHANGED <<thrVars, zvol_state_lock_r, zvol_state_lock_w, zv_state_lock,
                 zv_suspend_lock_r, spa_namespace_lock, zv_open_count, zv_flags,
                 zso_dying, pp_private, zv_objset, enc_incompat>>

-----------------------------------------------------------------------------
(* Removal: zvol_wait_close (lines 425-438) marks a GEOM volume dying and *)
(* sleeps until the last close wakes it or ten seconds pass; the removal  *)
(* then marks the volume ZVOL_REMOVING and clears the private pointer     *)
(* under zvol_state_lock as writer (zvol_os_clear_private, 1533-1553).    *)

WaitClose ==
  /\ pc[Remover] = "r_idle"
  /\ zv_state_lock = None
  /\ IF zv_volmode = "geom"
       THEN /\ zso_dying' = TRUE
            /\ Goto(Remover, IF zv_open_count # 0 THEN "r_sleep" ELSE "r_remove")
       ELSE /\ UNCHANGED zso_dying
            /\ Goto(Remover, "r_remove")
  /\ UNCHANGED <<thrVars, lockVars, zv_open_count, zv_flags, pp_private,
                 zv_objset, zv_dn, enc_incompat>>

(* msleep returns on wakeup(zv) or on its timeout, retaking the mutex.    *)
WaitCloseWake ==
  /\ pc[Remover] = "r_sleep"
  /\ zv_state_lock = None
  /\ Goto(Remover, "r_remove")
  /\ UNCHANGED <<thrVars, lockVars, zvVars>>

RemoveMinor ==
  /\ pc[Remover] = "r_remove"
  /\ zvol_state_lock_w = None /\ zvol_state_lock_r = {}
  /\ zv_state_lock = None
  /\ zv_flags' = zv_flags \cup {"REMOVING"}
  /\ pp_private' = FALSE
  /\ Goto(Remover, "r_done")
  /\ UNCHANGED <<thrVars, lockVars, zv_open_count, zso_dying, zv_objset, zv_dn,
                 enc_incompat>>

-----------------------------------------------------------------------------

ThreadInCall(t) ==
  \/ OpenLookup(t) \/ OpenLockState(t) \/ OpenWaitSuspend(t) \/ OpenRelock(t)
  \/ OpenFirst(t) \/ OpenFinish(t)
  \/ CloseLookup(t) \/ CloseLockState(t) \/ CloseWaitSuspend(t) \/ CloseRelock(t)

ThreadStep(t) == OpenCall(t) \/ CloseCall(t) \/ ThreadInCall(t)

AdminStep == AdminSuspend \/ AdminShutdown \/ AdminResume

RemoverStep == WaitClose \/ WaitCloseWake \/ RemoveMinor

(* No step changes the volmode a volume was made with.                    *)
Fixed == UNCHANGED zv_volmode

Next ==
  /\ \/ \E t \in Threads : ThreadStep(t)
     \/ AdminStep
     \/ RemoverStep
  /\ Fixed

Spec == Init /\ [][Next]_vars

(* A thread blocked on a lock is queued on a turnstile and the retry loop *)
(* yields, so a lock that keeps being released is eventually granted:     *)
(* strong fairness for the steps of a call in progress and for the admin  *)
(* and removal steps once started. Starting a call is up to the caller.   *)
Fairness ==
  /\ \A t \in Threads : SF_vars(ThreadInCall(t) /\ Fixed)
  /\ SF_vars(AdminShutdown /\ Fixed) /\ SF_vars(AdminResume /\ Fixed)
  /\ SF_vars(WaitCloseWake /\ Fixed) /\ SF_vars(RemoveMinor /\ Fixed)

FairSpec == Spec /\ Fairness

-----------------------------------------------------------------------------
(* Properties *)

TypeOK ==
  /\ pc \in [Actors -> ThreadPcs \cup AdminPcs \cup RemoverPcs]
  /\ \A t \in Threads : pc[t] \in ThreadPcs
  /\ pc[Admin] \in AdminPcs /\ pc[Remover] \in RemoverPcs
  /\ arg \in [Threads -> [write : BOOLEAN, excl : BOOLEAN, count : 0..MaxHeld]]
  /\ drop_suspend \in [Threads -> BOOLEAN]
  /\ new_open_count \in [Threads -> Int]
  /\ held \in [Threads -> 0..MaxHeld]
  /\ zvol_state_lock_r \subseteq Actors /\ zvol_state_lock_w \in Actors \cup {None}
  /\ zv_state_lock \in Actors \cup {None}
  /\ zv_suspend_lock_r \subseteq Threads /\ zv_suspend_lock_w \in {Admin, None}
  /\ spa_namespace_lock \in Threads \cup {None}
  /\ zv_open_count \in 0..(MaxHeld * Cardinality(Threads))
  /\ zv_flags \subseteq {"EXCL", "RDONLY", "REMOVING"}
  /\ zso_dying \in BOOLEAN /\ pp_private \in BOOLEAN
  /\ zv_objset \in BOOLEAN /\ zv_dn \in BOOLEAN /\ enc_incompat \in BOOLEAN
  /\ zv_volmode \in VolModes

(* zv_open_count is exactly the number of opens the callers hold, while   *)
(* the volume is reachable: the first-open and last-close transitions     *)
(* that drop zv_state_lock to wait for zv_suspend_lock neither lose nor   *)
(* invent an open (zvol_geom_open/close, zvol_cdev_open/close).           *)
OpenCountAccurate ==
  pp_private => zv_open_count = SumFunction(held)

(* Whenever zv_state_lock is free, the objset is owned exactly while the  *)
(* volume is open, and its dnode is set up exactly while it is owned and  *)
(* no administrative suspend has shut it down: first open, last close and *)
(* a failed open undone at out_opened keep the volume consistent with the *)
(* shutdown/setup that zvol_suspend/zvol_resume decide on zv_open_count.  *)
VolumeStateCoherent ==
  zv_state_lock = None =>
    /\ zv_objset <=> zv_open_count > 0
    /\ zv_dn <=> (zv_objset /\ pc[Admin] # "a_suspended")

(* While zvol_suspend holds zv_suspend_lock as writer no open or close    *)
(* takes or gives up the objset: the first open and the last close wait   *)
(* for zv_suspend_lock as readers.                                        *)
NoOwnershipChangeWhileSuspended ==
  [][zv_suspend_lock_w # None => UNCHANGED zv_objset]_vars

(* An O_EXCL open of the character device is the only open while         *)
(* ZVOL_EXCL is set on a reachable volume: zvol_cdev_open refuses every   *)
(* other open with EBUSY.                                                 *)
ExclusiveSole ==
  pp_private /\ "EXCL" \in zv_flags =>
    /\ zv_open_count = 1
    /\ Cardinality({t \in Threads : held[t] > 0}) = 1

(* No set of actors in the middle of a call waits on locks held by each   *)
(* other: zv_suspend_lock is taken before zv_state_lock, and a first open *)
(* that cannot take spa_namespace_lock without blocking backs off.        *)
ActorStep(a) ==
  CASE a \in Threads -> ThreadInCall(a)
    [] a = Admin     -> AdminShutdown \/ AdminResume
    [] OTHER         -> WaitCloseWake \/ RemoveMinor

InCall(a) ==
  CASE a \in Threads -> pc[a] # "idle"
    [] a = Admin     -> pc[a] # "a_idle"
    [] OTHER         -> pc[a] \in {"r_sleep", "r_remove"}

WaitedOn(a) ==
  LET l == pc[a]
      w == CASE l \in {"o_lookup", "c_lookup"} -> {zvol_state_lock_w}
             [] l \in {"o_mutex", "c_mutex", "o_relock", "c_relock",
                       "a_shutdown", "a_suspended", "r_sleep"} -> {zv_state_lock}
             [] l \in {"o_susp", "c_susp"} -> {zv_suspend_lock_w}
             [] l = "o_first" -> {spa_namespace_lock}
             [] l = "r_remove" -> zvol_state_lock_r \cup {zvol_state_lock_w, zv_state_lock}
             [] OTHER -> {}
  IN  w \ {None}

NoCircularWait ==
  LET blocked == {a \in Actors : InCall(a) /\ ~ENABLED ActorStep(a)}
      waits   == [x, y \in blocked |-> y \in WaitedOn(x)]
      tc      == TransitiveClosure(waits, blocked)
  IN  \A a \in blocked : ~tc[a, a]

(* Every open and close returns. A thread whose first open finds          *)
(* spa_namespace_lock taken retries, so it can only be sure to return     *)
(* once the threads that hold that lock around their calls stop calling.  *)
NsQuiet == \A n \in NsThreads : pc[n] = "idle"

CallsReturn ==
  /\ \A n \in NsThreads : (pc[n] # "idle") ~> (pc[n] = "idle")
  /\ <>[]NsQuiet => \A t \in Threads : (pc[t] # "idle") ~> (pc[t] = "idle")

(* An open never raises the open count of a volume that zvol_wait_close   *)
(* has marked dying (zvol_geom_open, zvol_cdev_open: "open fails with     *)
(* Gone if the volume is marked dying").                                  *)
NoOpenAfterDying ==
  [][zv_open_count' > zv_open_count => ~zso_dying]_vars


(* Once removal has cleared the private pointer, which it may do after   *)
(* zvol_wait_close's ten-second timeout with opens outstanding, no open  *)
(* or close changes the volume's open count: a late close answers ENXIO  *)
(* at its lookup, and calls already past the lookup keep zvol_state_lock *)
(* as reader across their zv_suspend_lock wait, so the removal waits for *)
(* them (zvol_geom_open/close, zvol_cdev_open/close, 425-438).           *)
RemovedCountFrozen ==
  [][~pp_private => UNCHANGED zv_open_count]_vars

(* The open state seen through the opens the callers hold and ZVOL_EXCL  *)
(* on a reachable volume behaves as ZvolOpenState. A close takes effect  *)
(* when it clears ZVOL_EXCL under zv_state_lock (zvol_geom_close,        *)
(* zvol_cdev_close), even when a last close then drops the mutex to wait *)
(* for zv_suspend_lock: from then on new opens are admitted as if it had *)
(* returned. Clearing the private pointer (zvol_os_clear_private) drops  *)
(* every open at once.                                                   *)
OpenState == INSTANCE ZvolOpenState WITH
  holders <- IF pp_private
               THEN {t \in Threads : held[t] > 0 /\ pc[t] \notin {"c_susp", "c_relock"}}
               ELSE {},
  excl    <- pp_private /\ "EXCL" \in zv_flags

OpenStateRefined == OpenState!Spec

=============================================================================
