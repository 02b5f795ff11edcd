----------------------------- MODULE ZvolLifecycle -----------------------------
(***************************************************************************)
(* The life of a dev-mode zvol's character device (src/module/os/freebsd/  *)
(* zfs/zvol_os.c) while threads open, close and issue bios on it:          *)
(* zvol_os_rename_minor, which destroys the cdev, forcibly closes what was *)
(* open on it and makes a new one; removal, which clears si_drv2           *)
(* (zvol_os_clear_private) and frees the volume (zvol_os_free); and        *)
(* zvol_os_create_minor with zvol_alloc, which makes the volume and its    *)
(* cdev, while threads may already open that cdev.                         *)
(*                                                                         *)
(* The callers of rename and removal are in zvol.c, outside this file;     *)
(* they hold zvol_state_lock and zv_state_lock around the call, as the    *)
(* ASSERTs at its top say. destroy_dev (destroy_dev(9)) makes new calls of *)
(* the cdev's methods fail and sleeps until the threads inside them have  *)
(* left; a bio handed to d_strategy is not counted once it is queued.     *)
(* The suspend-lock retry of open and close is ZvolOpenClose's: here no   *)
(* suspend runs, so the try succeeds.                                     *)
(***************************************************************************)
EXTENDS Integers, FiniteSets

CONSTANTS
  Threads,    \* threads that open, close and issue bios
  Renamer,    \* the thread running zvol_rename_minors
  Remover,    \* the thread running the removal of the minor
  Creator,    \* the thread running zvol_os_create_minor for the volume's name
  Existing,   \* whether the volume already exists when create_minor runs
  Taskq,      \* the zvol taskq thread that runs queued bios
  None,       \* no lock holder
  MaxRename,  \* bound on renames
  MaxBio      \* bound on bios

ASSUME /\ {Renamer, Remover, Creator, Taskq, None} \cap Threads = {}
       /\ Existing \subseteq BOOLEAN /\ Existing # {}
       /\ MaxRename \in Nat /\ MaxBio \in Nat

Devs   == 1..(MaxRename + 1)   \* the cdevs made over the behaviour, in order
Actors == Threads \cup {Renamer, Remover, Creator}

VARIABLES
  pc,                 \* program point of every actor
  oexcl,              \* O_EXCL of a thread's open
  dv,                 \* the cdev a thread's call entered
  held,               \* the cdev a thread has open, 0 for none
  cur,                \* zsd_cdev: the volume's current cdev
  destroyed,          \* cdevs destroy_dev has been called on
  drv2,               \* cdevs whose si_drv2 points at the volume
  tcount,             \* si_threadcount: threads inside a cdev's methods
  zvol_state_lock_r,  \* readers of zvol_state_lock
  zvol_state_lock_w,  \* writer of zvol_state_lock
  zv_state_lock,      \* holder of zv_state_lock
  zv_suspend_lock_r,  \* readers of zv_suspend_lock (threads and the taskq)
  zv_open_count,
  zv_excl,            \* ZVOL_EXCL
  removing,           \* ZVOL_REMOVING
  objset,             \* zv_objset is owned (zvol_first_open .. zvol_last_close)
  queued,             \* threads whose bio is queued on the taskq
  running,            \* the thread whose bio the taskq runs, None for none
  bios,               \* bios issued so far
  renames,            \* renames done so far
  dropped,            \* cdevs whose opens rename has forcibly closed
  freed,              \* zvol_os_free has destroyed the locks
  registered,         \* zvol_insert has put the volume in the registry
  rwinit,             \* zvol_alloc has run rw_init(&zv->zv_suspend_lock)
  cowned              \* create_minor owns the objset (dmu_objset_own .. disown)

vars == <<pc, oexcl, dv, held, cur, destroyed, drv2, tcount, zvol_state_lock_r,
          zvol_state_lock_w, zv_state_lock, zv_suspend_lock_r, zv_open_count,
          zv_excl, removing, objset, queued, running, bios, renames, dropped, freed,
          registered, rwinit, cowned>>

thrVars  == <<oexcl, dv, held>>
devVars  == <<cur, destroyed, drv2, tcount>>
lockVars == <<zvol_state_lock_r, zvol_state_lock_w, zv_state_lock, zv_suspend_lock_r>>
volVars  == <<zv_open_count, zv_excl, removing, objset>>
ioVars   == <<queued, running, bios>>
admVars  == <<renames, dropped, freed, registered, rwinit, cowned>>

Init ==
  /\ pc = [a \in Actors |-> CASE a = Renamer -> "r_idle"
                              [] a = Remover -> "m_idle"
                              [] a = Creator -> "k_find"
                              [] OTHER       -> "idle"]
  /\ oexcl = [t \in Threads |-> FALSE]
  /\ dv = [t \in Threads |-> 1]
  /\ held = [t \in Threads |-> 0]
  /\ registered \in Existing /\ rwinit = registered /\ cowned = FALSE
  /\ cur = (IF registered THEN 1 ELSE 0) /\ destroyed = {}
  /\ drv2 = (IF registered THEN {1} ELSE {})
  /\ tcount = [d \in Devs |-> 0]
  /\ zvol_state_lock_r = {} /\ zvol_state_lock_w = None
  /\ zv_state_lock = None /\ zv_suspend_lock_r = {}
  /\ zv_open_count = 0 /\ zv_excl = FALSE /\ removing = FALSE /\ objset = FALSE
  /\ queued = {} /\ running = None /\ bios = 0
  /\ renames = 0 /\ dropped = {} /\ freed = FALSE

-----------------------------------------------------------------------------
Goto(a, l) == pc' = [pc EXCEPT ![a] = l]

(* devfs enters a method of cdev d (dev_refthread), or leaves it.          *)
Enter(d) == tcount' = [tcount EXCEPT ![d] = @ + 1]
Leave(d) == tcount' = [tcount EXCEPT ![d] = @ - 1]

(* rw_enter(&zvol_state_lock, RW_READER) is granted without a writer.      *)
StateReadable == zvol_state_lock_w = None

-----------------------------------------------------------------------------
(* zvol_cdev_open                                                          *)

(* open(2) of the volume's current cdev enters d_open, if there is one  *)
(* and destroy_dev has not been called on it.                              *)
OpenEnter(t) ==
  /\ pc[t] = "idle" /\ held[t] = 0 /\ cur # 0 /\ cur \notin destroyed
  /\ \E x \in BOOLEAN : oexcl' = [oexcl EXCEPT ![t] = x]
  /\ dv' = [dv EXCEPT ![t] = cur]
  /\ Enter(cur)
  /\ Goto(t, "o_lock")
  /\ UNCHANGED <<held, cur, destroyed, drv2, lockVars, volVars, ioVars, admVars>>

(* retry: take zvol_state_lock as reader and read si_drv2; ENXIO when it  *)
(* is cleared.                                                             *)
OpenLock(t) ==
  /\ pc[t] = "o_lock" /\ StateReadable
  /\ IF dv[t] \in drv2
       THEN /\ zvol_state_lock_r' = zvol_state_lock_r \cup {t}
            /\ Goto(t, "o_mutex")
            /\ UNCHANGED tcount
       ELSE /\ Leave(dv[t])
            /\ Goto(t, "idle")
            /\ UNCHANGED zvol_state_lock_r
  /\ UNCHANGED <<thrVars, cur, destroyed, drv2, zvol_state_lock_w, zv_state_lock,
                 zv_suspend_lock_r, volVars, ioVars, admVars>>

(* Seeded fault: open does not refuse a volume held with ZVOL_EXCL       *)
(* (the test at line 1001 missing).                                        *)
OpenMutexNoExclCheck(t) ==
  /\ pc[t] = "o_mutex" /\ zv_state_lock = None
  /\ LET first == zv_open_count = 0 IN
     /\ zv_suspend_lock_r' = IF first THEN zv_suspend_lock_r \cup {t}
                                      ELSE zv_suspend_lock_r
     /\ \/ /\ first
           /\ UNCHANGED <<held, zv_open_count, zv_excl, objset>>
        \/ /\ oexcl[t] /\ zv_open_count # 0
           /\ objset' = (zv_open_count > 0)
           /\ UNCHANGED <<held, zv_open_count, zv_excl>>
        \/ /\ ~(oexcl[t] /\ zv_open_count # 0) /\ ~(first /\ cowned)
           /\ objset' = TRUE
           /\ zv_open_count' = zv_open_count + 1
           /\ zv_excl' = oexcl[t]
           /\ held' = [held EXCEPT ![t] = dv[t]]
  /\ zvol_state_lock_r' = zvol_state_lock_r \ {t}
  /\ Goto(t, "o_out")
  /\ UNCHANGED <<oexcl, dv, devVars, zvol_state_lock_w, zv_state_lock, removing,
                 ioVars, admVars>>

(* mutex_enter(zv_state_lock) and everything up to mutex_exit: a first    *)
(* open takes zv_suspend_lock as reader, zvol_state_lock is dropped, and  *)
(* zvol_first_open may fail (out_zv_locked), and does fail with EBUSY     *)
(* while create_minor owns the objset; then the EBUSY checks of          *)
(* ZVOL_EXCL and O_EXCL, undone at out_opened by zvol_last_close when the *)
(* count is 0; otherwise the count is raised.                              *)
OpenMutex(t) ==
  /\ pc[t] = "o_mutex" /\ zv_state_lock = None
  /\ LET first == zv_open_count = 0 IN
     /\ zv_suspend_lock_r' = IF first THEN zv_suspend_lock_r \cup {t}
                                      ELSE zv_suspend_lock_r
     /\ \/ /\ first
           /\ UNCHANGED <<held, zv_open_count, zv_excl, objset>>
        \/ /\ zv_excl \/ (oexcl[t] /\ zv_open_count # 0)
           /\ objset' = (zv_open_count > 0)   \* zvol_first_open, then zvol_last_close
           /\ UNCHANGED <<held, zv_open_count, zv_excl>>
        \/ /\ ~zv_excl /\ ~(oexcl[t] /\ zv_open_count # 0) /\ ~(first /\ cowned)
           /\ objset' = TRUE
           /\ zv_open_count' = zv_open_count + 1
           /\ zv_excl' = oexcl[t]
           /\ held' = [held EXCEPT ![t] = dv[t]]
  /\ zvol_state_lock_r' = zvol_state_lock_r \ {t}
  /\ Goto(t, "o_out")
  /\ UNCHANGED <<oexcl, dv, devVars, zvol_state_lock_w, zv_state_lock, removing,
                 ioVars, admVars>>

(* out_locked: rw_exit(zv_suspend_lock) when it was taken; leave d_open.   *)
OpenOut(t) ==
  /\ pc[t] = "o_out"
  /\ zv_suspend_lock_r' = zv_suspend_lock_r \ {t}
  /\ Leave(dv[t])
  /\ Goto(t, "idle")
  /\ UNCHANGED <<thrVars, cur, destroyed, drv2, zvol_state_lock_r, zvol_state_lock_w,
                 zv_state_lock, volVars, ioVars, admVars>>

-----------------------------------------------------------------------------
(* zvol_cdev_close (D_TRACKCLOSE: devfs calls it for every close)          *)

(* Seeded fault: d_close is entered on a destroyed cdev as well.           *)
CloseEnterDestroyed(t) ==
  /\ pc[t] = "idle" /\ held[t] # 0
  /\ dv' = [dv EXCEPT ![t] = held[t]]
  /\ Enter(held[t])
  /\ Goto(t, "c_lock")
  /\ UNCHANGED <<oexcl, held, cur, destroyed, drv2, lockVars, volVars, ioVars, admVars>>

(* close(2) of a thread's open enters d_close, unless the cdev has been    *)
(* destroyed.                                                              *)
CloseEnter(t) ==
  /\ pc[t] = "idle" /\ held[t] # 0 /\ held[t] \notin destroyed
  /\ dv' = [dv EXCEPT ![t] = held[t]]
  /\ Enter(held[t])
  /\ Goto(t, "c_lock")
  /\ UNCHANGED <<oexcl, held, cur, destroyed, drv2, lockVars, volVars, ioVars, admVars>>

(* The close of an open that rename dropped: the cdev is destroyed, so    *)
(* devfs never reaches d_close.                                            *)
CloseDead(t) ==
  /\ pc[t] = "idle" /\ held[t] \in dropped
  /\ held' = [held EXCEPT ![t] = 0]
  /\ UNCHANGED <<pc, oexcl, dv, devVars, lockVars, volVars, ioVars, admVars>>

(* rw_enter(zvol_state_lock, RW_READER) and the si_drv2 read; ENXIO when *)
(* it is cleared.                                                          *)
CloseLock(t) ==
  /\ pc[t] = "c_lock" /\ StateReadable
  /\ IF dv[t] \in drv2
       THEN /\ zvol_state_lock_r' = zvol_state_lock_r \cup {t}
            /\ Goto(t, "c_mutex")
            /\ UNCHANGED <<held, tcount>>
       ELSE /\ Leave(dv[t])
            /\ held' = [held EXCEPT ![t] = 0]
            /\ Goto(t, "idle")
            /\ UNCHANGED zvol_state_lock_r
  /\ UNCHANGED <<oexcl, dv, cur, destroyed, drv2, zvol_state_lock_w, zv_state_lock,
                 zv_suspend_lock_r, volVars, ioVars, admVars>>

(* mutex_enter(zv_state_lock) up to mutex_exit: ZVOL_EXCL is cleared, the *)
(* last close takes zv_suspend_lock as reader, zvol_state_lock is dropped, *)
(* the count is lowered and at 0 zvol_last_close disowns the objset.       *)
CloseMutex(t) ==
  /\ pc[t] = "c_mutex" /\ zv_state_lock = None
  /\ zv_excl' = FALSE
  /\ zv_suspend_lock_r' = IF zv_open_count = 1 THEN zv_suspend_lock_r \cup {t}
                                               ELSE zv_suspend_lock_r
  /\ zvol_state_lock_r' = zvol_state_lock_r \ {t}
  /\ zv_open_count' = zv_open_count - 1
  /\ objset' = (objset /\ zv_open_count - 1 # 0)
  /\ held' = [held EXCEPT ![t] = 0]
  /\ Goto(t, "c_out")
  /\ UNCHANGED <<oexcl, dv, devVars, zvol_state_lock_w, zv_state_lock, removing,
                 ioVars, admVars>>

(* rw_exit(zv_suspend_lock) when drop_suspend; leave d_close.              *)
CloseOut(t) ==
  /\ pc[t] = "c_out"
  /\ zv_suspend_lock_r' = zv_suspend_lock_r \ {t}
  /\ Leave(dv[t])
  /\ Goto(t, "idle")
  /\ UNCHANGED <<thrVars, cur, destroyed, drv2, zvol_state_lock_r, zvol_state_lock_w,
                 zv_state_lock, volVars, ioVars, admVars>>

-----------------------------------------------------------------------------
(* Bios through d_strategy (zvol_cdev_bio_strategy): the issuing thread   *)
(* holds the cdev open and sleeps in biowait until the bio is done.       *)

(* dev_strategy enters d_strategy of the thread's open cdev.               *)
StrategyEnter(t) ==
  /\ pc[t] = "idle" /\ held[t] # 0 /\ held[t] \notin destroyed /\ bios < MaxBio
  /\ dv' = [dv EXCEPT ![t] = held[t]]
  /\ Enter(held[t])
  /\ bios' = bios + 1
  /\ Goto(t, "s_disp")
  /\ UNCHANGED <<oexcl, held, cur, destroyed, drv2, lockVars, volVars, queued,
                 running, admVars>>

(* zvol_geom_bio_strategy(bp, B_FALSE): biofinish with ENXIO when         *)
(* si_drv2 is cleared, else the bio is dispatched to the taskq; d_strategy *)
(* returns and the thread waits for the bio.                               *)
StrategyDispatch(t) ==
  /\ pc[t] = "s_disp"
  /\ IF dv[t] \in drv2
       THEN /\ queued' = queued \cup {t}
            /\ Goto(t, "s_wait")
       ELSE /\ Goto(t, "idle")
            /\ UNCHANGED queued
  /\ Leave(dv[t])
  /\ UNCHANGED <<thrVars, cur, destroyed, drv2, lockVars, volVars, running, bios, admVars>>

(* zvol_strategy_task: zvol_strategy_impl takes zv_suspend_lock as reader; *)
(* with ZVOL_REMOVING set the bio ends with ENXIO at once, otherwise it   *)
(* goes on to transfer through zv_objset.                                  *)
TaskBegin ==
  /\ running = None
  /\ \E t \in queued :
       /\ queued' = queued \ {t}
       /\ IF removing
            THEN /\ Goto(t, "idle")
                 /\ UNCHANGED <<running, zv_suspend_lock_r>>
            ELSE /\ running' = t
                 /\ zv_suspend_lock_r' = zv_suspend_lock_r \cup {Taskq}
                 /\ UNCHANGED pc
  /\ UNCHANGED <<thrVars, devVars, zvol_state_lock_r, zvol_state_lock_w, zv_state_lock,
                 volVars, bios, admVars>>

(* The transfer ends: rw_exit(zv_suspend_lock), biodone wakes the issuer. *)
TaskEnd ==
  /\ running # None
  /\ running' = None
  /\ zv_suspend_lock_r' = zv_suspend_lock_r \ {Taskq}
  /\ Goto(running, "idle")
  /\ UNCHANGED <<thrVars, devVars, zvol_state_lock_r, zvol_state_lock_w, zv_state_lock,
                 volVars, queued, bios, admVars>>

-----------------------------------------------------------------------------
(* Rename: zvol_rename_minors in zvol.c finds the volume under            *)
(* zvol_state_lock as reader and takes zv_state_lock, then calls          *)
(* zvol_os_rename_minor.                                                   *)

RenameLock ==
  /\ pc[Renamer] = "r_idle" /\ renames < MaxRename /\ registered /\ StateReadable
  /\ zvol_state_lock_r' = zvol_state_lock_r \cup {Renamer}
  /\ Goto(Renamer, "r_mutex")
  /\ UNCHANGED <<thrVars, devVars, zvol_state_lock_w, zv_state_lock, zv_suspend_lock_r,
                 volVars, ioVars, admVars>>

(* mutex_enter(zv_state_lock); zvol_os_rename_minor rehashes the volume   *)
(* and, when it has a cdev, calls destroy_dev on it: from here on no new *)
(* call enters the cdev's methods.                                         *)
RenameDestroy ==
  /\ pc[Renamer] = "r_mutex" /\ zv_state_lock = None
  /\ zv_state_lock' = Renamer
  /\ destroyed' = IF cur # 0 THEN destroyed \cup {cur} ELSE destroyed
  /\ Goto(Renamer, IF cur # 0 THEN "r_drain" ELSE "r_make")
  /\ UNCHANGED <<thrVars, cur, drv2, tcount, zvol_state_lock_r, zvol_state_lock_w,
                 zv_suspend_lock_r, volVars, ioVars, admVars>>

(* Seeded fault: the open count is not reset (line 1293 missing).          *)
RenameDrainNoReset ==
  /\ pc[Renamer] = "r_drain" /\ tcount[cur] = 0
  /\ cur' = 0
  /\ dropped' = dropped \cup {cur}
  /\ IF zv_open_count > 0
       THEN /\ zv_excl' = FALSE
            /\ objset' = FALSE
            /\ UNCHANGED zv_open_count
       ELSE UNCHANGED <<zv_open_count, zv_excl, objset>>
  /\ Goto(Renamer, "r_make")
  /\ UNCHANGED <<thrVars, destroyed, drv2, tcount, lockVars, removing, ioVars,
                 renames, freed, registered, rwinit, cowned>>

(* Seeded fault: the forced close leaves the objset owned (line 1295      *)
(* missing).                                                               *)
RenameDrainNoLastClose ==
  /\ pc[Renamer] = "r_drain" /\ tcount[cur] = 0
  /\ cur' = 0
  /\ dropped' = dropped \cup {cur}
  /\ IF zv_open_count > 0
       THEN /\ zv_excl' = FALSE
            /\ zv_open_count' = 0
            /\ UNCHANGED objset
       ELSE UNCHANGED <<zv_open_count, zv_excl, objset>>
  /\ Goto(Renamer, "r_make")
  /\ UNCHANGED <<thrVars, destroyed, drv2, tcount, lockVars, removing, ioVars,
                 renames, freed, registered, rwinit, cowned>>

(* destroy_dev returns once no thread is inside the cdev's methods;       *)
(* zsd_cdev = NULL. With opens left, ZVOL_EXCL is cleared, the count is   *)
(* forced to 0 and zvol_last_close runs, without zv_suspend_lock ("XXX    *)
(* need suspend lock but lock order"). The opens on the old cdev are     *)
(* gone: devfs will not call d_close for them.                             *)
RenameDrain ==
  /\ pc[Renamer] = "r_drain" /\ tcount[cur] = 0
  /\ cur' = 0
  /\ dropped' = dropped \cup {cur}
  /\ IF zv_open_count > 0
       THEN /\ zv_excl' = FALSE
            /\ zv_open_count' = 0
            /\ objset' = FALSE
       ELSE UNCHANGED <<zv_open_count, zv_excl, objset>>
  /\ Goto(Renamer, "r_make")
  /\ UNCHANGED <<thrVars, destroyed, drv2, tcount, lockVars, removing, ioVars,
                 renames, freed, registered, rwinit, cowned>>

(* make_dev_s of the cdev under the new name, with si_drv2 = zv; when it  *)
(* fails zsd_cdev stays NULL. The caller then drops zv_state_lock and     *)
(* zvol_state_lock.                                                        *)
RenameMake ==
  /\ pc[Renamer] = "r_make"
  /\ \/ /\ cur' = renames + 2
        /\ drv2' = drv2 \cup {renames + 2}
     \/ UNCHANGED <<cur, drv2>>
  /\ renames' = renames + 1
  /\ zv_state_lock' = None
  /\ zvol_state_lock_r' = zvol_state_lock_r \ {Renamer}
  /\ Goto(Renamer, "r_idle")
  /\ UNCHANGED <<thrVars, destroyed, tcount, zvol_state_lock_w, zv_suspend_lock_r,
                 volVars, ioVars, dropped, freed, registered, rwinit, cowned>>

-----------------------------------------------------------------------------
(* Removal: zvol_remove_minor in zvol.c takes zvol_state_lock as writer,  *)
(* finds the volume by name in the registry and takes zv_state_lock,      *)
(* refuses an open volume with EBUSY, unhashes it (zvol_remove),          *)
(* calls zvol_os_clear_private, drops both locks and calls zvol_os_free.   *)

RemoveLock ==
  /\ pc[Remover] = "m_idle" /\ registered
  /\ zvol_state_lock_w = None /\ zvol_state_lock_r = {}
  /\ zvol_state_lock_w' = Remover
  /\ Goto(Remover, "m_mutex")
  /\ UNCHANGED <<thrVars, devVars, zvol_state_lock_r, zv_state_lock, zv_suspend_lock_r,
                 volVars, ioVars, admVars>>

(* Under zv_state_lock: EBUSY with opens left; otherwise ZVOL_REMOVING is *)
(* set, the volume leaves the registry and zvol_os_clear_private clears   *)
(* si_drv2 of zsd_cdev.                                                    *)
RemoveCheck ==
  /\ pc[Remover] = "m_mutex" /\ zv_state_lock = None
  /\ zvol_state_lock_w' = None
  /\ IF zv_open_count > 0
       THEN /\ Goto(Remover, "m_idle")
            /\ UNCHANGED <<drv2, removing, registered>>
       ELSE /\ removing' = TRUE
            /\ registered' = FALSE
            /\ drv2' = drv2 \ {cur}
            /\ Goto(Remover, "m_free")
  /\ UNCHANGED <<thrVars, cur, destroyed, tcount, zvol_state_lock_r, zv_state_lock,
                 zv_suspend_lock_r, zv_open_count, zv_excl, objset, ioVars, renames,
                 dropped, freed, rwinit, cowned>>

(* zvol_os_free: ASSERT(!RW_LOCK_HELD(&zv->zv_suspend_lock)), then        *)
(* rw_destroy(&zv->zv_suspend_lock) and zfs_rangelock_fini.                *)
RemoveFree ==
  /\ pc[Remover] = "m_free"
  /\ freed' = TRUE
  /\ Goto(Remover, "m_destroy")
  /\ UNCHANGED <<thrVars, devVars, lockVars, volVars, ioVars, renames, dropped,
                 registered, rwinit, cowned>>

(* then destroy_dev(zsd_cdev), which waits for the threads inside its     *)
(* methods, and the volume is freed.                                       *)
RemoveDestroyDev ==
  /\ pc[Remover] = "m_destroy"
  /\ cur # 0 => tcount[cur] = 0
  /\ destroyed' = IF cur # 0 THEN destroyed \cup {cur} ELSE destroyed
  /\ Goto(Remover, "m_done")
  /\ UNCHANGED <<thrVars, cur, drv2, tcount, lockVars, volVars, ioVars, admVars>>

-----------------------------------------------------------------------------
(* zvol_os_create_minor for the volume's name (dev volmode). The steps    *)
(* other threads can tell apart are the lookup, the objset ownership,     *)
(* make_dev_s inside zvol_alloc, rw_init after it, the disown and the     *)
(* insert into the registry. zvol_inhibit_dev is off.                     *)

(* zvol_find_by_name_hash under zvol_state_lock as reader: EEXIST (after  *)
(* mutex_exit of the zv_state_lock it returns with) when the name is in  *)
(* the registry.                                                           *)
CreateFind ==
  /\ pc[Creator] = "k_find" /\ StateReadable
  /\ registered => zv_state_lock = None
  /\ Goto(Creator, IF registered THEN "k_done" ELSE "k_own")
  /\ UNCHANGED <<thrVars, devVars, lockVars, volVars, ioVars, admVars>>

(* dmu_objset_own fails (EBUSY while an open volume owns it), or it       *)
(* succeeds and dmu_object_info or zap_lookup fails and the objset is     *)
(* disowned at once, or the creator goes on owning the objset.            *)
CreateOwn ==
  /\ pc[Creator] = "k_own"
  /\ \/ /\ Goto(Creator, "k_done")
        /\ UNCHANGED cowned
     \/ /\ ~objset /\ ~cowned
        /\ cowned' = TRUE
        /\ Goto(Creator, "k_alloc")
  /\ UNCHANGED <<thrVars, devVars, lockVars, volVars, ioVars, renames, dropped,
                 freed, registered, rwinit>>

(* zvol_alloc returns NULL when the volmode property cannot be read or is *)
(* none, or when make_dev_s fails; create_minor then disowns the objset   *)
(* and returns EAGAIN. Otherwise make_dev_s has made the cdev with        *)
(* si_drv2 = zv: from here on it can be opened.                           *)
CreateAlloc ==
  /\ pc[Creator] = "k_alloc"
  /\ \/ /\ cowned' = FALSE
        /\ Goto(Creator, "k_done")
        /\ UNCHANGED <<cur, drv2>>
     \/ /\ cur' = 1 /\ drv2' = drv2 \cup {1}
        /\ Goto(Creator, "k_init")
        /\ UNCHANGED cowned
  /\ UNCHANGED <<thrVars, destroyed, tcount, lockVars, volVars, ioVars, renames,
                 dropped, freed, registered, rwinit>>

(* The tail of zvol_alloc: rw_init(&zv->zv_suspend_lock) and              *)
(* zfs_rangelock_init; create_minor sets ZVOL_RDONLY, zv_volsize and      *)
(* zv_objset.                                                              *)
CreateInit ==
  /\ pc[Creator] = "k_init"
  /\ rwinit' = TRUE
  /\ Goto(Creator, "k_kstats")
  /\ UNCHANGED <<thrVars, devVars, lockVars, volVars, ioVars, renames, dropped,
                 freed, registered, cowned>>

(* dataset_kstats_create fails and create_minor jumps to                  *)
(* out_dmu_objset_disown, returning the error with zv and its cdev left   *)
(* as they are; or the ZIL is opened, replayed and closed, zv_objset is   *)
(* cleared and the objset disowned.                                        *)
CreateKstats ==
  /\ pc[Creator] = "k_kstats"
  /\ cowned' = FALSE
  /\ \/ Goto(Creator, "k_done")
     \/ Goto(Creator, "k_insert")
  /\ UNCHANGED <<thrVars, devVars, lockVars, volVars, ioVars, renames, dropped,
                 freed, registered, rwinit>>

(* With error == 0: zvol_insert under zvol_state_lock as writer.           *)
CreateInsert ==
  /\ pc[Creator] = "k_insert"
  /\ zvol_state_lock_w = None /\ zvol_state_lock_r = {}
  /\ registered' = TRUE
  /\ Goto(Creator, "k_done")
  /\ UNCHANGED <<thrVars, devVars, lockVars, volVars, ioVars, renames, dropped,
                 freed, rwinit, cowned>>

-----------------------------------------------------------------------------
Thread(t) ==
  \/ OpenEnter(t) \/ OpenLock(t) \/ OpenMutex(t) \/ OpenOut(t)
  \/ CloseEnter(t) \/ CloseDead(t) \/ CloseLock(t) \/ CloseMutex(t) \/ CloseOut(t)
  \/ StrategyEnter(t) \/ StrategyDispatch(t)

Next ==
  \/ \E t \in Threads : Thread(t)
  \/ TaskBegin \/ TaskEnd
  \/ RenameLock \/ RenameDestroy \/ RenameDrain \/ RenameMake
  \/ RemoveLock \/ RemoveCheck \/ RemoveFree \/ RemoveDestroyDev
  \/ CreateFind \/ CreateOwn \/ CreateAlloc \/ CreateInit \/ CreateKstats
  \/ CreateInsert

Spec == Init /\ [][Next]_vars

-----------------------------------------------------------------------------
(* Properties *)

TypeOK ==
  /\ oexcl \in [Threads -> BOOLEAN] /\ dv \in [Threads -> Devs]
  /\ held \in [Threads -> {0} \cup Devs]
  /\ cur \in {0} \cup Devs /\ destroyed \subseteq Devs /\ drv2 \subseteq Devs
  /\ tcount \in [Devs -> 0..Cardinality(Threads)]
  /\ zvol_state_lock_r \subseteq Actors /\ zvol_state_lock_w \in {None, Remover}
  /\ zv_state_lock \in {None, Renamer}
  /\ zv_suspend_lock_r \subseteq Threads \cup {Taskq}
  /\ zv_open_count \in 0..Cardinality(Threads)
  /\ {zv_excl, removing, objset, freed, registered, rwinit, cowned} \subseteq BOOLEAN
  /\ queued \subseteq Threads /\ running \in Threads \cup {None}
  /\ bios \in 0..MaxBio /\ renames \in 0..MaxRename /\ dropped \subseteq Devs

(* A thread's open still counts unless rename has dropped its cdev.        *)
Live(t) == held[t] # 0 /\ held[t] \notin dropped

(* zv_open_count is the number of opens that devfs will still close       *)
(* through d_close, and ZVOL_EXCL is set only while the one such open was *)
(* made with O_EXCL: rename's forced close (clear ZVOL_EXCL, count = 0)   *)
(* leaves no count that a d_close would never take back, and no EXCL     *)
(* that would turn every later open away with EBUSY.                       *)
OpenCountTracksHolders ==
  /\ zv_open_count = Cardinality({t \in Threads : Live(t)})
  /\ zv_excl => \E t \in Threads : /\ Live(t) /\ oexcl[t]
                                   /\ \A u \in Threads : Live(u) => u = t

(* The objset is owned exactly while the volume is open, and never by the *)
(* volume and create_minor at once: every path that takes zv_open_count  *)
(* to 0 (open's out_opened, the last close, rename's forced close) calls  *)
(* zvol_last_close, every first open that fails leaves it disowned, and a *)
(* first open through the cdev zvol_alloc published fails while          *)
(* create_minor still owns the objset.                                     *)
ObjsetIffOpen == /\ objset <=> zv_open_count > 0
                 /\ ~(objset /\ cowned)

(* A bio the taskq runs through zvol_strategy_impl finds the objset       *)
(* owned: the volume stays open while a bio on it is outstanding.          *)
IOHasObjset == running # None => objset

(* While rename sleeps in destroy_dev, no thread inside the cdev's        *)
(* d_open or d_close is waiting for the zv_state_lock that rename holds.   *)
DrainNotOnMutexWaiter ==
  pc[Renamer] = "r_drain" =>
    \A t \in Threads : ~(pc[t] \in {"o_mutex", "c_mutex"} /\ dv[t] = cur)

CdevBacksRegistered ==
  pc[Creator] = "k_done" => (drv2 \ destroyed # {} => registered)

(* The open state seen through zv_open_count, the opens devfs will still  *)
(* close and ZVOL_EXCL behaves as ZvolOpenState: exclusive opens exclude  *)
(* every other, a d_close ends one open, rename drops them all.           *)
OpenState == INSTANCE ZvolOpenState WITH holders <- {t \in Threads : Live(t)},
                                         excl <- zv_excl

OpenStateRefined == OpenState!Spec

=============================================================================
