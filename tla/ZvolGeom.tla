------------------------------- MODULE ZvolGeom -------------------------------
(***************************************************************************)
(* A GEOM-mode zvol's providers (src/module/os/freebsd/zfs/zvol_os.c)     *)
(* while consumers open, close and send bios through them:                 *)
(* zvol_os_create_minor with zvol_alloc, which makes the geom and its      *)
(* provider with g_topology_lock held and drops it only when everything    *)
(* succeeded; zvol_os_rename_minor, which withers the provider and makes a *)
(* new one for the new name; and removal: zvol_wait_close, the            *)
(* zvol_os_clear_private of the current provider and zvol_os_free with    *)
(* zvol_geom_destroy.                                                      *)
(*                                                                         *)
(* GEOM calls zvol_geom_access with g_topology_lock held; a consumer may  *)
(* attach to the current provider only, and a withered provider stays     *)
(* allocated while a consumer is attached to it. zvol_geom_open and       *)
(* zvol_geom_close are one step each here: their suspend-lock and         *)
(* spa_namespace_lock retries are ZvolOpenClose's, and the access         *)
(* counts are one open per consumer. Removal and rename are called from   *)
(* zvol.c, outside this file: rename under zvol_state_lock as reader and  *)
(* zv_state_lock (the ASSERT at the top of zvol_os_rename_minor); removal *)
(* marks the volume dying and waits (section 5 of the spec), then takes   *)
(* zvol_state_lock as writer and zv_state_lock and leaves an open volume  *)
(* alone (the volume is destroyed only at open count zero, section 3, as  *)
(* the ASSERT0(zv_open_count) of zvol_os_free requires).                  *)
(***************************************************************************)
EXTENDS Integers, FiniteSets

CONSTANTS
  Threads,    \* GEOM consumers' threads
  Creator,    \* the thread running zvol_os_create_minor for the volume
  Renamer,    \* the thread running zvol_rename_minors
  Remover,    \* the thread running the removal of the minor
  Existing,   \* whether the volume already exists in the initial state
  None,       \* no lock holder
  MaxRename   \* bound on renames

ASSUME /\ {Creator, Renamer, Remover, None} \cap Threads = {}
       /\ Existing \subseteq BOOLEAN /\ Existing # {}
       /\ MaxRename \in Nat

Provs  == 1..(MaxRename + 1)   \* the providers made over the behaviour, in order
Actors == Threads \cup {Creator, Renamer, Remover}

VARIABLES
  pc,                 \* program point of every actor
  dv,                 \* the provider a thread's call is on
  held,               \* the provider a thread's consumer has open, 0 for none
  cur,                \* zsg_provider, 0 for NULL
  private,            \* providers whose pp->private points at the volume
  withered,           \* providers g_wither_provider / g_wither_geom has withered
  topo,               \* holder of g_topology_lock
  zvol_state_lock_r,  \* readers of zvol_state_lock
  zvol_state_lock_w,  \* writer of zvol_state_lock
  zv_state_lock,      \* holder of zv_state_lock
  zv_open_count,
  zso_dying,
  removing,           \* ZVOL_REMOVING
  registered,         \* zvol_insert has put the volume in the registry
  freed,              \* zvol_os_free has freed the volume
  renames             \* renames done so far

vars == <<pc, dv, held, cur, private, withered, topo, zvol_state_lock_r,
          zvol_state_lock_w, zv_state_lock, zv_open_count, zso_dying, removing,
          registered, freed, renames>>

provVars == <<cur, private, withered>>
lockVars == <<topo, zvol_state_lock_r, zvol_state_lock_w, zv_state_lock>>
volVars  == <<zv_open_count, zso_dying, removing, registered, freed, renames>>

Init ==
  /\ registered \in Existing
  /\ pc = [a \in Actors |-> CASE a = Creator -> IF registered THEN "k_done" ELSE "k_alloc"
                              [] a = Renamer -> "r_idle"
                              [] a = Remover -> "m_idle"
                              [] OTHER       -> "idle"]
  /\ dv = [t \in Threads |-> 0] /\ held = [t \in Threads |-> 0]
  /\ cur = (IF registered THEN 1 ELSE 0)
  /\ private = (IF registered THEN {1} ELSE {}) /\ withered = {}
  /\ topo = None /\ zvol_state_lock_r = {} /\ zvol_state_lock_w = None
  /\ zv_state_lock = None
  /\ zv_open_count = 0 /\ zso_dying = FALSE /\ removing = FALSE
  /\ freed = FALSE /\ renames = 0

-----------------------------------------------------------------------------
Goto(a, l) == pc' = [pc EXCEPT ![a] = l]

(* rw_enter(&zvol_state_lock, RW_READER) and mutex_enter(zv_state_lock)   *)
(* are granted: zvol_geom_open and zvol_geom_close hold both at once.      *)
StateLockable == zvol_state_lock_w = None /\ zv_state_lock = None

-----------------------------------------------------------------------------
(* zvol_geom_access, called by g_access with g_topology_lock held          *)

(* A consumer of the current provider asks for access. Without            *)
(* pp->private the call returns pp->error with the topology lock still    *)
(* held; otherwise it drops the lock and calls zvol_geom_open.             *)
AccessOpen(t) ==
  /\ pc[t] = "idle" /\ held[t] = 0 /\ cur # 0 /\ topo = None
  /\ dv' = [dv EXCEPT ![t] = cur]
  /\ IF cur \in private THEN Goto(t, "g_open") ELSE UNCHANGED pc
  /\ UNCHANGED <<held, provVars, lockVars, volVars>>

(* zvol_geom_open: pp->private is read again under zvol_state_lock; a     *)
(* missing volume, or one dying or being removed, is ENXIO. The first     *)
(* open (zvol_first_open) may fail; otherwise the count goes up.          *)
GeomOpen(t) ==
  /\ pc[t] = "g_open" /\ StateLockable
  /\ \/ dv[t] \notin private /\ UNCHANGED <<held, zv_open_count>>
     \/ /\ dv[t] \in private /\ (zso_dying \/ removing)
        /\ UNCHANGED <<held, zv_open_count>>
     \/ /\ dv[t] \in private /\ ~zso_dying /\ ~removing /\ zv_open_count = 0
        /\ UNCHANGED <<held, zv_open_count>>
     \/ /\ dv[t] \in private /\ ~zso_dying /\ ~removing
        /\ zv_open_count' = zv_open_count + 1
        /\ held' = [held EXCEPT ![t] = dv[t]]
  /\ Goto(t, "g_relock")
  /\ UNCHANGED <<dv, provVars, lockVars, zso_dying, removing, registered, freed,
                 renames>>

(* Closing the consumer: without pp->private zvol_geom_access returns 0   *)
(* and GEOM drops the access; otherwise it calls zvol_geom_close.         *)
AccessClose(t) ==
  /\ pc[t] = "idle" /\ held[t] # 0 /\ topo = None
  /\ IF held[t] \in private
       THEN /\ Goto(t, "g_close")
            /\ dv' = [dv EXCEPT ![t] = held[t]]
            /\ UNCHANGED held
       ELSE /\ held' = [held EXCEPT ![t] = 0]
            /\ UNCHANGED <<pc, dv>>
  /\ UNCHANGED <<provVars, lockVars, volVars>>

(* zvol_geom_close: ENXIO without pp->private (GEOM keeps the access);    *)
(* otherwise the count goes down, and the last close wakes the remover.   *)
GeomClose(t) ==
  /\ pc[t] = "g_close" /\ StateLockable
  /\ IF dv[t] \in private
       THEN /\ zv_open_count' = zv_open_count - 1
            /\ held' = [held EXCEPT ![t] = 0]
       ELSE UNCHANGED <<held, zv_open_count>>
  /\ Goto(t, "g_relock")
  /\ UNCHANGED <<dv, provVars, lockVars, zso_dying, removing, registered, freed,
                 renames>>

(* g_topology_lock() before zvol_geom_access returns to GEOM.             *)
AccessRelock(t) ==
  /\ pc[t] = "g_relock" /\ topo = None
  /\ Goto(t, "idle")
  /\ UNCHANGED <<dv, held, provVars, lockVars, volVars>>

(* A bio from the open consumer reaches the provider's start method.      *)
BioIssue(t) ==
  /\ pc[t] = "idle" /\ held[t] # 0
  /\ Goto(t, "b_start")
  /\ dv' = [dv EXCEPT ![t] = held[t]]
  /\ UNCHANGED <<held, provVars, lockVars, volVars>>

(* zvol_geom_bio_start reads bio_to->private without a lock: ENXIO when   *)
(* it is NULL, otherwise GETATTR or zvol_geom_bio_strategy on the volume. *)
BioStart(t) ==
  /\ pc[t] = "b_start"
  /\ Goto(t, "idle")
  /\ UNCHANGED <<dv, held, provVars, lockVars, volVars>>

-----------------------------------------------------------------------------
(* zvol_os_create_minor for a name not in the registry (GEOM volmode).    *)

(* dmu_objset_own, dmu_object_info or zap_lookup fails, or zvol_alloc     *)
(* returns NULL before it locks the topology (the volmode property cannot *)
(* be read or is none): the error is returned. Otherwise zvol_alloc takes *)
(* g_topology_lock and makes the geom and its provider, with mediasize 0  *)
(* and pp->private = zv, and returns with the lock still held.            *)
CreateAlloc ==
  /\ pc[Creator] = "k_alloc"
  /\ \/ /\ Goto(Creator, "k_done")
        /\ UNCHANGED <<provVars, topo>>
     \/ /\ topo = None
        /\ topo' = Creator
        /\ cur' = 1 /\ private' = private \cup {1}
        /\ Goto(Creator, "k_kstats")
        /\ UNCHANGED withered
  /\ UNCHANGED <<dv, held, zvol_state_lock_r, zvol_state_lock_w, zv_state_lock,
                 volVars>>

(* dataset_kstats_create fails and create_minor jumps to                  *)
(* out_dmu_objset_disown: it disowns the objset and returns the error,    *)
(* leaving zv, its provider and g_topology_lock as they are, since the    *)
(* unlock is under error == 0. Otherwise the ZIL is opened, replayed and  *)
(* closed, the objset disowned, g_error_provider(pp, 0) called and the    *)
(* topology unlocked.                                                      *)
CreateKstats ==
  /\ pc[Creator] = "k_kstats"
  /\ \/ /\ Goto(Creator, "k_done")
        /\ UNCHANGED topo
     \/ /\ topo' = None
        /\ Goto(Creator, "k_insert")
  /\ UNCHANGED <<dv, held, provVars, zvol_state_lock_r, zvol_state_lock_w,
                 zv_state_lock, volVars>>

(* With error == 0: zvol_insert under zvol_state_lock as writer.           *)
CreateInsert ==
  /\ pc[Creator] = "k_insert"
  /\ zvol_state_lock_w = None /\ zvol_state_lock_r = {}
  /\ registered' = TRUE
  /\ Goto(Creator, "k_done")
  /\ UNCHANGED <<dv, held, provVars, lockVars, zv_open_count, zso_dying, removing,
                 freed, renames>>

-----------------------------------------------------------------------------
(* Rename: zvol_rename_minors finds the volume under zvol_state_lock as   *)
(* reader and calls zvol_os_rename_minor with zv_state_lock held.          *)

RenameLock ==
  /\ pc[Renamer] = "r_idle" /\ renames < MaxRename /\ registered
  /\ zvol_state_lock_w = None
  /\ zvol_state_lock_r' = zvol_state_lock_r \cup {Renamer}
  /\ Goto(Renamer, "r_mutex")
  /\ UNCHANGED <<dv, held, provVars, topo, zvol_state_lock_w, zv_state_lock, volVars>>

(* Under zv_state_lock and g_topology_lock: zsg_provider = NULL and       *)
(* g_wither_provider(pp, ENXIO), whose pp->private keeps pointing at zv;  *)
(* a new provider with mediasize = zv_volsize and pp->private = zv        *)
(* becomes zsg_provider. zv_open_count is kept: consumers of the withered *)
(* provider close through it. Then the caller drops both of its locks.     *)
RenameGeom ==
  /\ pc[Renamer] = "r_mutex" /\ zv_state_lock = None /\ topo = None
  /\ withered' = withered \cup {cur}
  /\ cur' = renames + 2
  /\ private' = private \cup {renames + 2}
  /\ renames' = renames + 1
  /\ zvol_state_lock_r' = zvol_state_lock_r \ {Renamer}
  /\ Goto(Renamer, "r_idle")
  /\ UNCHANGED <<dv, held, topo, zvol_state_lock_w, zv_state_lock, zv_open_count,
                 zso_dying, removing, registered, freed>>

-----------------------------------------------------------------------------
(* Removal of the registered volume.                                       *)

(* zvol_wait_close: under zv_state_lock, zso_dying = B_TRUE, and msleep   *)
(* on zv if the volume is open.                                            *)
WaitClose ==
  /\ pc[Remover] = "m_idle" /\ registered /\ zv_state_lock = None
  /\ zso_dying' = TRUE
  /\ Goto(Remover, IF zv_open_count # 0 THEN "m_sleep" ELSE "m_lock")
  /\ UNCHANGED <<dv, held, provVars, lockVars, zv_open_count, removing, registered,
                 freed, renames>>

(* msleep returns on the last close's wakeup(zv) or after 10 s.            *)
WaitCloseWake ==
  /\ pc[Remover] = "m_sleep" /\ zv_state_lock = None
  /\ Goto(Remover, "m_lock")
  /\ UNCHANGED <<dv, held, provVars, lockVars, volVars>>

RemoveLock ==
  /\ pc[Remover] = "m_lock"
  /\ zvol_state_lock_w = None /\ zvol_state_lock_r = {}
  /\ zvol_state_lock_w' = Remover
  /\ Goto(Remover, "m_mutex")
  /\ UNCHANGED <<dv, held, provVars, topo, zvol_state_lock_r, zv_state_lock, volVars>>

(* Under zv_state_lock: an open volume is left alone (and removal tried   *)
(* again); otherwise ZVOL_REMOVING is set, the volume leaves the registry *)
(* and zvol_os_clear_private clears pp->private of zsg_provider only.     *)
(* zvol_state_lock is dropped.                                             *)
RemoveCheck ==
  /\ pc[Remover] = "m_mutex" /\ zv_state_lock = None
  /\ zvol_state_lock_w' = None
  /\ IF zv_open_count > 0
       THEN /\ Goto(Remover, "m_idle")
            /\ UNCHANGED <<private, removing, registered>>
       ELSE /\ removing' = TRUE /\ registered' = FALSE
            /\ private' = private \ {cur}
            /\ Goto(Remover, "m_free")
  /\ UNCHANGED <<dv, held, cur, withered, topo, zvol_state_lock_r, zv_state_lock,
                 zv_open_count, zso_dying, freed, renames>>

(* zvol_os_free: under g_topology_lock, zvol_geom_destroy sets            *)
(* zsg_provider = NULL and withers the geom with all its providers; then  *)
(* zv is freed.                                                            *)
RemoveFree ==
  /\ pc[Remover] = "m_free" /\ topo = None
  /\ withered' = withered \cup {cur}
  /\ cur' = 0
  /\ freed' = TRUE
  /\ Goto(Remover, "m_done")
  /\ UNCHANGED <<dv, held, private, lockVars, zv_open_count, zso_dying, removing,
                 registered, renames>>

-----------------------------------------------------------------------------
Thread(t) ==
  \/ AccessOpen(t) \/ GeomOpen(t) \/ AccessClose(t) \/ GeomClose(t)
  \/ AccessRelock(t) \/ BioIssue(t) \/ BioStart(t)

Next ==
  \/ \E t \in Threads : Thread(t)
  \/ CreateAlloc \/ CreateKstats \/ CreateInsert
  \/ RenameLock \/ RenameGeom
  \/ WaitClose \/ WaitCloseWake \/ RemoveLock \/ RemoveCheck \/ RemoveFree

Spec == Init /\ [][Next]_vars

-----------------------------------------------------------------------------
(* Properties                                                              *)

(* zvol_geom_open, zvol_geom_close and zvol_geom_bio_start dereference    *)
(* the zv they read from pp->private. The comment at the top of           *)
(* zvol_geom_open says a zv read there under zvol_state_lock is either    *)
(* already NULL or kept alive by a positive open count: no thread is      *)
(* about to use the volume through a provider's private pointer once       *)
(* zvol_os_free has freed it.                                              *)
NoUseAfterFree ==
  freed => \A t \in Threads : pc[t] \in {"g_open", "g_close", "b_start"}
                                => dv[t] \notin private

(* zvol_os_create_minor gives g_topology_lock, taken in zvol_alloc, back  *)
(* on every path: once it has returned it holds no lock that every GEOM   *)
(* access, taste and rename waits for.                                     *)
TopologyReleased == pc[Creator] = "k_done" => topo # Creator

====
