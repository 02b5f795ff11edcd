------------------------------- MODULE ZvolIO -------------------------------
(***************************************************************************)
(* The I/O engine of an open FreeBSD zvol (src/module/os/freebsd/zfs/      *)
(* zvol_os.c): zvol_strategy_impl for bios (read, write, flush, delete),   *)
(* zvol_cdev_read and zvol_cdev_write for the character device, and the    *)
(* DIOCGFLUSH and DIOCGDELETE requests of zvol_cdev_ioctl, racing an       *)
(* administrator that suspends the volume, may resize it, and resumes it   *)
(* (zvol_suspend, zvol_set_volsize, zvol_resume: outside this file; the    *)
(* spec gives resize the exclusive role of the suspend barrier).           *)
(*                                                                         *)
(* The volume is MaxVol chunks; one loop iteration of the code moves one   *)
(* chunk. Every write, delete and shrink gets a tag when it takes its      *)
(* range lock, and a chunk holds the tag of the last operation that wrote  *)
(* or freed it, so a read that sees part of an operation's chunks and not  *)
(* the rest is visible. The intent log is two sets of tags: records        *)
(* appended and not yet committed, and records committed.                  *)
(***************************************************************************)
EXTENDS Integers, FiniteSets

CONSTANTS
  Threads,  \* threads issuing requests on the open volume
  Admin,    \* the thread running suspend, resize and resume
  None,     \* no lock holder
  Paths,    \* entry points used: a subset of {"bio", "cdev", "ioctl"}
  MaxVol,   \* the largest volume size, in chunks
  MaxTag    \* bound on the writes, deletes and shrinks of a behaviour

ASSUME /\ Admin \notin Threads /\ None \notin Threads \cup {Admin}
       /\ Paths \subseteq {"bio", "cdev", "ioctl"} /\ Paths # {}
       /\ MaxVol \in Nat \ {0} /\ MaxTag \in Nat

Blocks == 0..(MaxVol - 1)
Tags   == 0..MaxTag

Kinds(p) == CASE p = "bio"  -> {"read", "write", "flush", "delete"}
              [] p = "cdev" -> {"read", "write"}
              [] p = "ioctl" -> {"flush", "delete"}

(* A request: its entry point, kind, first chunk and length; sync is the  *)
(* IO_SYNC flag of a cdev write. A flush carries no range.                *)
Requests ==
  { r \in UNION {[path : {p}, kind : Kinds(p), off : 0..MaxVol,
                  len : 1..MaxVol, sync : BOOLEAN] : p \in Paths} :
      /\ r.sync => r.path = "cdev" /\ r.kind = "write"
      /\ r.kind = "flush" => r.off = 0 /\ r.len = 1 }

Writes == {"write", "delete"}

NoRange == [span |-> {}, writer |-> FALSE]

(* The request field of an idle thread.                                    *)
NoReq == [path |-> "none", kind |-> "none", off |-> 0, len |-> 0, sync |-> FALSE]

VARIABLES
  pc,                 \* program point of every actor
  rq,                 \* the request a thread is serving
  lim,                \* the local volsize the request's loop runs against
  commit,             \* local commit / sync: zil_commit before returning
  tag,                \* tag of the write or delete (0 before its range lock)
  pos,                \* offset of the next chunk of the loop
  res,                \* "err" once the request failed, then its outcome
  rbuf,               \* tags a read has copied out, -1 for chunks not read
  need,               \* log records that must be committed when it returns
  zv_suspend_lock_r,  \* readers of zv_suspend_lock
  zv_suspend_lock_w,  \* writer of zv_suspend_lock
  zv_rangelock,       \* the range each thread holds in zv_rangelock
  zv_volsize,         \* zv->zv_volsize, in chunks
  zv_flags,           \* the ZVOL_RDONLY and ZVOL_WRITTEN_TO bits of zv->zv_flags
  os_sync,            \* zv->zv_objset->os_sync
  zv_zilog,           \* zv->zv_zilog is open
  zil_handles,        \* intent-log handles opened and not closed
  pending,            \* log records appended, not yet committed
  committed,          \* log records committed
  data,               \* tag held by every chunk
  seq,                \* last tag handed out
  tspan,              \* the chunks each tag's operation covers
  partial,            \* tags of operations that stopped on an error
  done_log            \* tags logged by requests that have returned

thrVars  == <<rq, lim, commit, tag, pos, rbuf, need>>
lockVars == <<zv_suspend_lock_r, zv_suspend_lock_w, zv_rangelock>>
volVars  == <<zv_volsize, zv_flags, os_sync>>
logVars  == <<zv_zilog, zil_handles, pending, committed>>
dataVars == <<data, seq, tspan, partial, done_log>>
vars     == <<pc, res, thrVars, lockVars, volVars, logVars, dataVars>>

ThreadPcs == {"idle", "enter", "zil", "zil_w", "rl", "loop", "end", "del"}
AdminPcs  == {"a_idle", "a_susp"}

Init ==
  /\ pc = [a \in Threads \cup {Admin} |-> IF a = Admin THEN "a_idle" ELSE "idle"]
  /\ rq = [t \in Threads |-> NoReq]
  /\ lim = [t \in Threads |-> 0]
  /\ commit = [t \in Threads |-> FALSE]
  /\ tag = [t \in Threads |-> 0]
  /\ pos = [t \in Threads |-> 0]
  /\ res = [t \in Threads |-> "none"]
  /\ rbuf = [t \in Threads |-> [b \in Blocks |-> -1]]
  /\ need = [t \in Threads |-> {}]
  /\ zv_suspend_lock_r = {} /\ zv_suspend_lock_w = None
  /\ zv_rangelock = [t \in Threads |-> NoRange]
  /\ zv_volsize = MaxVol
  /\ zv_flags \in {{}, {"RDONLY"}}
  /\ os_sync \in {"standard", "always"}
  /\ zv_zilog = FALSE /\ zil_handles = 0
  /\ pending = {} /\ committed = {}
  /\ data = [b \in Blocks |-> 0]
  /\ seq = 0
  /\ tspan = [w \in 1..MaxTag |-> {}]
  /\ partial = {}
  /\ done_log = {}

-----------------------------------------------------------------------------
(* Helpers *)

Goto(a, l) == pc' = [pc EXCEPT ![a] = l]

(* Return from the request with the given outcome; the locals of the call *)
(* are gone.                                                               *)
Finish(t, r) ==
  /\ Goto(t, "idle")
  /\ res' = [res EXCEPT ![t] = r]
  /\ rq' = [rq EXCEPT ![t] = NoReq]
  /\ lim' = [lim EXCEPT ![t] = 0]
  /\ commit' = [commit EXCEPT ![t] = FALSE]
  /\ tag' = [tag EXCEPT ![t] = 0]
  /\ pos' = [pos EXCEPT ![t] = 0]
  /\ rbuf' = [rbuf EXCEPT ![t] = [b \in Blocks |-> -1]]
  /\ need' = [need EXCEPT ![t] = {}]

(* The chunks [off, off + len) of a thread's request.                      *)
Span(t) == rq[t].off..(rq[t].off + rq[t].len - 1)

(* Requests that will take a tag and have not taken it yet.                *)
Untagged == {t \in Threads : rq[t].kind \in Writes /\ tag[t] = 0}

(* One more tag can be promised without exceeding MaxTag.                  *)
TagFree == seq + Cardinality(Untagged) < MaxTag

(* zil_commit(zv->zv_zilog, ZVOL_OBJ): every appended record is committed. *)
ZilCommit ==
  /\ committed' = committed \cup pending
  /\ pending' = {}

(* zil_open on the first write: a new handle, and ZVOL_WRITTEN_TO.         *)
ZilOpen ==
  /\ zv_zilog' = TRUE
  /\ zil_handles' = zil_handles + 1
  /\ zv_flags' = zv_flags \cup {"WRITTEN_TO"}

(* zfs_rangelock_enter grants a range when no overlapping range is held,  *)
(* or when both ranges are readers.                                        *)
Compatible(sp, wr, h) == sp \cap h.span = {} \/ (~wr /\ ~h.writer)

-----------------------------------------------------------------------------
(* Requests and their checks made before zv_suspend_lock is taken.         *)

(* The checks made before rw_enter: zvol_cdev_read and zvol_cdev_write    *)
(* refuse an offset past zv_volsize (EIO), DIOCGDELETE one at or past it  *)
(* (EINVAL).                                                               *)
EarlyReject(r) ==
  \/ r.path = "cdev" /\ r.off > zv_volsize
  \/ r.path = "ioctl" /\ r.kind = "delete" /\ r.off >= zv_volsize

(* A request arrives. zvol_cdev_read and zvol_cdev_write read zv_volsize  *)
(* into their local volsize and compute commit (IO_SYNC or os_sync        *)
(* always) before rw_enter; a bio only looks its volume up. A flush owes  *)
(* the records of every write and delete that has returned.               *)
Request(t) ==
  /\ pc[t] = "idle"
  /\ \E r \in Requests :
       /\ r.kind \in Writes => TagFree
       /\ \/ /\ EarlyReject(r)
             /\ res' = [res EXCEPT ![t] = "err"]
             /\ UNCHANGED <<pc, thrVars>>
          \/ /\ ~EarlyReject(r)
             /\ Goto(t, "enter")
             /\ res' = [res EXCEPT ![t] = "none"]
             /\ rq' = [rq EXCEPT ![t] = r]
             /\ pos' = [pos EXCEPT ![t] = r.off]
             /\ need' = [need EXCEPT ![t] = IF r.kind = "flush" THEN done_log ELSE {}]
             /\ lim' = [lim EXCEPT ![t] = IF r.path = "cdev" THEN zv_volsize ELSE 0]
             /\ commit' = [commit EXCEPT ![t] =
                   r.path = "cdev" /\ r.kind = "write" /\ (r.sync \/ os_sync = "always")]
             /\ UNCHANGED <<tag, rbuf>>
  /\ UNCHANGED <<lockVars, volVars, logVars, dataVars>>

-----------------------------------------------------------------------------
(* Taking zv_suspend_lock as reader, and what each entry point does under *)
(* it before the range lock.                                              *)

(* Seeded fault: zvol_strategy_impl runs without rw_enter on             *)
(* zv_suspend_lock (line 611 missing).                                     *)
StrategyEnterNoSuspend(t) ==
  /\ pc[t] = "enter" /\ rq[t].path = "bio"
  /\ \/ /\ rq[t].kind = "read" /\ rq[t].off >= zv_volsize
        /\ Finish(t, "err")
     \/ /\ rq[t].kind = "read" /\ rq[t].off < zv_volsize
        /\ lim' = [lim EXCEPT ![t] = zv_volsize]
        /\ Goto(t, "rl")
        /\ UNCHANGED <<res, rq, commit, tag, pos, rbuf, need>>
     \/ /\ rq[t].kind # "read" /\ "RDONLY" \in zv_flags
        /\ Finish(t, "err")
     \/ /\ rq[t].kind # "read" /\ "RDONLY" \notin zv_flags
        /\ Goto(t, "zil")
        /\ UNCHANGED <<res, thrVars>>
  /\ UNCHANGED <<lockVars, volVars, logVars, dataVars>>

(* zvol_strategy_impl: rw_enter, then EROFS for a write, flush or delete  *)
(* on a read-only volume, and for a read the EIO of an offset at or past  *)
(* zv_volsize; a write, flush or delete goes on to zvol_ensure_zilog.     *)
StrategyEnter(t) ==
  /\ pc[t] = "enter" /\ rq[t].path = "bio"
  /\ zv_suspend_lock_w = None
  /\ \/ /\ rq[t].kind = "read" /\ rq[t].off >= zv_volsize
        /\ Finish(t, "err")
        /\ UNCHANGED zv_suspend_lock_r
     \/ /\ rq[t].kind = "read" /\ rq[t].off < zv_volsize
        /\ zv_suspend_lock_r' = zv_suspend_lock_r \cup {t}
        /\ lim' = [lim EXCEPT ![t] = zv_volsize]
        /\ Goto(t, "rl")
        /\ UNCHANGED <<res, rq, commit, tag, pos, rbuf, need>>
     \/ /\ rq[t].kind # "read" /\ "RDONLY" \in zv_flags
        /\ Finish(t, "err")
        /\ UNCHANGED zv_suspend_lock_r
     \/ /\ rq[t].kind # "read" /\ "RDONLY" \notin zv_flags
        /\ zv_suspend_lock_r' = zv_suspend_lock_r \cup {t}
        /\ Goto(t, "zil")
        /\ UNCHANGED <<res, thrVars>>
  /\ UNCHANGED <<zv_suspend_lock_w, zv_rangelock, volVars, logVars, dataVars>>

(* zvol_cdev_read and zvol_cdev_write: rw_enter; a write then runs        *)
(* zvol_ensure_zilog.                                                     *)
CdevEnter(t) ==
  /\ pc[t] = "enter" /\ rq[t].path = "cdev"
  /\ zv_suspend_lock_w = None
  /\ zv_suspend_lock_r' = zv_suspend_lock_r \cup {t}
  /\ Goto(t, IF rq[t].kind = "read" THEN "rl" ELSE "zil")
  /\ UNCHANGED <<res, thrVars, zv_suspend_lock_w, zv_rangelock, volVars,
                 logVars, dataVars>>

(* DIOCGFLUSH: under zv_suspend_lock, commit the log if there is one.     *)
IoctlFlush(t) ==
  /\ pc[t] = "enter" /\ rq[t].path = "ioctl" /\ rq[t].kind = "flush"
  /\ zv_suspend_lock_w = None
  /\ IF zv_zilog THEN ZilCommit ELSE UNCHANGED <<pending, committed>>
  /\ Finish(t, "ok")
  /\ UNCHANGED <<lockVars, volVars, zv_zilog, zil_handles, dataVars>>

(* DIOCGDELETE: rw_enter, then zvol_ensure_zilog.                          *)
IoctlDeleteEnter(t) ==
  /\ pc[t] = "enter" /\ rq[t].path = "ioctl" /\ rq[t].kind = "delete"
  /\ zv_suspend_lock_w = None
  /\ zv_suspend_lock_r' = zv_suspend_lock_r \cup {t}
  /\ Goto(t, "zil")
  /\ UNCHANGED <<res, thrVars, zv_suspend_lock_w, zv_rangelock, volVars,
                 logVars, dataVars>>

-----------------------------------------------------------------------------
(* zvol_ensure_zilog and what follows it.                                  *)

(* Back from zvol_ensure_zilog holding zv_suspend_lock as reader (readers *)
(* is the reader set then). A bio flush jumps to the commit label; a bio  *)
(* write or delete gets the EIO of an offset at or past zv_volsize, and   *)
(* otherwise reads zv_volsize and computes commit from os_sync; a cdev     *)
(* write and a DIOCGDELETE go on to the range lock.                        *)
AfterZil(t, readers) ==
  LET r == rq[t] IN
  \/ /\ r.path = "bio" /\ r.kind = "flush"
     /\ ZilCommit
     /\ zv_suspend_lock_r' = readers \ {t}
     /\ Finish(t, "ok")
  \/ /\ r.path = "bio" /\ r.kind \in Writes /\ r.off >= zv_volsize
     /\ zv_suspend_lock_r' = readers \ {t}
     /\ Finish(t, "err")
     /\ UNCHANGED <<pending, committed>>
  \/ /\ r.path = "bio" /\ r.kind \in Writes /\ r.off < zv_volsize
     /\ zv_suspend_lock_r' = readers
     /\ lim' = [lim EXCEPT ![t] = zv_volsize]
     /\ commit' = [commit EXCEPT ![t] = os_sync = "always"]
     /\ Goto(t, "rl")
     /\ UNCHANGED <<res, rq, tag, pos, rbuf, need, pending, committed>>
  \/ /\ r.path # "bio"
     /\ zv_suspend_lock_r' = readers
     /\ Goto(t, "rl")
     /\ UNCHANGED <<res, thrVars, pending, committed>>

(* Seeded fault: a write path goes on without calling zvol_ensure_zilog. *)
EnsureZilogSkipped(t) ==
  /\ pc[t] = "zil"
  /\ AfterZil(t, zv_suspend_lock_r)
  /\ UNCHANGED <<zv_zilog, zil_handles, zv_flags, zv_suspend_lock_w,
                 zv_rangelock, os_sync, zv_volsize, dataVars>>

(* zvol_ensure_zilog with zv_suspend_lock held as reader: nothing to do   *)
(* when the log is open; otherwise rw_tryupgrade, which succeeds only for *)
(* the sole reader, opens the log and downgrades; when it fails the       *)
(* reader lock is dropped to wait for the writer lock.                    *)
EnsureZilog(t) ==
  /\ pc[t] = "zil"
  /\ \/ /\ zv_zilog
        /\ AfterZil(t, zv_suspend_lock_r)
        /\ UNCHANGED <<zv_zilog, zil_handles, zv_flags>>
     \/ /\ ~zv_zilog /\ zv_suspend_lock_r = {t}
        /\ ZilOpen
        /\ AfterZil(t, zv_suspend_lock_r)
     \/ /\ ~zv_zilog /\ zv_suspend_lock_r # {t}
        /\ zv_suspend_lock_r' = zv_suspend_lock_r \ {t}
        /\ Goto(t, "zil_w")
        /\ UNCHANGED <<res, thrVars, zv_zilog, zil_handles, zv_flags, pending,
                       committed>>
  /\ UNCHANGED <<zv_suspend_lock_w, zv_rangelock, os_sync, zv_volsize, dataVars>>

(* Seeded fault: after waiting for the writer lock the log is opened      *)
(* without testing zv_zilog again (line 1233 missing).                    *)
ZilWaitNoRecheck(t) ==
  /\ pc[t] = "zil_w"
  /\ zv_suspend_lock_w = None /\ zv_suspend_lock_r = {}
  /\ ZilOpen
  /\ AfterZil(t, {t})
  /\ UNCHANGED <<zv_suspend_lock_w, zv_rangelock, os_sync, zv_volsize, dataVars>>

(* Seeded fault: rw_downgrade is missing, so the writer lock is kept.     *)
ZilWaitNoDowngrade(t) ==
  /\ pc[t] = "zil_w"
  /\ zv_suspend_lock_w = None /\ zv_suspend_lock_r = {}
  /\ IF zv_zilog THEN UNCHANGED <<zv_zilog, zil_handles, zv_flags>> ELSE ZilOpen
  /\ zv_suspend_lock_w' = t
  /\ AfterZil(t, {t})
  /\ UNCHANGED <<zv_rangelock, os_sync, zv_volsize, dataVars>>

(* rw_enter(RW_WRITER); the log may have been opened meanwhile, so test   *)
(* zv_zilog again before zil_open; rw_downgrade.                           *)
ZilWait(t) ==
  /\ pc[t] = "zil_w"
  /\ zv_suspend_lock_w = None /\ zv_suspend_lock_r = {}
  /\ IF zv_zilog THEN UNCHANGED <<zv_zilog, zil_handles, zv_flags>> ELSE ZilOpen
  /\ AfterZil(t, {t})
  /\ UNCHANGED <<zv_suspend_lock_w, zv_rangelock, os_sync, zv_volsize, dataVars>>

-----------------------------------------------------------------------------
(* Range lock, transfer loop and completion.                               *)

(* Seeded fault: writes and deletes take the range lock as RL_READER.     *)
RangeLockEnterShared(t) ==
  /\ pc[t] = "rl"
  /\ LET sp == Span(t)
         wr == rq[t].kind # "read"
         end == IF rq[t].kind = "delete" THEN zv_volsize ELSE lim[t]
         w == seq + 1
         syncdel == rq[t].kind = "delete" /\
                    IF rq[t].path = "bio" THEN commit[t] ELSE os_sync = "always"
     IN  /\ \A u \in Threads \ {t} : Compatible(sp, FALSE, zv_rangelock[u])
         /\ zv_rangelock' = [zv_rangelock EXCEPT ![t] = [span |-> sp, writer |-> FALSE]]
         /\ IF wr
              THEN /\ seq' = w
                   /\ tag' = [tag EXCEPT ![t] = w]
                   /\ tspan' = [tspan EXCEPT ![w] = {b \in sp : b < end}]
              ELSE UNCHANGED <<seq, tag, tspan>>
         /\ need' = [need EXCEPT ![t] = IF syncdel THEN @ \cup {w} ELSE @]
  /\ Goto(t, IF rq[t].kind = "delete" THEN "del" ELSE "loop")
  /\ UNCHANGED <<res, rq, lim, commit, pos, rbuf, zv_suspend_lock_r,
                 zv_suspend_lock_w, volVars, logVars, data, partial, done_log>>

(* zfs_rangelock_enter over [off, off + len): reader for a read, writer   *)
(* for a write or delete. A write or delete takes its tag here: the       *)
(* chunks it will cover are those below the volsize its loop runs to      *)
(* (the object's end for a delete). A delete that will commit (a bio      *)
(* with commit set, DIOCGDELETE when os_sync is always) owes its record.  *)
RangeLockEnter(t) ==
  /\ pc[t] = "rl"
  /\ LET sp == Span(t)
         wr == rq[t].kind # "read"
         end == IF rq[t].kind = "delete" THEN zv_volsize ELSE lim[t]
         w == seq + 1
         syncdel == rq[t].kind = "delete" /\
                    IF rq[t].path = "bio" THEN commit[t] ELSE os_sync = "always"
     IN  /\ \A u \in Threads \ {t} : Compatible(sp, wr, zv_rangelock[u])
         /\ zv_rangelock' = [zv_rangelock EXCEPT ![t] = [span |-> sp, writer |-> wr]]
         /\ IF wr
              THEN /\ seq' = w
                   /\ tag' = [tag EXCEPT ![t] = w]
                   /\ tspan' = [tspan EXCEPT ![w] = {b \in sp : b < end}]
              ELSE UNCHANGED <<seq, tag, tspan>>
         /\ need' = [need EXCEPT ![t] = IF syncdel THEN @ \cup {w} ELSE @]
  /\ Goto(t, IF rq[t].kind = "delete" THEN "del" ELSE "loop")
  /\ UNCHANGED <<res, rq, lim, commit, pos, rbuf, zv_suspend_lock_r,
                 zv_suspend_lock_w, volVars, logVars, data, partial, done_log>>

(* The loop runs while resid != 0 and the offset is below the local       *)
(* volsize.                                                                *)
InLoop(t) == pos[t] < rq[t].off + rq[t].len /\ pos[t] < lim[t]

(* One chunk: dmu_read_by_dnode / dmu_read_uio_dnode copies it out, or a  *)
(* tx writes it and zvol_log_write appends a record; a failed read (EIO,  *)
(* ECKSUM remapped to EIO) or a failed tx assignment or write breaks out  *)
(* of the loop with the chunks before it done.                             *)
Transfer(t) ==
  /\ pc[t] = "loop" /\ InLoop(t)
  /\ LET b == pos[t]
         w == tag[t]
     IN  \/ /\ rq[t].kind = "read"
            /\ rbuf' = [rbuf EXCEPT ![t][b] = data[b]]
            /\ pos' = [pos EXCEPT ![t] = b + 1]
            /\ UNCHANGED <<pc, res, data, pending, need, partial>>
         \/ /\ rq[t].kind = "write"
            /\ data' = [data EXCEPT ![b] = w]
            /\ pending' = pending \cup {w}
            /\ need' = [need EXCEPT ![t] = IF commit[t] THEN @ \cup {w} ELSE @]
            /\ pos' = [pos EXCEPT ![t] = b + 1]
            /\ UNCHANGED <<pc, res, rbuf, partial>>
         \/ /\ Goto(t, "end")
            /\ res' = [res EXCEPT ![t] = "err"]
            /\ partial' = IF rq[t].kind = "write" THEN partial \cup {w} ELSE partial
            /\ UNCHANGED <<data, pending, need, pos, rbuf>>
  /\ UNCHANGED <<rq, lim, commit, tag, lockVars, volVars, zv_zilog, zil_handles,
                 committed, seq, tspan, done_log>>

(* Seeded fault: the final zil_commit is skipped.                         *)
CompleteNoCommit(t) ==
  /\ \/ pc[t] = "end"
     \/ pc[t] = "loop" /\ ~InLoop(t)
  /\ zv_rangelock' = [zv_rangelock EXCEPT ![t] = NoRange]
  /\ zv_suspend_lock_r' = zv_suspend_lock_r \ {t}
  /\ done_log' = IF tag[t] \in pending \cup committed THEN done_log \cup {tag[t]}
                                                       ELSE done_log
  /\ Finish(t, IF res[t] = "err" THEN "err" ELSE "ok")
  /\ UNCHANGED <<zv_suspend_lock_w, volVars, logVars, data, seq, tspan, partial>>

(* zfs_rangelock_exit, zil_commit when commit is set, rw_exit: the end of *)
(* zvol_strategy_impl, zvol_cdev_read and zvol_cdev_write.                 *)
Complete(t) ==
  /\ \/ pc[t] = "end"
     \/ pc[t] = "loop" /\ ~InLoop(t)
  /\ zv_rangelock' = [zv_rangelock EXCEPT ![t] = NoRange]
  /\ IF commit[t] THEN ZilCommit ELSE UNCHANGED <<pending, committed>>
  /\ zv_suspend_lock_r' = zv_suspend_lock_r \ {t}
  /\ done_log' = IF tag[t] \in pending \cup committed THEN done_log \cup {tag[t]}
                                                       ELSE done_log
  /\ Finish(t, IF res[t] = "err" THEN "err" ELSE "ok")
  /\ UNCHANGED <<zv_suspend_lock_w, volVars, zv_zilog, zil_handles, data, seq,
                 tspan, partial>>

(* A delete (BIO_DELETE in zvol_strategy_impl, DIOCGDELETE): if the tx is *)
(* assigned, log a truncate, commit the tx and free the range with        *)
(* dmu_free_long_range, which may fail after freeing part of it; then     *)
(* zfs_rangelock_exit, zil_commit (a bio when commit is set, DIOCGDELETE  *)
(* when the tx was assigned and os_sync is always) and rw_exit.           *)
Delete(t) ==
  /\ pc[t] = "del"
  /\ LET w == tag[t]
         sync == IF rq[t].path = "bio" THEN commit[t] ELSE os_sync = "always"
     IN  \/ /\ IF rq[t].path = "bio" /\ commit[t] THEN ZilCommit
                                              ELSE UNCHANGED <<pending, committed>>
            /\ Finish(t, "err")
            /\ UNCHANGED <<data, partial, done_log>>
         \/ /\ \E freed \in SUBSET tspan[w] :
                 /\ data' = [b \in Blocks |-> IF b \in freed THEN w ELSE data[b]]
                 /\ IF freed = tspan[w]
                      THEN /\ Finish(t, "ok") /\ UNCHANGED partial
                      ELSE /\ Finish(t, "err") /\ partial' = partial \cup {w}
            /\ IF sync THEN /\ committed' = committed \cup pending \cup {w}
                            /\ pending' = {}
                       ELSE /\ pending' = pending \cup {w}
                            /\ UNCHANGED committed
            /\ done_log' = done_log \cup {w}
  /\ zv_rangelock' = [zv_rangelock EXCEPT ![t] = NoRange]
  /\ zv_suspend_lock_r' = zv_suspend_lock_r \ {t}
  /\ UNCHANGED <<zv_suspend_lock_w, volVars, zv_zilog, zil_handles, seq, tspan>>

-----------------------------------------------------------------------------
(* The administrator (zvol_suspend, zvol_set_volsize, zvol_resume: outside *)
(* this file). Suspend takes zv_suspend_lock as writer and shuts the open *)
(* volume down, closing its log (zil_close commits what is pending).      *)
(* Resize runs under the barrier and frees what lies past the new end;    *)
(* zvol_os_update_volsize stores the new zv_volsize.                       *)

AdminSuspend ==
  /\ pc[Admin] = "a_idle"
  /\ zv_suspend_lock_w = None /\ zv_suspend_lock_r = {}
  /\ zv_suspend_lock_w' = Admin
  /\ IF zv_zilog
       THEN /\ ZilCommit
            /\ zv_zilog' = FALSE
            /\ zil_handles' = zil_handles - 1
       ELSE UNCHANGED <<zv_zilog, zil_handles, pending, committed>>
  /\ Goto(Admin, "a_susp")
  /\ UNCHANGED <<res, thrVars, zv_suspend_lock_r, zv_rangelock, volVars, dataVars>>

AdminResize ==
  /\ pc[Admin] = "a_susp"
  /\ \E s \in (1..MaxVol) \ {zv_volsize} :
       /\ zv_volsize' = s
       /\ IF s < zv_volsize
            THEN LET gone == s..(zv_volsize - 1) IN
                 /\ TagFree
                 /\ seq' = seq + 1
                 /\ tspan' = [tspan EXCEPT ![seq + 1] = gone]
                 /\ data' = [b \in Blocks |-> IF b \in gone THEN seq + 1 ELSE data[b]]
            ELSE UNCHANGED <<seq, tspan, data>>
  /\ UNCHANGED <<pc, res, thrVars, lockVars, zv_flags, os_sync, logVars, partial,
                 done_log>>

AdminResume ==
  /\ pc[Admin] = "a_susp"
  /\ zv_suspend_lock_w' = None
  /\ Goto(Admin, "a_idle")
  /\ UNCHANGED <<res, thrVars, zv_suspend_lock_r, zv_rangelock, volVars, logVars,
                 dataVars>>

-----------------------------------------------------------------------------

ThreadStep(t) ==
  \/ Request(t) \/ StrategyEnter(t) \/ CdevEnter(t) \/ IoctlFlush(t)
  \/ IoctlDeleteEnter(t) \/ EnsureZilog(t) \/ ZilWait(t) \/ RangeLockEnter(t)
  \/ Transfer(t) \/ Complete(t) \/ Delete(t)

AdminStep == AdminSuspend \/ AdminResize \/ AdminResume

Next == (\E t \in Threads : ThreadStep(t)) \/ AdminStep

Spec == Init /\ [][Next]_vars

-----------------------------------------------------------------------------
(* Properties *)

TypeOK ==
  /\ pc \in [Threads \cup {Admin} -> ThreadPcs \cup AdminPcs]
  /\ \A t \in Threads : pc[t] \in ThreadPcs
  /\ pc[Admin] \in AdminPcs
  /\ rq \in [Threads -> Requests \cup {NoReq}]
  /\ lim \in [Threads -> 0..MaxVol] /\ commit \in [Threads -> BOOLEAN]
  /\ tag \in [Threads -> Tags] /\ pos \in [Threads -> 0..(2 * MaxVol)]
  /\ res \in [Threads -> {"none", "ok", "err"}]
  /\ rbuf \in [Threads -> [Blocks -> Tags \cup {-1}]]
  /\ need \in [Threads -> SUBSET (1..MaxTag)]
  /\ zv_suspend_lock_r \subseteq Threads /\ zv_suspend_lock_w \in {Admin, None}
  /\ zv_rangelock \in [Threads -> [span : SUBSET (0..(2 * MaxVol)), writer : BOOLEAN]]
  /\ zv_volsize \in 1..MaxVol /\ zv_flags \subseteq {"RDONLY", "WRITTEN_TO"}
  /\ os_sync \in {"standard", "always"}
  /\ zv_zilog \in BOOLEAN /\ zil_handles \in Nat
  /\ pending \subseteq 1..MaxTag /\ committed \subseteq 1..MaxTag
  /\ data \in [Blocks -> Tags] /\ seq \in Tags
  /\ tspan \in [1..MaxTag -> SUBSET (0..(2 * MaxVol))]
  /\ partial \subseteq 1..MaxTag /\ done_log \subseteq 1..MaxTag

(* A thread returns from its request in this step with outcome r.         *)
Returns(t, r) == pc[t] # "idle" /\ pc'[t] = "idle" /\ res'[t] = r

(* The chunks of buf, a read's copy, show no operation in part: if one    *)
(* chunk holds an operation's tag, every other chunk copied that the      *)
(* operation covers holds that tag or a later one.                        *)
Untorn(buf) ==
  LET S == {b \in Blocks : buf[b] # -1} IN
  \A b1, b2 \in S :
    LET w == buf[b1] IN
    (w # 0 /\ w \notin partial /\ b2 \in tspan[w]) => buf[b2] >= w

(* A read that returns without error never sees part of a write, delete  *)
(* or shrink and not the rest. The range lock taken in                    *)
(* zvol_strategy_impl, zvol_cdev_read, zvol_cdev_write and DIOCGDELETE is *)
(* what orders the chunk loops of overlapping requests.                   *)
ReadsAtomic ==
  [][\A t \in Threads :
       (Returns(t, "ok") /\ rq[t].kind = "read") => Untorn(rbuf[t])]_vars

(* A request that reports success owes nothing to the intent log: a       *)
(* flush (BIO_FLUSH, DIOCGFLUSH) has committed every record of the writes *)
(* and deletes that returned before it was issued, and a write or delete  *)
(* that decided to commit (os_sync always, IO_SYNC) has committed its own *)
(* records, across the log being closed by a suspend and reopened by     *)
(* zvol_ensure_zilog.                                                      *)
DurableOnReturn ==
  [][\A t \in Threads : Returns(t, "ok") => need[t] \subseteq committed']_vars

(* The volume has exactly one intent-log handle while zv_zilog is set and *)
(* none otherwise: zvol_ensure_zilog never opens a second one when two    *)
(* first writers race through the writer upgrade, and a suspend closes    *)
(* the one there is.                                                      *)
ZilogSingle == zil_handles = IF zv_zilog THEN 1 ELSE 0

(* No write or delete appends an intent-log record while the log is      *)
(* closed: every path that logs runs zvol_ensure_zilog under the same     *)
(* hold of zv_suspend_lock, so a suspend cannot close the log in between. *)
LoggedWithOpenLog ==
  [][(pending' \cup committed') \ (pending \cup committed) # {} => zv_zilog]_vars

(* No chunk is read or written at or past the end of the volume: the     *)
(* loop bound is a zv_volsize that a resize, which holds zv_suspend_lock  *)
(* as writer, cannot change while the request runs.                       *)
NoTransferPastEnd ==
  [][\A t \in Threads : (pc[t] = "loop" /\ pos'[t] = pos[t] + 1) => pos[t] < zv_volsize]_vars

(* The same for requests taken from the GEOM bio queue, whose loop is     *)
(* bounded by the bio's own length checked against zv_volsize on entry.    *)
NoBioTransferPastEnd ==
  [][\A t \in Threads : (rq[t].path = "bio" /\ pc[t] = "loop" /\ pos'[t] = pos[t] + 1)
        => pos[t] < zv_volsize]_vars

=============================================================================
