----------------------------- MODULE ZvolDispatch -----------------------------
(***************************************************************************)
(* How a bio reaches zvol_strategy_impl on FreeBSD (src/module/os/freebsd/ *)
(* zfs/zvol_os.c): zvol_geom_bio_start and zvol_cdev_bio_strategy hand it  *)
(* to zvol_geom_bio_strategy, which fails it with ENXIO when the volume's  *)
(* private pointer is gone, runs it in the calling thread when that thread *)
(* may sleep outside the GEOM threads (or the zvol_request_sync tunable is *)
(* set), and otherwise hashes (zv, curcpu, offset >> shift) onto one of    *)
(* the zvol taskqs, whose threads run zvol_strategy_task in FIFO order.    *)
(*                                                                         *)
(* zvol_strategy_impl itself is one step here: ZvolIO models its inside,   *)
(* and its range lock makes overlapping requests run one after the other. *)
(* cityhash3 is a pure function, so the hash is any function of the cpu   *)
(* and the offset bucket, fixed for the whole behaviour.                  *)
(***************************************************************************)
EXTENDS Integers, Sequences, SequencesExt, FiniteSets

CONSTANTS
  Submitters,  \* threads that issue bios
  Cpus,        \* values of curcpu
  Buckets,     \* values of bio_offset >> ZVOL_TASKQ_OFFSET_SHIFT
  TqCnt,       \* zvol_taskqs.tqs_cnt
  TqThreads,   \* threads of each taskq
  HashMax,     \* cityhash3 values range over 0..HashMax
  MaxReq       \* bound on the bios of a behaviour

ASSUME /\ TqCnt \in Nat \ {0} /\ TqThreads \in Nat \ {0}
       /\ HashMax \in Nat /\ MaxReq \in Nat

(* Where a bio comes from: a GEOM consumer's thread that may sleep, a     *)
(* GEOM thread (g_down), or the character device's d_strategy.            *)
Sources == {"geom_thread", "geom_sleep", "cdev"}

TqIdxs  == 0..(TqCnt - 1)
Workers == TqIdxs \X (1..TqThreads)
Ids     == 1..MaxReq

VARIABLES
  private,       \* bio_to->private / si_drv2 still points at the volume
  request_sync,  \* the zvol_request_sync tunable
  hash,          \* cityhash3 over (cpu, bucket)
  req,           \* every bio issued, in issue order
  tq,            \* the entries dispatched to each taskq, oldest first
  wk,            \* the task each taskq thread is running, 0 for none
  inl,           \* the bio a submitter runs synchronously, 0 for none
  order,         \* bios in the order zvol_strategy_impl ran them
  delivered      \* completions delivered for each bio (g_io_deliver, biofinish)

vars == <<private, request_sync, hash, req, tq, wk, inl, order, delivered>>

Init ==
  /\ private = TRUE
  /\ request_sync \in BOOLEAN
  /\ hash \in [Cpus \X Buckets -> 0..HashMax]
  /\ req = <<>>
  /\ tq = [q \in TqIdxs |-> <<>>]
  /\ wk = [w \in Workers |-> 0]
  /\ inl = [s \in Submitters |-> 0]
  /\ order = <<>>
  /\ delivered = [i \in Ids |-> 0]

-----------------------------------------------------------------------------
(* Seeded fault: the modulus is one too large.                            *)
TqIdxOffByOne(h) == h % (TqCnt + 1)

(* tq_idx = taskq_hash % ztqs->tqs_cnt.                                    *)
TqIdx(h) == h % TqCnt

(* zvol_geom_bio_strategy's test: sync || zvol_request_sync.               *)
RunsInline(src) == src = "geom_sleep" \/ request_sync

(* zvol_strategy_impl runs bio i and delivers its completion.              *)
Execute(i) ==
  /\ order' = Append(order, i)
  /\ delivered' = [delivered EXCEPT ![i] = @ + 1]

(* Seeded fault: the ENXIO branch completes the bio and does not return  *)
(* (line 773 missing), so the bio is dispatched as well.                 *)
SubmitNoReturn(s) ==
  /\ inl[s] = 0 /\ Len(req) < MaxReq
  /\ \E src \in Sources, c \in Cpus, b \in Buckets :
       LET i == Len(req) + 1
       IN  /\ req' = Append(req, [by |-> s, cpu |-> c, bucket |-> b, sync |-> FALSE])
           /\ delivered' = IF private THEN delivered ELSE [delivered EXCEPT ![i] = 1]
           /\ tq' = [tq EXCEPT ![TqIdx(hash[c, b])] = Append(@, i)]
           /\ UNCHANGED inl
  /\ UNCHANGED <<private, request_sync, hash, wk, order>>

(* Seeded fault: the task is dispatched to the front of its taskq          *)
(* (taskq_dispatch_ent with TQ_FRONT).                                     *)
SubmitFront(s) ==
  /\ inl[s] = 0 /\ Len(req) < MaxReq
  /\ \E src \in Sources, c \in Cpus, b \in Buckets :
       LET i == Len(req) + 1
           sync == RunsInline(src)
       IN  /\ req' = Append(req, [by |-> s, cpu |-> c, bucket |-> b, sync |-> sync])
           /\ \/ /\ ~private
                 /\ delivered' = [delivered EXCEPT ![i] = 1]
                 /\ UNCHANGED <<tq, inl>>
              \/ /\ private /\ sync
                 /\ inl' = [inl EXCEPT ![s] = i]
                 /\ UNCHANGED <<tq, delivered>>
              \/ /\ private /\ ~sync
                 /\ tq' = [tq EXCEPT ![TqIdx(hash[c, b])] = Cons(i, @)]
                 /\ UNCHANGED <<inl, delivered>>
  /\ UNCHANGED <<private, request_sync, hash, wk, order>>

(* zvol_geom_bio_start / zvol_cdev_bio_strategy, then                      *)
(* zvol_geom_bio_strategy: a submitter that is not running a bio issues   *)
(* one for a bucket on its current cpu. Without the private pointer it    *)
(* completes with ENXIO; a bio that runs inline is left for RunInline;    *)
(* otherwise it is appended to the taskq its hash selects.                 *)
Submit(s) ==
  /\ inl[s] = 0 /\ Len(req) < MaxReq
  /\ \E src \in Sources, c \in Cpus, b \in Buckets :
       LET i == Len(req) + 1
           sync == RunsInline(src)
       IN  /\ req' = Append(req, [by |-> s, cpu |-> c, bucket |-> b, sync |-> sync])
           /\ \/ /\ ~private
                 /\ delivered' = [delivered EXCEPT ![i] = 1]
                 /\ UNCHANGED <<tq, inl>>
              \/ /\ private /\ sync
                 /\ inl' = [inl EXCEPT ![s] = i]
                 /\ UNCHANGED <<tq, delivered>>
              \/ /\ private /\ ~sync
                 /\ tq' = [tq EXCEPT ![TqIdx(hash[c, b])] = Append(@, i)]
                 /\ UNCHANGED <<inl, delivered>>
  /\ UNCHANGED <<private, request_sync, hash, wk, order>>

(* The submitter runs zvol_strategy_impl on its bio and returns.           *)
RunInline(s) ==
  /\ inl[s] # 0
  /\ Execute(inl[s])
  /\ inl' = [inl EXCEPT ![s] = 0]
  /\ UNCHANGED <<private, request_sync, hash, req, tq, wk>>

(* An idle thread of a taskq takes the oldest entry of its queue.          *)
TaskTake(w) ==
  /\ wk[w] = 0 /\ tq[w[1]] # <<>>
  /\ wk' = [wk EXCEPT ![w] = Head(tq[w[1]])]
  /\ tq' = [tq EXCEPT ![w[1]] = Tail(@)]
  /\ UNCHANGED <<private, request_sync, hash, req, inl, order, delivered>>

(* zvol_strategy_task: zvol_strategy_impl, then zv_request_task_free.      *)
TaskRun(w) ==
  /\ wk[w] # 0
  /\ Execute(wk[w])
  /\ wk' = [wk EXCEPT ![w] = 0]
  /\ UNCHANGED <<private, request_sync, hash, req, tq, inl>>

(* zvol_os_clear_private: new bios find no volume.                          *)
ClearPrivate ==
  /\ private
  /\ private' = FALSE
  /\ UNCHANGED <<request_sync, hash, req, tq, wk, inl, order, delivered>>

(* The zvol_request_sync tunable is changed through sysctl; only a bio    *)
(* issued later can tell, so the model changes it while bios remain.    *)
SetRequestSync ==
  /\ Len(req) < MaxReq
  /\ request_sync' = ~request_sync
  /\ UNCHANGED <<private, hash, req, tq, wk, inl, order, delivered>>

(* Every bio has been issued and completed: nothing is left to do.         *)
Terminating ==
  /\ Len(req) = MaxReq
  /\ \A i \in Ids : delivered[i] > 0
  /\ UNCHANGED vars

Next ==
  \/ \E s \in Submitters : Submit(s) \/ RunInline(s)
  \/ \E w \in Workers : TaskTake(w) \/ TaskRun(w)
  \/ ClearPrivate
  \/ SetRequestSync
  \/ Terminating

Spec == Init /\ [][Next]_vars

-----------------------------------------------------------------------------
(* Properties *)

TypeOK ==
  /\ private \in BOOLEAN /\ request_sync \in BOOLEAN
  /\ hash \in [Cpus \X Buckets -> 0..HashMax]
  /\ \A cb \in Cpus \X Buckets : TqIdx(hash[cb]) \in TqIdxs
  /\ req \in Seq([by : Submitters, cpu : Cpus, bucket : Buckets, sync : BOOLEAN])
  /\ Len(req) <= MaxReq
  /\ tq \in [TqIdxs -> Seq(Ids)]
  /\ wk \in [Workers -> 0..MaxReq] /\ inl \in [Submitters -> 0..MaxReq]
  /\ order \in Seq(Ids)
  /\ delivered \in [Ids -> 0..1]

(* How many times bio i is held somewhere: queued on a taskq, held by a   *)
(* taskq thread, being run inline, or completed.                           *)
Holders(i) ==
  LET Count(sq) == Len(SelectSeq(sq, LAMBDA x : x = i)) IN
    FoldFunction(LAMBDA sq, n : n + Count(sq), 0, tq)
    + Cardinality({w \in Workers : wk[w] = i})
    + Cardinality({s \in Submitters : inl[s] = i})
    + delivered[i]

(* Every bio issued is, at each moment, in exactly one place along        *)
(* zvol_geom_bio_strategy's paths (ENXIO completion, inline run, taskq     *)
(* entry, taskq thread, completion), and zvol_strategy_impl has run it at *)
(* most once, and only if it found the volume: no path both completes a   *)
(* bio and passes it on, drops it, or runs it twice.                       *)
RequestAccounted ==
  /\ \A i \in 1..Len(req) : Holders(i) = 1
  /\ IsInjective(order)
  /\ \A k \in 1..Len(order) : order[k] <= Len(req)

(* Bio i has reached zvol_strategy_impl or a taskq thread.                 *)
Started(i) == Contains(order, i) \/ \E w \in Workers : wk[w] = i

(* Two bios handed to the taskqs from the same cpu for the same offset    *)
(* bucket hash to the same taskq and start in the order they were issued: *)
(* taskq_dispatch_ent appends, and the taskq is served oldest first.      *)
SameShardInOrder ==
  \A i, j \in 1..Len(req) :
    (/\ i < j /\ ~req[i].sync /\ ~req[j].sync
     /\ req[i].cpu = req[j].cpu /\ req[i].bucket = req[j].bucket
     /\ Started(j)) => Started(i)

=============================================================================
