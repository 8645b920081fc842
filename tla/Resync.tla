------------------------------- MODULE Resync -------------------------------
(***************************************************************************)
(* The goroutines of one ResyncControllerRing: a generator that lists the  *)
(* ring's resources through the pager and queues work items, Concurrency   *)
(* workers that drain and move objects, and the caller that collects their *)
(* errors and returns.  They share the channels chunkC (of each pager),    *)
(* work and errs, and the context, which may be cancelled.                 *)
(***************************************************************************)
EXTENDS Naturals, Sequences, FiniteSets

CONSTANTS
  Workers,         \* o.Concurrency of them; as many items fit into work
  Resources,       \* the ring's resources are 1 .. Resources
  Pages,           \* Pages[r]: pages of resource r, each a set of objects
  Misplaced,       \* objects that need a work item
  None,            \* no object
  PageBufferSize,  \* chunks that fit into chunkC
  MaxFaults,       \* bound: failing calls of the API server
  MayCancel        \* the context may be cancelled

Rs == 1 .. Resources
Objects == UNION {UNION {Pages[r][i] : i \in DOMAIN Pages[r]} : r \in Rs}

ASSUME ResyncAssumption ==
  /\ Workers # {} /\ IsFiniteSet(Workers)
  /\ Resources \in Nat
  /\ Pages \in [Rs -> Seq(SUBSET Objects) \ {<<>>}] /\ IsFiniteSet(Objects)
  /\ None \notin Objects
  /\ PageBufferSize \in Nat \ {0}
  /\ MaxFaults \in Nat
  /\ MayCancel \in BOOLEAN

Concurrency == Cardinality(Workers)

VARIABLES
  cancelled,  \* ctx.Done() is closed
  gen,        \* generator: pc, resource res, rest of the chunk, item to put, error so far
  bg,         \* bg[r]: the pager's background goroutine: pc, page, its result err
  chunkC,     \* chunkC[r]: chunks buffered; closed when bg[r] has ended
  work,       \* work items buffered; closed when the generator is done
  worker,     \* worker[w]: pc, item and the error to report
  failed,     \* the caller has collected an error
  ret,        \* what ResyncControllerRing returned: "no" (not yet), "nil", "error"
  processed,  \* objects drained or moved
  faults

vars == <<cancelled, gen, bg, chunkC, work, worker, failed, ret, processed, faults>>

Fault == faults < MaxFaults /\ faults' = faults + 1

\* the context that eachListChunkBuffered derives: it also ends with the call
Done(r) == cancelled \/ gen.res > r \/ gen.pc \in {"report", "next", "done"}
-----------------------------------------------------------------------------
(* compileWorkItemsForRing and compileWorkItemsForResource *)

\* the next resource, if there is one: its kind is looked up, a pager started
NextResource ==
  /\ gen.pc = "next"
  /\ IF gen.res = Resources
     THEN /\ gen' = [gen EXCEPT !.pc = "done"]
          /\ UNCHANGED <<bg, faults>>
     ELSE \/ /\ gen' = [gen EXCEPT !.pc = "range", !.res = @ + 1, !.err = FALSE]
             /\ bg' = [bg EXCEPT ![gen.res + 1].pc = "list"]
             /\ UNCHANGED faults
          \/ /\ Fault
             /\ gen' = [gen EXCEPT !.pc = "report", !.res = @ + 1, !.err = TRUE]
             /\ UNCHANGED bg
  /\ UNCHANGED <<cancelled, chunkC, work, worker, failed, ret, processed>>

\* eachListChunkBuffered takes a chunk, or the result when chunkC is closed
RangeChunks ==
  /\ gen.pc = "range"
  /\ IF chunkC[gen.res] # <<>>
     THEN /\ chunkC' = [chunkC EXCEPT ![gen.res] = Tail(@)]
          /\ gen' = [gen EXCEPT !.pc = "check", !.chunk = Head(chunkC[gen.res])]
     ELSE /\ bg[gen.res].pc = "end"
          /\ gen' = [gen EXCEPT !.pc = "report", !.err = @ \/ bg[gen.res].err]
          /\ UNCHANGED chunkC
  /\ UNCHANGED <<cancelled, bg, work, worker, failed, ret, processed, faults>>

\* before it is processed the context is asked, which may have ended by now
CheckContext ==
  /\ gen.pc = "check"
  /\ gen' = IF cancelled THEN [gen EXCEPT !.pc = "report", !.err = TRUE]
                         ELSE [gen EXCEPT !.pc = "chunk"]
  /\ UNCHANGED <<cancelled, bg, chunkC, work, worker, failed, ret, processed, faults>>

\* the callback: workItemForObject may fail, which does not end the list
EachItem ==
  /\ gen.pc = "chunk"
  /\ IF gen.chunk = {}
     THEN gen' = [gen EXCEPT !.pc = "range"] /\ UNCHANGED faults
     ELSE \E o \in gen.chunk :
            \/ /\ gen' = [gen EXCEPT !.chunk = @ \ {o}, !.pc = IF o \in Misplaced THEN "put" ELSE "chunk",
                                     !.item = IF o \in Misplaced THEN o ELSE None]
               /\ UNCHANGED faults
            \/ /\ Fault
               /\ gen' = [gen EXCEPT !.chunk = @ \ {o}, !.err = TRUE]
  /\ UNCHANGED <<cancelled, bg, chunkC, work, worker, failed, ret, processed>>

\* mutant: a queue without bound
PutItemUnbounded ==
  /\ gen.pc = "put"
  /\ work' = Append(work, gen.item)
  /\ gen' = [gen EXCEPT !.pc = "chunk", !.item = None]
  /\ UNCHANGED <<cancelled, bg, chunkC, worker, failed, ret, processed, faults>>

\* work <- w
PutItem ==
  /\ gen.pc = "put" /\ Len(work) < Concurrency
  /\ work' = Append(work, gen.item)
  /\ gen' = [gen EXCEPT !.pc = "chunk", !.item = None]
  /\ UNCHANGED <<cancelled, bg, chunkC, worker, failed, ret, processed, faults>>

\* errs <- err, which the caller receives
ReportResource ==
  /\ gen.pc = "report"
  /\ failed' = (failed \/ gen.err)
  /\ gen' = [gen EXCEPT !.pc = "next", !.chunk = {}, !.err = FALSE]
  /\ UNCHANGED <<cancelled, bg, chunkC, work, worker, ret, processed, faults>>
-----------------------------------------------------------------------------
(* eachListChunk in the background goroutine of the pager for resource r *)

EndList(r, err) == bg' = [bg EXCEPT ![r].pc = "end", ![r].err = err]

ListPage(r) ==
  /\ bg[r].pc = "list"
  /\ \/ Done(r) /\ EndList(r, TRUE) /\ UNCHANGED faults
     \/ ~Done(r) /\ Fault /\ EndList(r, TRUE)
     \/ ~Done(r) /\ bg' = [bg EXCEPT ![r].pc = "send"] /\ UNCHANGED faults
  /\ UNCHANGED <<cancelled, gen, chunkC, work, worker, failed, ret, processed>>

\* mutant: the chunk is sent without looking at the context
SendChunkBlocking(r) ==
  /\ bg[r].pc = "send" /\ Len(chunkC[r]) < PageBufferSize
  /\ chunkC' = [chunkC EXCEPT ![r] = Append(@, Pages[r][bg[r].page])]
  /\ bg' = [bg EXCEPT ![r] = IF bg[r].page = Len(Pages[r]) THEN [@ EXCEPT !.pc = "end"]
                             ELSE [@ EXCEPT !.pc = "list", !.page = @ + 1]]
  /\ UNCHANGED <<cancelled, gen, work, worker, failed, ret, processed, faults>>

SendChunk(r) ==
  /\ bg[r].pc = "send"
  /\ \/ /\ Len(chunkC[r]) < PageBufferSize
        /\ chunkC' = [chunkC EXCEPT ![r] = Append(@, Pages[r][bg[r].page])]
        /\ IF bg[r].page = Len(Pages[r])
           THEN EndList(r, FALSE)
           ELSE bg' = [bg EXCEPT ![r].pc = "list", ![r].page = @ + 1]
     \/ Done(r) /\ EndList(r, TRUE) /\ UNCHANGED chunkC
  /\ UNCHANGED <<cancelled, gen, work, worker, failed, ret, processed, faults>>
-----------------------------------------------------------------------------
(* processNextWorkItem *)

Stopped == [pc |-> "done", item |-> None, err |-> FALSE]

\* mutant: nobody notices that work is closed
TakeItemForever(w) ==
  /\ worker[w].pc = "idle"
  /\ \/ /\ work # <<>>
        /\ worker' = [worker EXCEPT ![w] = [pc |-> "busy", item |-> Head(work), err |-> FALSE]]
        /\ work' = Tail(work)
     \/ /\ cancelled
        /\ worker' = [worker EXCEPT ![w] = Stopped]
        /\ UNCHANGED work
  /\ UNCHANGED <<cancelled, gen, bg, chunkC, failed, ret, processed, faults>>

TakeItem(w) ==
  /\ worker[w].pc = "idle"
  /\ \/ /\ work # <<>>
        /\ worker' = [worker EXCEPT ![w] = [pc |-> "busy", item |-> Head(work), err |-> FALSE]]
        /\ work' = Tail(work)
     \/ /\ cancelled \/ (work = <<>> /\ gen.pc = "done")
        /\ worker' = [worker EXCEPT ![w] = Stopped]
        /\ UNCHANGED work
  /\ UNCHANGED <<cancelled, gen, bg, chunkC, failed, ret, processed, faults>>

\* drainObject or moveObject
ProcessItem(w) ==
  /\ worker[w].pc = "busy"
  /\ \/ /\ processed' = processed \cup {worker[w].item}
        /\ worker' = [worker EXCEPT ![w].pc = "report"]
        /\ UNCHANGED faults
     \/ /\ (cancelled /\ UNCHANGED faults) \/ Fault
        /\ worker' = [worker EXCEPT ![w].pc = "report", ![w].err = TRUE]
        /\ UNCHANGED processed
  /\ UNCHANGED <<cancelled, gen, bg, chunkC, work, failed, ret>>

\* mutant: an error is logged but not sent
ReportItemNothing(w) ==
  /\ worker[w].pc = "report"
  /\ worker' = [worker EXCEPT ![w] = [pc |-> "idle", item |-> None, err |-> FALSE]]
  /\ UNCHANGED <<cancelled, gen, bg, chunkC, work, failed, ret, processed, faults>>

ReportItem(w) ==
  /\ worker[w].pc = "report"
  /\ failed' = (failed \/ worker[w].err)
  /\ worker' = [worker EXCEPT ![w] = [pc |-> "idle", item |-> None, err |-> FALSE]]
  /\ UNCHANGED <<cancelled, gen, bg, chunkC, work, ret, processed, faults>>
-----------------------------------------------------------------------------
(* The caller *)

\* all goroutines of the WaitGroup have ended: errs is closed
Return ==
  /\ ret = "no" /\ gen.pc = "done" /\ \A w \in Workers : worker[w].pc = "done"
  /\ ret' = IF failed THEN "error" ELSE "nil"
  /\ UNCHANGED <<cancelled, gen, bg, chunkC, work, worker, failed, processed, faults>>

\* the sharder shuts down
Cancel ==
  /\ MayCancel /\ ~cancelled /\ ret = "no"
  /\ cancelled' = TRUE
  /\ UNCHANGED <<gen, bg, chunkC, work, worker, failed, ret, processed, faults>>
-----------------------------------------------------------------------------
Init ==
  /\ cancelled = FALSE
  /\ gen = [pc |-> "next", res |-> 0, chunk |-> {}, item |-> None, err |-> FALSE]
  /\ bg = [r \in Rs |-> [pc |-> "off", page |-> 1, err |-> FALSE]]
  /\ chunkC = [r \in Rs |-> <<>>]
  /\ work = <<>>
  /\ worker = [w \in Workers |-> [pc |-> "idle", item |-> None, err |-> FALSE]]
  /\ failed = FALSE /\ ret = "no" /\ processed = {} /\ faults = 0

Generator == NextResource \/ RangeChunks \/ CheckContext \/ EachItem \/ PutItem \/ ReportResource
Pager(r)  == ListPage(r) \/ SendChunk(r)
Worker(w) == TakeItem(w) \/ ProcessItem(w) \/ ReportItem(w)

Next == \/ Generator \/ Return \/ Cancel
        \/ \E r \in Rs : Pager(r)
        \/ \E w \in Workers : Worker(w)

Spec == Init /\ [][Next]_vars

\* the Go scheduler runs every goroutine that is not blocked
FairSpec == /\ Spec /\ WF_vars(Generator) /\ WF_vars(Return)
            /\ \A r \in Rs : WF_vars(Pager(r))
            /\ \A w \in Workers : WF_vars(Worker(w))
-----------------------------------------------------------------------------
TypeOK ==
  /\ cancelled \in BOOLEAN /\ failed \in BOOLEAN /\ faults \in Nat
  /\ gen \in [pc : {"next", "range", "check", "chunk", "put", "report", "done"}, res : 0 .. Resources,
              chunk : SUBSET Objects, item : Objects \cup {None}, err : BOOLEAN]
  /\ bg \in [Rs -> [pc : {"off", "list", "send", "end"}, page : Nat, err : BOOLEAN]]
  /\ \A r \in Rs : bg[r].page \in DOMAIN Pages[r] /\ Len(chunkC[r]) <= PageBufferSize
  /\ work \in Seq(Misplaced) /\ Len(work) <= Concurrency
  /\ worker \in [Workers -> [pc : {"idle", "busy", "report", "done"},
                             item : Objects \cup {None}, err : BOOLEAN]]
  /\ ret \in {"no", "nil", "error"} /\ processed \subseteq Misplaced

(***************************************************************************)
(* A resync that reports success has drained or moved every object that    *)
(* was misplaced; so an incomplete one is retried with backoff and not     *)
(* only after the sync period.  A cancelled one may report success without *)
(* having done so: its workers leave when the context ends.                *)
(***************************************************************************)
SuccessIsComplete == ret = "nil" /\ ~cancelled => processed = Misplaced \cap Objects

(***************************************************************************)
(* Generator, pagers and workers never block each other for good: a resync *)
(* that is not cancelled returns, whichever calls fail.                    *)
(***************************************************************************)
Returns == <>(cancelled \/ ret # "no")

(***************************************************************************)
(* No pager leaves its background goroutine behind when the generator has  *)
(* gone on to the next resource or is done.                                *)
(***************************************************************************)
PagersEnd ==
  \A r \in Rs : (gen.res > r \/ gen.pc = "done") ~> (bg[r].pc \in {"off", "end"})

(***************************************************************************)
(* A cancelled resync returns ("stop when context is canceled").           *)
(***************************************************************************)
CancelReturns == cancelled ~> ret # "no"
=============================================================================
