---------------------------- MODULE ResyncProofs ----------------------------
(***************************************************************************)
(* A resync that reports success is complete, for any number of workers,   *)
(* resources, pages, objects and failing calls, and however the generator, *)
(* the pagers and the workers interleave.                                  *)
(*                                                                         *)
(* The inductive invariant follows each misplaced object from its page     *)
(* through the channels to a worker: at every moment it is in one of these *)
(* places or processed, or an error is on its way to the caller.           *)
(*                                                                         *)
(* A resync that is not cancelled returns: there is always a goroutine     *)
(* that is not blocked, and each step comes down in a well-founded order.  *)
(* That the scheduler runs such a goroutine is fairness, and left to TLC.  *)
(***************************************************************************)
EXTENDS Resync, SequenceTheorems, FiniteSetTheorems, WellFoundedInduction, TLAPS

Items == Misplaced \cap Objects

\* the generator ranges over the chunks of resource gen.res
Listing == gen.pc \in {"range", "check", "chunk", "put"}

Types ==
  /\ TypeOK
  /\ chunkC \in [Rs -> Seq(SUBSET Objects)]
  /\ work \in Seq(Items)
  /\ processed \subseteq Items
  /\ gen.pc = "put" => gen.item \in Items
  /\ \A w \in Workers : worker[w].pc = "busy" => worker[w].item \in Items

\* What the program counters say about the rest.
Phases ==
  /\ gen.pc \in {"next", "range", "done"} => gen.chunk = {}
  /\ gen.pc \in {"next", "done"} => ~gen.err
  /\ gen.pc = "done" => gen.res = Resources
  /\ Listing => gen.res # 0
  /\ \A r \in Rs :
       /\ bg[r].pc # "end" => ~bg[r].err
       /\ r > gen.res => bg[r].pc = "off" /\ bg[r].page = 1
       /\ r = gen.res /\ Listing => bg[r].pc # "off"
  /\ \A w \in Workers :
       /\ worker[w].pc # "report" => ~worker[w].err
       /\ worker[w].pc = "done" /\ ~cancelled => work = <<>> /\ gen.pc = "done"
  /\ ret # "no" => gen.pc = "done" /\ \A w \in Workers : worker[w].pc = "done"
  /\ ret = "nil" => ~failed

\* an error that the caller has, or gets
Trouble == cancelled \/ failed \/ gen.err \/ \E w \in Workers : worker[w].err

\* behind the generator
Queued(o) ==
  \/ o \in processed
  \/ \E w \in Workers : worker[w].pc = "busy" /\ worker[w].item = o
  \/ \E j \in 1 .. Len(work) : work[j] = o
  \/ gen.pc = "put" /\ gen.item = o

\* before it: object o of page i of resource r is still to come, or the
\* pager's error is
Upcoming(o, r, i) ==
  \/ r > gen.res
  \/ /\ r = gen.res /\ Listing
     /\ \/ o \in gen.chunk
        \/ bg[r].err
        \/ \E j \in 1 .. Len(chunkC[r]) : o \in chunkC[r][j]
        \/ bg[r].pc \in {"list", "send"} /\ bg[r].page <= i

\* No misplaced object is lost on the way without an error.
NoneLost ==
  \A r \in Rs : \A i \in 1 .. Len(Pages[r]) : \A o \in Pages[r][i] \cap Misplaced :
    Trouble \/ Queued(o) \/ Upcoming(o, r, i)

IndInv == Types /\ Phases /\ NoneLost

GenRec == [pc : {"next", "range", "check", "chunk", "put", "report", "done"}, res : 0 .. Resources,
           chunk : SUBSET Objects, item : Objects \cup {None}, err : BOOLEAN]
BgRec == [pc : {"off", "list", "send", "end"}, page : Nat, err : BOOLEAN]
WorkerRec == [pc : {"idle", "busy", "report", "done"}, item : Objects \cup {None}, err : BOOLEAN]

\* The conjuncts of Types, one by one.
TypeFacts ==
  /\ cancelled \in BOOLEAN /\ failed \in BOOLEAN /\ faults \in Nat
  /\ gen \in GenRec
  /\ bg \in [Rs -> BgRec] /\ (\A r \in Rs : bg[r].page \in 1 .. Len(Pages[r]))
  /\ chunkC \in [Rs -> Seq(SUBSET Objects)] /\ (\A r \in Rs : Len(chunkC[r]) <= PageBufferSize)
  /\ work \in Seq(Items) /\ Len(work) <= Concurrency
  /\ worker \in [Workers -> WorkerRec]
  /\ ret \in {"no", "nil", "error"} /\ processed \subseteq Items
  /\ gen.pc = "put" => gen.item \in Items
  /\ \A w \in Workers : worker[w].pc = "busy" => worker[w].item \in Items

\* Pages are sequences of sets of objects.
LEMMA PagesTyped ==
  ASSUME NEW r \in Rs
  PROVE  /\ Pages[r] \in Seq(SUBSET Objects) /\ Len(Pages[r]) \in Nat /\ Len(Pages[r]) > 0
         /\ DOMAIN Pages[r] = 1 .. Len(Pages[r])
         /\ \A i \in 1 .. Len(Pages[r]) : Pages[r][i] \subseteq Objects
<1>1. Pages[r] \in Seq(SUBSET Objects) /\ Pages[r] # <<>>
  BY ResyncAssumption
<1>2. Len(Pages[r]) \in Nat /\ Len(Pages[r]) # 0 /\ DOMAIN Pages[r] = 1 .. Len(Pages[r])
  BY <1>1
<1> QED  BY <1>1, <1>2, ElementOfSeq

\* The facts are what Types says.
LEMMA TypesAreFacts == Types <=> TypeFacts
<1>1. \A r \in Rs : DOMAIN Pages[r] = 1 .. Len(Pages[r])
  BY PagesTyped
<1>2. work \in Seq(Items) => work \in Seq(Misplaced)
  <2> SUFFICES ASSUME work \in Seq(Items) PROVE work \in Seq(Misplaced)
    OBVIOUS
  <2> QED  BY DEF Items
<1>3. processed \subseteq Items => processed \subseteq Misplaced
  BY DEF Items
<1> QED  BY <1>1, <1>2, <1>3 DEF Types, TypeFacts, TypeOK, GenRec, BgRec, WorkerRec

\* The same in the next state.
LEMMA NextFacts == TypeFacts' => Types'
  BY TypesAreFacts, PTL

\* Elements of a sequence after an append.
LEMMA AppendElements ==
  ASSUME NEW S, NEW s \in Seq(S), NEW e \in S, NEW t, t = Append(s, e)
  PROVE  /\ \A j \in 1 .. Len(s) : \E k \in 1 .. Len(t) : t[k] = s[j]
         /\ \E k \in 1 .. Len(t) : t[k] = e
<1>1. Len(s) \in Nat /\ Len(t) = Len(s) + 1
  BY AppendProperties, LenProperties
<1>2. \A j \in 1 .. Len(s) : t[j] = s[j] /\ j \in 1 .. Len(t)
  BY <1>1, AppendProperties
<1>3. t[Len(s) + 1] = e /\ Len(s) + 1 \in 1 .. Len(t)
  BY <1>1, AppendProperties
<1> QED  BY <1>2, <1>3

\* Elements of a sequence are its head or in its tail.
LEMMA TailElements ==
  ASSUME NEW S, NEW s \in Seq(S), s # <<>>, NEW j \in 1 .. Len(s)
  PROVE  s[j] = Head(s) \/ \E k \in 1 .. Len(Tail(s)) : Tail(s)[k] = s[j]
<1>1. Len(s) \in Nat /\ Len(Tail(s)) = Len(s) - 1 /\ Head(s) = s[1]
  BY HeadTailProperties, LenProperties
<1>2. CASE j = 1
  BY <1>1, <1>2
<1>3. CASE j # 1
  <2>1. j - 1 \in 1 .. Len(Tail(s)) /\ Tail(s)[j - 1] = s[(j - 1) + 1] /\ (j - 1) + 1 = j
    BY <1>1, <1>3, HeadTailProperties
  <2> QED  BY <2>1
<1> QED  BY <1>2, <1>3

\* The constants.
LEMMA Constants == Resources \in Nat /\ Concurrency \in Nat /\ Concurrency > 0
                   /\ PageBufferSize \in Nat /\ PageBufferSize > 0 /\ MaxFaults \in Nat
                   /\ None \notin Objects
<1>1. Cardinality(Workers) \in Nat /\ Cardinality(Workers) # 0
  BY ResyncAssumption, FS_CardinalityType, FS_EmptySet
<1> QED  BY <1>1, ResyncAssumption DEF Concurrency

-----------------------------------------------------------------------------
(* The generator.                                                          *)

\* The generator goes to the next resource, or ends.
LEMMA NextResourceStep ==
  ASSUME IndInv, NextResource
  PROVE  IndInv'
<1>1. TypeFacts
  BY TypesAreFacts DEF IndInv
<1>2. /\ gen.pc = "next" /\ gen.chunk = {} /\ ~gen.err
      /\ UNCHANGED <<cancelled, chunkC, work, worker, failed, ret, processed>>
  BY DEF IndInv, Phases, NextResource
<1>3. CASE gen.res = Resources
  <2>1. gen' = [gen EXCEPT !.pc = "done"] /\ UNCHANGED <<bg, faults>>
    BY <1>3 DEF NextResource
  <2>2. /\ gen' \in GenRec /\ gen'.pc = "done" /\ gen'.res = gen.res /\ gen'.chunk = gen.chunk
        /\ gen'.err = gen.err
    BY <1>1, <2>1 DEF TypeFacts, GenRec
  <2>3. Types'
    <3>1. TypeFacts'
      BY <1>1, <1>2, <2>1, <2>2 DEF TypeFacts
    <3> QED  BY <3>1, NextFacts
  <2>4. Phases'
    BY <1>2, <1>3, <2>1, <2>2 DEF IndInv, Phases, Listing
  <2>5. NoneLost'
    BY <1>2, <2>1, <2>2 DEF IndInv, NoneLost, Trouble, Queued, Upcoming, Listing
  <2> QED  BY <2>3, <2>4, <2>5 DEF IndInv
<1>4. CASE /\ gen.res # Resources
           /\ gen' = [gen EXCEPT !.pc = "range", !.res = @ + 1, !.err = FALSE]
           /\ bg' = [bg EXCEPT ![gen.res + 1].pc = "list"]
           /\ UNCHANGED faults
  <2> DEFINE n == gen.res + 1
  <2>1. n \in Rs /\ n \in 0 .. Resources /\ gen.res \in Nat /\ n > gen.res
    BY <1>1, <1>4, Constants DEF TypeFacts, GenRec, Rs
  <2>2. gen' \in GenRec /\ gen'.pc = "range" /\ gen'.res = n /\ gen'.chunk = {} /\ ~gen'.err
    <3> HIDE DEF n
    <3>1. gen' = [gen EXCEPT !.pc = "range", !.res = n, !.err = FALSE]
      BY <1>4 DEF n
    <3> QED  BY <1>1, <1>2, <2>1, <3>1 DEF TypeFacts, GenRec
  <2>3. /\ bg' \in [Rs -> BgRec]
        /\ bg'[n].pc = "list" /\ bg'[n].page = 1 /\ ~bg'[n].err
        /\ \A r \in Rs : r # n => bg'[r] = bg[r]
    <3>1. bg[n].page = 1 /\ ~bg[n].err
      <4>1. bg[n].pc = "off" /\ bg[n].page = 1
        BY <2>1 DEF IndInv, Phases
      <4> QED  BY <2>1, <4>1 DEF IndInv, Phases
    <3> HIDE DEF n
    <3>2. bg' = [bg EXCEPT ![n].pc = "list"]
      BY <1>4 DEF n
    <3> QED  BY <1>1, <2>1, <3>1, <3>2 DEF TypeFacts, BgRec
  <2>4. Types'
    <3>1. \A r \in Rs : bg'[r].page \in 1 .. Len(Pages[r])
      <4> SUFFICES ASSUME NEW r \in Rs PROVE bg'[r].page \in 1 .. Len(Pages[r])
        OBVIOUS
      <4>1. CASE r = n
        BY <2>3, <4>1, PagesTyped
      <4>2. CASE r # n
        BY <1>1, <2>3, <4>2 DEF TypeFacts
      <4> QED  BY <4>1, <4>2
    <3>2. TypeFacts'
      BY <1>1, <1>2, <1>4, <2>2, <2>3, <3>1 DEF TypeFacts
    <3> QED  BY <3>2, NextFacts
  <2>5. Phases'
    <3>1. \A r \in Rs : r > n => r > gen.res /\ r # n
      BY <2>1 DEF Rs
    <3>2. \A r \in Rs : /\ bg'[r].pc # "end" => ~bg'[r].err
                        /\ r > n => bg'[r].pc = "off" /\ bg'[r].page = 1
                        /\ r = n => bg'[r].pc # "off"
      BY <2>3, <3>1 DEF IndInv, Phases
    <3>3. n # 0
      BY <2>1
    <3> QED  BY <1>2, <2>2, <3>2, <3>3 DEF IndInv, Phases, Listing
  <2>6. NoneLost'
    <3> SUFFICES ASSUME NEW r \in Rs, NEW i \in 1 .. Len(Pages[r]), NEW o \in Pages[r][i] \cap Misplaced,
                        ~Trouble', ~Queued(o)'
                 PROVE  Upcoming(o, r, i)'
      BY DEF NoneLost
    <3>1. ~Trouble /\ ~Queued(o)
      BY <1>2, <2>2 DEF Trouble, Queued
    <3>2. r > gen.res
      BY <1>2, <3>1 DEF IndInv, NoneLost, Upcoming, Listing
    <3>3. r > n \/ r = n
      BY <2>1, <3>2 DEF Rs
    <3>4. 1 <= i
      BY PagesTyped
    <3> QED  BY <2>2, <2>3, <3>3, <3>4 DEF Upcoming, Listing
  <2> QED  BY <2>4, <2>5, <2>6 DEF IndInv
<1>5. CASE /\ gen.res # Resources
           /\ Fault
           /\ gen' = [gen EXCEPT !.pc = "report", !.res = @ + 1, !.err = TRUE]
           /\ UNCHANGED bg
  <2> DEFINE n == gen.res + 1
  <2>1. n \in Rs /\ n \in 0 .. Resources /\ gen.res \in Nat /\ faults' \in Nat
    BY <1>1, <1>5, Constants DEF TypeFacts, GenRec, Rs, Fault
  <2>2. gen' \in GenRec /\ gen'.pc = "report" /\ gen'.res = n /\ gen'.err
    <3> HIDE DEF n
    <3>1. gen' = [gen EXCEPT !.pc = "report", !.res = n, !.err = TRUE]
      BY <1>5 DEF n
    <3> QED  BY <1>1, <1>2, <2>1, <3>1 DEF TypeFacts, GenRec
  <2>3. TypeFacts'
    BY <1>1, <1>2, <1>5, <2>1, <2>2 DEF TypeFacts
  <2>4. \A r \in Rs : r > n => r > gen.res
    BY <2>1 DEF Rs
  <2>5. Phases'
    BY <1>2, <1>5, <2>2, <2>4 DEF IndInv, Phases, Listing
  <2>6. NoneLost'
    BY <2>2 DEF NoneLost, Trouble
  <2> QED  BY <2>3, <2>5, <2>6, NextFacts DEF IndInv
<1> QED  BY <1>3, <1>4, <1>5 DEF NextResource

\* The generator takes a chunk, or the pager's result.
LEMMA RangeChunksStep ==
  ASSUME IndInv, RangeChunks
  PROVE  IndInv'
<1> DEFINE n == gen.res
<1>1. TypeFacts
  BY TypesAreFacts DEF IndInv
<1>2. /\ gen.pc = "range" /\ gen.chunk = {} /\ Listing
      /\ UNCHANGED <<cancelled, bg, work, worker, failed, ret, processed, faults>>
  BY DEF IndInv, Phases, RangeChunks, Listing
<1>3. n \in Rs
  BY <1>1, <1>2, Constants DEF IndInv, Phases, TypeFacts, GenRec, Rs
<1>4. CASE chunkC[n] # <<>>
  <2> DEFINE c == Head(chunkC[n])
  <2>1. chunkC[n] \in Seq(SUBSET Objects) /\ Len(chunkC[n]) <= PageBufferSize /\ Len(chunkC[n]) \in Nat
    BY <1>1, <1>3, LenProperties DEF TypeFacts
  <2>2. c \in SUBSET Objects /\ Tail(chunkC[n]) \in Seq(SUBSET Objects)
        /\ Len(Tail(chunkC[n])) = Len(chunkC[n]) - 1
    BY <1>4, <2>1, HeadTailProperties
  <2>3. gen' \in GenRec /\ gen'.pc = "check" /\ gen'.res = n /\ gen'.chunk = c /\ gen'.err = gen.err
    BY <1>1, <1>4, <2>2 DEF RangeChunks, TypeFacts, GenRec
  <2>4. /\ chunkC' \in [Rs -> Seq(SUBSET Objects)] /\ chunkC'[n] = Tail(chunkC[n])
        /\ \A r \in Rs : r # n => chunkC'[r] = chunkC[r]
    BY <1>1, <1>3, <1>4, <2>2 DEF RangeChunks, TypeFacts
  <2>5. \A r \in Rs : Len(chunkC'[r]) <= PageBufferSize
    <3> SUFFICES ASSUME NEW r \in Rs PROVE Len(chunkC'[r]) <= PageBufferSize
      OBVIOUS
    <3>1. CASE r = n
      <4>1. Len(chunkC'[r]) = Len(chunkC[n]) - 1
        BY <2>2, <2>4, <3>1, Zenon
      <4> QED  BY <2>1, <4>1, Constants
    <3>2. CASE r # n
      BY <1>1, <2>4, <3>2 DEF TypeFacts
    <3> QED  BY <3>1, <3>2
  <2>6. Types'
    <3>1. TypeFacts'
      BY <1>1, <1>2, <2>3, <2>4, <2>5 DEF TypeFacts
    <3> QED  BY <3>1, NextFacts
  <2>7. Phases'
    BY <1>2, <2>3 DEF IndInv, Phases, Listing
  <2>8. NoneLost'
    <3> SUFFICES ASSUME NEW r \in Rs, NEW i \in 1 .. Len(Pages[r]), NEW o \in Pages[r][i] \cap Misplaced,
                        ~Trouble', ~Queued(o)'
                 PROVE  Upcoming(o, r, i)'
      BY DEF NoneLost
    <3>1. Upcoming(o, r, i)
      BY <1>2, <2>3 DEF Trouble, Queued, IndInv, NoneLost
    <3>2. CASE r = n /\ \E j \in 1 .. Len(chunkC[n]) : o \in chunkC[n][j]
      <4>1. PICK j \in 1 .. Len(chunkC[n]) : o \in chunkC[n][j]
        BY <3>2
      <4>2. chunkC[n][j] = c \/ \E k \in 1 .. Len(Tail(chunkC[n])) : Tail(chunkC[n])[k] = chunkC[n][j]
        BY <1>4, <2>1, <4>1, TailElements
      <4> QED  BY <2>3, <2>4, <3>2, <4>1, <4>2 DEF Upcoming, Listing
    <3>3. CASE ~(r = n /\ \E j \in 1 .. Len(chunkC[n]) : o \in chunkC[n][j])
      BY <1>2, <2>3, <3>1, <3>3 DEF Upcoming, Listing
    <3> QED  BY <3>2, <3>3
  <2> QED  BY <2>6, <2>7, <2>8 DEF IndInv
<1>5. CASE chunkC[n] = <<>>
  <2>1. bg[n].pc = "end" /\ gen' = [gen EXCEPT !.pc = "report", !.err = @ \/ bg[n].err] /\ UNCHANGED chunkC
    BY <1>5 DEF RangeChunks
  <2>2. PICK e \in BOOLEAN : e = (gen.err \/ bg[n].err)
    OBVIOUS
  <2>3. gen' = [gen EXCEPT !.pc = "report", !.err = e]
    BY <2>1, <2>2
  <2>4. gen' \in GenRec /\ gen'.pc = "report" /\ gen'.res = n /\ gen'.chunk = {} /\ gen'.err = e
    BY <1>1, <1>2, <2>2, <2>3 DEF TypeFacts, GenRec
  <2>5. Types'
    <3>1. TypeFacts'
      BY <1>1, <1>2, <2>1, <2>4 DEF TypeFacts
    <3> QED  BY <3>1, NextFacts
  <2>6. Phases'
    BY <1>2, <2>4 DEF IndInv, Phases, Listing
  <2>7. NoneLost'
    <3> SUFFICES ASSUME NEW r \in Rs, NEW i \in 1 .. Len(Pages[r]), NEW o \in Pages[r][i] \cap Misplaced,
                        ~Trouble', ~Queued(o)'
                 PROVE  Upcoming(o, r, i)'
      BY DEF NoneLost
    <3>1. ~e
      BY <2>4 DEF Trouble
    <3>2. Upcoming(o, r, i) /\ ~bg[n].err
      BY <1>2, <2>2, <2>4, <3>1 DEF Trouble, Queued, IndInv, NoneLost
    <3>3. r > n
      <4>1. ~ \E j \in 1 .. Len(chunkC[n]) : o \in chunkC[n][j]
        BY <1>5
      <4> QED  BY <1>2, <2>1, <3>2, <4>1 DEF Upcoming
    <3> QED  BY <2>4, <3>3 DEF Upcoming
  <2> QED  BY <2>5, <2>6, <2>7 DEF IndInv
<1> QED  BY <1>4, <1>5

\* The generator asks the context.
LEMMA CheckContextStep ==
  ASSUME IndInv, CheckContext
  PROVE  IndInv'
<1>1. TypeFacts
  BY TypesAreFacts DEF IndInv
<1>2. gen.pc = "check" /\ UNCHANGED <<cancelled, bg, chunkC, work, worker, failed, ret, processed, faults>>
  BY DEF CheckContext
<1>3. /\ gen' \in GenRec /\ gen'.res = gen.res /\ gen'.chunk = gen.chunk
      /\ \/ gen'.pc = "report" /\ gen'.err /\ cancelled
         \/ gen'.pc = "chunk" /\ gen'.err = gen.err
  BY <1>1 DEF CheckContext, TypeFacts, GenRec
<1>4. Types'
  <2>1. TypeFacts'
    BY <1>1, <1>2, <1>3 DEF TypeFacts
  <2> QED  BY <2>1, NextFacts
<1>5. Phases'
  BY <1>2, <1>3 DEF IndInv, Phases, Listing
<1>6. NoneLost'
  BY <1>2, <1>3 DEF IndInv, NoneLost, Trouble, Queued, Upcoming, Listing
<1> QED  BY <1>4, <1>5, <1>6 DEF IndInv

\* The generator looks at the next object of its chunk.
LEMMA EachItemStep ==
  ASSUME IndInv, EachItem
  PROVE  IndInv'
<1>1. TypeFacts
  BY TypesAreFacts DEF IndInv
<1>2. gen.pc = "chunk" /\ UNCHANGED <<cancelled, bg, chunkC, work, worker, failed, ret, processed>>
  BY DEF EachItem
<1>3. CASE gen.chunk = {}
  <2>1. /\ gen' \in GenRec /\ gen'.res = gen.res /\ gen'.chunk = {} /\ gen'.pc = "range"
        /\ gen'.err = gen.err /\ faults' = faults
    BY <1>1, <1>3 DEF EachItem, TypeFacts, GenRec
  <2>2. Types'
    <3>1. TypeFacts'
      BY <1>1, <1>2, <2>1 DEF TypeFacts
    <3> QED  BY <3>1, NextFacts
  <2>3. Phases'
    BY <1>2, <2>1 DEF IndInv, Phases, Listing
  <2>4. NoneLost'
    BY <1>2, <1>3, <2>1 DEF IndInv, NoneLost, Trouble, Queued, Upcoming, Listing
  <2> QED  BY <2>2, <2>3, <2>4 DEF IndInv
<1>4. ASSUME NEW o \in gen.chunk, Fault, gen' = [gen EXCEPT !.chunk = @ \ {o}, !.err = TRUE]
      PROVE  IndInv'
  <2>1. faults' \in Nat
    BY <1>1, <1>4 DEF TypeFacts, Fault
  <2>2. gen' \in GenRec /\ gen'.res = gen.res /\ gen'.pc = "chunk" /\ gen'.err
    <3>1. gen.chunk \ {o} \in SUBSET Objects
      BY <1>1 DEF TypeFacts, GenRec
    <3> QED  BY <1>1, <1>2, <1>4, <3>1 DEF TypeFacts, GenRec
  <2>3. Types'
    <3>1. TypeFacts'
      BY <1>1, <1>2, <2>1, <2>2 DEF TypeFacts
    <3> QED  BY <3>1, NextFacts
  <2>4. Phases'
    BY <1>2, <2>2 DEF IndInv, Phases, Listing
  <2>5. NoneLost'
    BY <2>2 DEF NoneLost, Trouble
  <2> QED  BY <2>3, <2>4, <2>5 DEF IndInv
<1>5. ASSUME NEW o \in gen.chunk, NEW p, NEW it, gen' = [gen EXCEPT !.chunk = @ \ {o}, !.pc = p, !.item = it],
             p = IF o \in Misplaced THEN "put" ELSE "chunk", it = IF o \in Misplaced THEN o ELSE None,
             UNCHANGED faults
      PROVE  IndInv'
  <2>1. o \in Objects
    BY <1>1 DEF TypeFacts, GenRec
  <2>2. /\ gen' \in GenRec /\ gen'.res = gen.res /\ gen'.err = gen.err /\ gen'.chunk = gen.chunk \ {o}
        /\ gen'.pc = p /\ gen'.item = it
    <3>1. gen.chunk \ {o} \in SUBSET Objects /\ it \in Objects \cup {None} /\ p \in {"put", "chunk"}
      BY <1>1, <1>5, <2>1 DEF TypeFacts, GenRec
    <3> QED  BY <1>1, <1>5, <3>1 DEF TypeFacts, GenRec
  <2>3. Types'
    <3>1. gen'.pc = "put" => gen'.item \in Items
      BY <1>5, <2>1, <2>2 DEF Items
    <3>2. TypeFacts'
      BY <1>1, <1>2, <1>5, <2>2, <3>1 DEF TypeFacts
    <3> QED  BY <3>2, NextFacts
  <2>4. gen'.pc \in {"put", "chunk"}
    BY <1>5, <2>2
  <2>5. Phases'
    BY <1>2, <2>2, <2>4 DEF IndInv, Phases, Listing
  <2>6. NoneLost'
    <3> SUFFICES ASSUME NEW r \in Rs, NEW i \in 1 .. Len(Pages[r]), NEW x \in Pages[r][i] \cap Misplaced,
                        ~Trouble', ~Queued(x)'
                 PROVE  Upcoming(x, r, i)'
      BY DEF NoneLost
    <3>1. x # o
      BY <1>5, <2>2 DEF Queued
    <3>2. Upcoming(x, r, i)
      BY <1>2, <2>2 DEF Trouble, Queued, IndInv, NoneLost
    <3> QED  BY <1>2, <2>2, <2>4, <3>1, <3>2 DEF Upcoming, Listing
  <2> QED  BY <2>3, <2>5, <2>6 DEF IndInv
<1> QED  BY <1>3, <1>4, <1>5 DEF EachItem

\* work <- w
LEMMA PutItemStep ==
  ASSUME IndInv, PutItem
  PROVE  IndInv'
<1>1. TypeFacts
  BY TypesAreFacts DEF IndInv
<1>2. /\ gen.pc = "put" /\ gen.item \in Items /\ Len(work) < Concurrency
      /\ UNCHANGED <<cancelled, bg, chunkC, worker, failed, ret, processed, faults>>
      /\ work' = Append(work, gen.item)
  BY <1>1 DEF PutItem, TypeFacts
<1>3. /\ gen' \in GenRec /\ gen'.res = gen.res /\ gen'.chunk = gen.chunk /\ gen'.err = gen.err
      /\ gen'.pc = "chunk"
  BY <1>1 DEF PutItem, TypeFacts, GenRec
<1>4. work' \in Seq(Items) /\ Len(work') = Len(work) + 1 /\ Len(work) \in Nat
  BY <1>1, <1>2, AppendProperties, LenProperties DEF TypeFacts
<1>5. Types'
  <2>1. Len(work') <= Concurrency
    BY <1>2, <1>4, Constants
  <2>2. TypeFacts'
    BY <1>1, <1>2, <1>3, <1>4, <2>1 DEF TypeFacts
  <2> QED  BY <2>2, NextFacts
<1>6. Phases'
  BY <1>2, <1>3 DEF IndInv, Phases, Listing
<1>7. NoneLost'
  <2>1. /\ \A j \in 1 .. Len(work) : \E k \in 1 .. Len(work') : work'[k] = work[j]
        /\ \E k \in 1 .. Len(work') : work'[k] = gen.item
    <3>1. work \in Seq(Items) /\ gen.item \in Items
      BY <1>1, <1>2 DEF TypeFacts
    <3> QED  BY <1>2, <3>1, AppendElements
  <2>2. \A o : Queued(o) => Queued(o)'
    BY <1>2, <1>3, <2>1 DEF Queued
  <2> QED  BY <1>2, <1>3, <2>2 DEF IndInv, NoneLost, Trouble, Upcoming, Listing
<1> QED  BY <1>5, <1>6, <1>7 DEF IndInv

\* The generator reports the result for a resource.
LEMMA ReportResourceStep ==
  ASSUME IndInv, ReportResource
  PROVE  IndInv'
<1>1. TypeFacts
  BY TypesAreFacts DEF IndInv
<1>2. /\ gen.pc = "report" /\ UNCHANGED <<cancelled, bg, chunkC, work, worker, ret, processed, faults>>
      /\ failed' = (failed \/ gen.err)
  BY DEF ReportResource
<1>3. /\ gen' \in GenRec /\ gen'.res = gen.res /\ gen'.chunk = {} /\ ~gen'.err /\ gen'.pc = "next"
  BY <1>1 DEF ReportResource, TypeFacts, GenRec
<1>4. failed' \in BOOLEAN
  BY <1>2, Zenon
<1>5. Types'
  <2>1. TypeFacts'
    BY <1>1, <1>2, <1>3, <1>4 DEF TypeFacts
  <2> QED  BY <2>1, NextFacts
<1>6. Phases'
  BY <1>2, <1>3 DEF IndInv, Phases, Listing
<1>7. NoneLost'
  <2> SUFFICES ASSUME NEW r \in Rs, NEW i \in 1 .. Len(Pages[r]), NEW o \in Pages[r][i] \cap Misplaced,
                      ~Trouble', ~Queued(o)'
               PROVE  Upcoming(o, r, i)'
    BY DEF NoneLost
  <2>1. ~Trouble
    BY <1>2 DEF Trouble
  <2>2. Upcoming(o, r, i)
    BY <1>2, <1>3, <2>1 DEF Queued, IndInv, NoneLost
  <2> QED  BY <1>2, <1>3, <2>2 DEF Upcoming, Listing
<1> QED  BY <1>5, <1>6, <1>7 DEF IndInv

-----------------------------------------------------------------------------
(* The pagers.                                                             *)

\* A pager lists a page, fails, or finds its context done.
LEMMA ListPageStep ==
  ASSUME IndInv, NEW n \in Rs, ListPage(n)
  PROVE  IndInv'
<1>1. TypeFacts
  BY TypesAreFacts DEF IndInv
<1>2. bg[n].pc = "list" /\ UNCHANGED <<cancelled, gen, chunkC, work, worker, failed, ret, processed>>
  BY DEF ListPage
<1>3. \/ EndList(n, TRUE) /\ (UNCHANGED faults \/ Fault)
      \/ bg' = [bg EXCEPT ![n].pc = "send"] /\ UNCHANGED faults
  BY DEF ListPage
<1>4. faults' \in Nat
  <2>1. faults \in Nat
    BY <1>1 DEF TypeFacts
  <2>2. faults' = faults \/ faults' = faults + 1
    BY <1>3 DEF Fault
  <2> QED  BY <2>1, <2>2
<1>5. /\ bg' \in [Rs -> BgRec] /\ bg'[n].page = bg[n].page
      /\ \/ bg'[n].pc = "end" /\ bg'[n].err
         \/ bg'[n].pc = "send" /\ bg'[n].err = bg[n].err
      /\ \A r \in Rs : r # n => bg'[r] = bg[r]
  <2>1. CASE EndList(n, TRUE)
    BY <1>1, <2>1 DEF EndList, TypeFacts, BgRec
  <2>2. CASE bg' = [bg EXCEPT ![n].pc = "send"]
    BY <1>1, <2>2 DEF TypeFacts, BgRec
  <2> QED  BY <1>3, <2>1, <2>2
<1>6. Types'
  <2>1. \A r \in Rs : bg'[r].page \in 1 .. Len(Pages[r])
    BY <1>1, <1>5 DEF TypeFacts
  <2>2. TypeFacts'
    BY <1>1, <1>2, <1>4, <1>5, <2>1 DEF TypeFacts
  <2> QED  BY <2>2, NextFacts
<1>7. Phases'
  <2>1. ~(n > gen.res)
    BY <1>2 DEF IndInv, Phases
  <2>2. \A r \in Rs : /\ bg'[r].pc # "end" => ~bg'[r].err
                      /\ r > gen.res => bg'[r].pc = "off" /\ bg'[r].page = 1
                      /\ r = gen.res /\ Listing => bg'[r].pc # "off"
    BY <1>2, <1>5, <2>1 DEF IndInv, Phases
  <2> QED  BY <1>2, <2>2 DEF IndInv, Phases, Listing
<1>8. NoneLost'
  <2> SUFFICES ASSUME NEW r \in Rs, NEW i \in 1 .. Len(Pages[r]), NEW o \in Pages[r][i] \cap Misplaced,
                      ~Trouble', ~Queued(o)'
               PROVE  Upcoming(o, r, i)'
    BY DEF NoneLost
  <2>1. Upcoming(o, r, i)
    BY <1>2 DEF Trouble, Queued, IndInv, NoneLost
  <2>2. CASE r = n
    BY <1>2, <1>5, <2>1, <2>2 DEF Upcoming, Listing
  <2>3. CASE r # n
    BY <1>2, <1>5, <2>1, <2>3 DEF Upcoming, Listing
  <2> QED  BY <2>2, <2>3
<1> QED  BY <1>6, <1>7, <1>8 DEF IndInv

\* A pager sends a page, or finds its context done while the channel is full.
LEMMA SendChunkStep ==
  ASSUME IndInv, NEW n \in Rs, SendChunk(n)
  PROVE  IndInv'
<1>1. TypeFacts
  BY TypesAreFacts DEF IndInv
<1>2. bg[n].pc = "send" /\ UNCHANGED <<cancelled, gen, work, worker, failed, ret, processed, faults>>
  BY DEF SendChunk
<1>3. bg[n].page \in 1 .. Len(Pages[n]) /\ Len(Pages[n]) \in Nat /\ ~(n > gen.res) /\ ~bg[n].err
      /\ bg[n].page \in Nat /\ Pages[n][bg[n].page] \in SUBSET Objects
  BY <1>1, <1>2, PagesTyped DEF TypeFacts, IndInv, Phases
<1>4. CASE Done(n) /\ EndList(n, TRUE) /\ UNCHANGED chunkC
  <2>1. /\ bg' \in [Rs -> BgRec] /\ bg'[n].page = bg[n].page
        /\ bg'[n].pc = "end" /\ bg'[n].err
        /\ \A r \in Rs : r # n => bg'[r] = bg[r]
    BY <1>1, <1>4 DEF EndList, TypeFacts, BgRec
  <2>2. Types'
    <3>1. \A r \in Rs : bg'[r].page \in 1 .. Len(Pages[r])
      BY <1>1, <2>1 DEF TypeFacts
    <3>2. TypeFacts'
      BY <1>1, <1>2, <1>4, <2>1, <3>1 DEF TypeFacts
    <3> QED  BY <3>2, NextFacts
  <2>3. Phases'
    <3>1. \A r \in Rs : /\ bg'[r].pc # "end" => ~bg'[r].err
                        /\ r > gen.res => bg'[r].pc = "off" /\ bg'[r].page = 1
                        /\ r = gen.res /\ Listing => bg'[r].pc # "off"
      BY <1>2, <1>3, <2>1 DEF IndInv, Phases
    <3> QED  BY <1>2, <3>1 DEF IndInv, Phases, Listing
  <2>4. NoneLost'
    <3> SUFFICES ASSUME NEW r \in Rs, NEW i \in 1 .. Len(Pages[r]), NEW o \in Pages[r][i] \cap Misplaced,
                        ~Trouble', ~Queued(o)'
                 PROVE  Upcoming(o, r, i)'
      BY DEF NoneLost
    <3>1. Upcoming(o, r, i)
      BY <1>2 DEF Trouble, Queued, IndInv, NoneLost
    <3>2. CASE r = n
      BY <1>2, <1>4, <2>1, <3>1, <3>2 DEF Upcoming, Listing
    <3>3. CASE r # n
      BY <1>2, <1>4, <2>1, <3>1, <3>3 DEF Upcoming, Listing
    <3> QED  BY <3>2, <3>3
  <2> QED  BY <2>2, <2>3, <2>4 DEF IndInv
<1>5. CASE /\ Len(chunkC[n]) < PageBufferSize
           /\ chunkC' = [chunkC EXCEPT ![n] = Append(@, Pages[n][bg[n].page])]
           /\ IF bg[n].page = Len(Pages[n])
              THEN EndList(n, FALSE)
              ELSE bg' = [bg EXCEPT ![n].pc = "list", ![n].page = @ + 1]
  <2> DEFINE c == Pages[n][bg[n].page]
  <2>1. chunkC[n] \in Seq(SUBSET Objects) /\ Len(chunkC[n]) \in Nat
    BY <1>1, LenProperties DEF TypeFacts
  <2>2. chunkC'[n] = Append(chunkC[n], c) /\ \A r \in Rs : r # n => chunkC'[r] = chunkC[r]
    BY <1>1, <1>5 DEF TypeFacts
  <2>3. Append(chunkC[n], c) \in Seq(SUBSET Objects) /\ Len(Append(chunkC[n], c)) = Len(chunkC[n]) + 1
    BY <1>3, <2>1, AppendProperties
  <2>4. chunkC' \in [Rs -> Seq(SUBSET Objects)]
    BY <1>1, <1>5, <2>3 DEF TypeFacts
  <2>5. \A r \in Rs : Len(chunkC'[r]) <= PageBufferSize
    <3> SUFFICES ASSUME NEW r \in Rs PROVE Len(chunkC'[r]) <= PageBufferSize
      OBVIOUS
    <3>1. CASE r = n
      <4>1. Len(chunkC'[r]) = Len(chunkC[n]) + 1
        BY <2>2, <2>3, <3>1, Zenon
      <4> QED  BY <1>5, <2>1, <4>1, Constants
    <3>2. CASE r # n
      BY <1>1, <2>2, <3>2 DEF TypeFacts
    <3> QED  BY <3>1, <3>2
  <2>6. /\ bg' \in [Rs -> BgRec] /\ (\A r \in Rs : r # n => bg'[r] = bg[r]) /\ ~bg'[n].err
        /\ \/ bg[n].page = Len(Pages[n]) /\ bg'[n].pc = "end" /\ bg'[n].page = bg[n].page
           \/ bg[n].page # Len(Pages[n]) /\ bg'[n].pc = "list" /\ bg'[n].page = bg[n].page + 1
    <3>1. CASE bg[n].page = Len(Pages[n])
      <4>1. bg' = [bg EXCEPT ![n].pc = "end", ![n].err = FALSE]
        BY <1>5, <3>1 DEF EndList
      <4> QED  BY <1>1, <3>1, <4>1 DEF TypeFacts, BgRec
    <3>2. CASE bg[n].page # Len(Pages[n])
      <4>1. PICK m \in Nat : m = bg[n].page + 1
        BY <1>3
      <4>2. bg' = [bg EXCEPT ![n].pc = "list", ![n].page = m]
        BY <1>5, <3>2, <4>1
      <4> QED  BY <1>1, <1>3, <3>2, <4>1, <4>2 DEF TypeFacts, BgRec
    <3> QED  BY <3>1, <3>2
  <2>7. Types'
    <3>1. \A r \in Rs : bg'[r].page \in 1 .. Len(Pages[r])
      <4> SUFFICES ASSUME NEW r \in Rs PROVE bg'[r].page \in 1 .. Len(Pages[r])
        OBVIOUS
      <4>1. CASE r = n
        BY <1>3, <2>6, <4>1
      <4>2. CASE r # n
        BY <1>1, <2>6, <4>2 DEF TypeFacts
      <4> QED  BY <4>1, <4>2
    <3>2. TypeFacts'
      BY <1>1, <1>2, <2>4, <2>5, <2>6, <3>1 DEF TypeFacts
    <3> QED  BY <3>2, NextFacts
  <2>8. Phases'
    <3>1. \A r \in Rs : /\ bg'[r].pc # "end" => ~bg'[r].err
                        /\ r > gen.res => bg'[r].pc = "off" /\ bg'[r].page = 1
                        /\ r = gen.res /\ Listing => bg'[r].pc # "off"
      BY <1>3, <2>6 DEF IndInv, Phases
    <3> QED  BY <1>2, <3>1 DEF IndInv, Phases, Listing
  <2>9. NoneLost'
    <3> SUFFICES ASSUME NEW r \in Rs, NEW i \in 1 .. Len(Pages[r]), NEW o \in Pages[r][i] \cap Misplaced,
                        ~Trouble', ~Queued(o)'
                 PROVE  Upcoming(o, r, i)'
      BY DEF NoneLost
    <3>1. Upcoming(o, r, i)
      BY <1>2 DEF Trouble, Queued, IndInv, NoneLost
    <3>2. CASE r # n
      BY <1>2, <2>2, <2>6, <3>1, <3>2 DEF Upcoming, Listing
    <3>3. CASE r = n /\ r = gen.res /\ Listing
      <4>1. /\ \A j \in 1 .. Len(chunkC[n]) : \E k \in 1 .. Len(chunkC'[n]) : chunkC'[n][k] = chunkC[n][j]
            /\ \E k \in 1 .. Len(chunkC'[n]) : chunkC'[n][k] = c
        <5>1. c \in SUBSET Objects
          BY <1>3
        <5> HIDE DEF c
        <5> QED  BY <2>1, <2>2, <5>1, AppendElements
      <4> HIDE DEF c
      <4>2. CASE o \in gen.chunk
        BY <1>2, <3>3, <4>2 DEF Upcoming, Listing
      <4>3. CASE \E j \in 1 .. Len(chunkC[n]) : o \in chunkC[n][j]
        <5>1. \E k \in 1 .. Len(chunkC'[n]) : o \in chunkC'[n][k]
          BY <4>1, <4>3
        <5> QED  BY <1>2, <3>3, <5>1 DEF Upcoming, Listing
      <4>4. CASE i = bg[n].page
        <5>1. o \in c
          BY <3>3, <4>4 DEF c
        <5>2. \E k \in 1 .. Len(chunkC'[n]) : o \in chunkC'[n][k]
          BY <4>1, <5>1
        <5> QED  BY <1>2, <3>3, <5>2 DEF Upcoming, Listing
      <4>5. CASE i # bg[n].page /\ bg[n].page <= i
        <5>1. bg'[n].pc = "list" /\ bg'[n].page <= i
          BY <1>3, <2>6, <3>3, <4>5
        <5> QED  BY <1>2, <3>3, <5>1 DEF Upcoming, Listing
      <4>6. r = n /\ ~(n > gen.res)
        BY <1>3, <3>3
      <4> QED  BY <1>3, <3>1, <4>2, <4>3, <4>4, <4>5, <4>6 DEF Upcoming
    <3>4. CASE r = n /\ ~(r = gen.res /\ Listing)
      BY <1>3, <3>1, <3>4 DEF Upcoming
    <3> QED  BY <3>2, <3>3, <3>4
  <2> QED  BY <2>7, <2>8, <2>9 DEF IndInv
<1> QED  BY <1>4, <1>5 DEF SendChunk

-----------------------------------------------------------------------------
(* The workers.                                                            *)

\* A worker takes an item, or stops.
LEMMA TakeItemStep ==
  ASSUME IndInv, NEW w \in Workers, TakeItem(w)
  PROVE  IndInv'
<1>1. TypeFacts
  BY TypesAreFacts DEF IndInv
<1>2. worker[w].pc = "idle" /\ UNCHANGED <<cancelled, gen, bg, chunkC, failed, ret, processed, faults>>
  BY DEF TakeItem
<1>3. \A v \in Workers : worker[v].pc = "busy" => v # w
  BY <1>2
<1>4. CASE /\ work # <<>> /\ work' = Tail(work)
           /\ worker' = [worker EXCEPT ![w] = [pc |-> "busy", item |-> Head(work), err |-> FALSE]]
  <2>1. work \in Seq(Items) /\ Head(work) \in Items /\ Tail(work) \in Seq(Items) /\ Len(work) \in Nat
        /\ Len(Tail(work)) = Len(work) - 1
    BY <1>1, <1>4, HeadTailProperties, LenProperties DEF TypeFacts
  <2>2. Head(work) \in Objects
    BY <2>1 DEF Items
  <2>3. /\ worker' \in [Workers -> WorkerRec] /\ (\A v \in Workers : v # w => worker'[v] = worker[v])
        /\ worker'[w].pc = "busy" /\ worker'[w].item = Head(work) /\ ~worker'[w].err
    BY <1>1, <1>4, <2>2 DEF TypeFacts, WorkerRec
  <2>4. Types'
    <3>1. Len(work') <= Concurrency
      BY <1>1, <1>4, <2>1, Constants DEF TypeFacts
    <3>2. TypeFacts'
      BY <1>1, <1>2, <1>4, <2>1, <2>3, <3>1 DEF TypeFacts
    <3> QED  BY <3>2, NextFacts
  <2>5. Phases'
    <3>1. ret = "no"
      BY <1>2 DEF IndInv, Phases
    <3>2. \A v \in Workers : worker[v].pc = "done" => cancelled
      BY <1>4 DEF IndInv, Phases
    <3>3. \A v \in Workers : /\ worker'[v].pc # "report" => ~worker'[v].err
                             /\ worker'[v].pc = "done" => cancelled
      BY <2>3, <3>2 DEF IndInv, Phases
    <3> QED  BY <1>2, <3>1, <3>3 DEF IndInv, Phases, Listing
  <2>6. NoneLost'
    <3>1. \A o : Queued(o) => Queued(o)'
      <4> SUFFICES ASSUME NEW o, Queued(o) PROVE Queued(o)'
        OBVIOUS
      <4>1. CASE \E j \in 1 .. Len(work) : work[j] = o
        <5>1. o = Head(work) \/ \E k \in 1 .. Len(work') : work'[k] = o
          BY <1>4, <2>1, <4>1, TailElements
        <5> QED  BY <2>3, <5>1 DEF Queued
      <4>2. CASE ~ \E j \in 1 .. Len(work) : work[j] = o
        BY <1>2, <1>3, <2>3, <4>2 DEF Queued
      <4> QED  BY <4>1, <4>2
    <3>2. Trouble => Trouble'
      BY <1>2, <2>3 DEF Trouble, IndInv, Phases
    <3>3. \A o, r, i : Upcoming(o, r, i) => Upcoming(o, r, i)'
      BY <1>2 DEF Upcoming, Listing
    <3> QED  BY <3>1, <3>2, <3>3 DEF IndInv, NoneLost
  <2> QED  BY <2>4, <2>5, <2>6 DEF IndInv
<1>5. CASE /\ cancelled \/ (work = <<>> /\ gen.pc = "done")
           /\ worker' = [worker EXCEPT ![w] = Stopped]
           /\ UNCHANGED work
  <2>1. /\ worker' \in [Workers -> WorkerRec] /\ (\A v \in Workers : v # w => worker'[v] = worker[v])
        /\ worker'[w].pc = "done" /\ ~worker'[w].err
    BY <1>1, <1>5 DEF TypeFacts, WorkerRec, Stopped
  <2>2. Types'
    <3>1. TypeFacts'
      BY <1>1, <1>2, <1>5, <2>1 DEF TypeFacts
    <3> QED  BY <3>1, NextFacts
  <2>3. Phases'
    <3>1. \A v \in Workers : /\ worker'[v].pc # "report" => ~worker'[v].err
                             /\ worker'[v].pc = "done" /\ ~cancelled => work = <<>> /\ gen.pc = "done"
                             /\ worker[v].pc = "done" => worker'[v].pc = "done"
      BY <1>5, <2>1 DEF IndInv, Phases
    <3> QED  BY <1>2, <1>5, <3>1 DEF IndInv, Phases, Listing
  <2>4. NoneLost'
    <3>1. \A o : Queued(o) => Queued(o)'
      BY <1>2, <1>3, <1>5, <2>1 DEF Queued
    <3>2. Trouble => Trouble'
      BY <1>2, <2>1 DEF Trouble, IndInv, Phases
    <3>3. \A o, r, i : Upcoming(o, r, i) => Upcoming(o, r, i)'
      BY <1>2 DEF Upcoming, Listing
    <3> QED  BY <3>1, <3>2, <3>3 DEF IndInv, NoneLost
  <2> QED  BY <2>2, <2>3, <2>4 DEF IndInv
<1> QED  BY <1>4, <1>5 DEF TakeItem

\* A worker drains or moves an object, or fails to.
LEMMA ProcessItemStep ==
  ASSUME IndInv, NEW w \in Workers, ProcessItem(w)
  PROVE  IndInv'
<1>1. TypeFacts
  BY TypesAreFacts DEF IndInv
<1>2. /\ worker[w].pc = "busy" /\ worker[w].item \in Items /\ ~worker[w].err
      /\ UNCHANGED <<cancelled, gen, bg, chunkC, work, failed, ret>>
  BY <1>1 DEF ProcessItem, TypeFacts, IndInv, Phases
<1>3. /\ worker' \in [Workers -> WorkerRec] /\ (\A v \in Workers : v # w => worker'[v] = worker[v])
      /\ worker'[w].pc = "report"
      /\ \/ processed' = processed \cup {worker[w].item} /\ ~worker'[w].err
         \/ processed' = processed /\ worker'[w].err
  <2>1. CASE processed' = processed \cup {worker[w].item} /\ worker' = [worker EXCEPT ![w].pc = "report"]
    BY <1>1, <1>2, <2>1 DEF TypeFacts, WorkerRec
  <2>2. CASE UNCHANGED processed /\ worker' = [worker EXCEPT ![w].pc = "report", ![w].err = TRUE]
    BY <1>1, <2>2 DEF TypeFacts, WorkerRec
  <2> QED  BY <2>1, <2>2 DEF ProcessItem
<1>4. faults' \in Nat
  BY <1>1 DEF ProcessItem, TypeFacts, Fault
<1>5. Types'
  <2>1. processed' \subseteq Items
    BY <1>1, <1>2, <1>3 DEF TypeFacts
  <2>2. TypeFacts'
    BY <1>1, <1>2, <1>3, <1>4, <2>1 DEF TypeFacts
  <2> QED  BY <2>2, NextFacts
<1>6. Phases'
  <2>1. ret = "no"
    BY <1>2 DEF IndInv, Phases
  <2>2. \A v \in Workers : /\ worker'[v].pc # "report" => ~worker'[v].err
                           /\ worker'[v].pc = "done" /\ ~cancelled => work = <<>> /\ gen.pc = "done"
    BY <1>3 DEF IndInv, Phases
  <2> QED  BY <1>2, <2>1, <2>2 DEF IndInv, Phases, Listing
<1>7. NoneLost'
  <2>1. Trouble => Trouble'
    BY <1>2, <1>3 DEF Trouble
  <2>2. \A o : Queued(o) => Queued(o)' \/ Trouble'
    BY <1>2, <1>3 DEF Queued, Trouble
  <2>3. \A o, r, i : Upcoming(o, r, i) => Upcoming(o, r, i)'
    BY <1>2 DEF Upcoming, Listing
  <2> QED  BY <2>1, <2>2, <2>3 DEF IndInv, NoneLost
<1> QED  BY <1>5, <1>6, <1>7 DEF IndInv

\* A worker reports the result.
LEMMA ReportItemStep ==
  ASSUME IndInv, NEW w \in Workers, ReportItem(w)
  PROVE  IndInv'
<1>1. TypeFacts
  BY TypesAreFacts DEF IndInv
<1>2. /\ worker[w].pc = "report" /\ failed' = (failed \/ worker[w].err)
      /\ UNCHANGED <<cancelled, gen, bg, chunkC, work, ret, processed, faults>>
  BY DEF ReportItem
<1>3. /\ worker' \in [Workers -> WorkerRec] /\ (\A v \in Workers : v # w => worker'[v] = worker[v])
      /\ worker'[w].pc = "idle" /\ ~worker'[w].err
  BY <1>1 DEF ReportItem, TypeFacts, WorkerRec
<1>4. failed' \in BOOLEAN
  BY <1>2, Zenon
<1>5. Types'
  <2>1. TypeFacts'
    BY <1>1, <1>2, <1>3, <1>4 DEF TypeFacts
  <2> QED  BY <2>1, NextFacts
<1>6. Phases'
  <2>1. ret = "no"
    BY <1>2 DEF IndInv, Phases
  <2>2. \A v \in Workers : /\ worker'[v].pc # "report" => ~worker'[v].err
                           /\ worker'[v].pc = "done" /\ ~cancelled => work = <<>> /\ gen.pc = "done"
    BY <1>3 DEF IndInv, Phases
  <2> QED  BY <1>2, <2>1, <2>2 DEF IndInv, Phases, Listing
<1>7. NoneLost'
  <2>1. Trouble => Trouble'
    BY <1>2, <1>3 DEF Trouble
  <2>2. \A o : Queued(o) => Queued(o)'
    BY <1>2, <1>3 DEF Queued
  <2>3. \A o, r, i : Upcoming(o, r, i) => Upcoming(o, r, i)'
    BY <1>2 DEF Upcoming, Listing
  <2> QED  BY <2>1, <2>2, <2>3 DEF IndInv, NoneLost
<1> QED  BY <1>5, <1>6, <1>7 DEF IndInv

-----------------------------------------------------------------------------
(* The caller and the theorems.                                            *)

\* ResyncControllerRing returns, or its context is cancelled.
LEMMA CallerStep ==
  ASSUME IndInv, Return \/ Cancel
  PROVE  IndInv'
<1>1. TypeFacts
  BY TypesAreFacts DEF IndInv
<1>2. /\ UNCHANGED <<gen, bg, chunkC, work, worker, failed, processed, faults>>
      /\ \/ /\ UNCHANGED cancelled /\ gen.pc = "done" /\ \A w \in Workers : worker[w].pc = "done"
            /\ ret' = IF failed THEN "error" ELSE "nil"
         \/ cancelled' /\ cancelled' \in BOOLEAN /\ UNCHANGED ret
  BY DEF Return, Cancel
<1>3. Types'
  <2>1. TypeFacts'
    BY <1>1, <1>2 DEF TypeFacts
  <2> QED  BY <2>1, NextFacts
<1>4. Phases'
  BY <1>2 DEF IndInv, Phases, Listing
<1>5. NoneLost'
  <2>1. Trouble => Trouble'
    BY <1>2 DEF Trouble
  <2>2. \A o : Queued(o) => Queued(o)'
    BY <1>2 DEF Queued
  <2>3. \A o, r, i : Upcoming(o, r, i) => Upcoming(o, r, i)'
    BY <1>2 DEF Upcoming, Listing
  <2> QED  BY <2>1, <2>2, <2>3 DEF IndInv, NoneLost
<1> QED  BY <1>3, <1>4, <1>5 DEF IndInv

\* The inductive invariant holds initially: all is to come.
LEMMA InitIndInv == Init => IndInv
<1> SUFFICES ASSUME Init PROVE IndInv
  OBVIOUS
<1>1. gen.pc = "next" /\ gen.res = 0 /\ gen.chunk = {} /\ gen.item = None /\ gen.err = FALSE
      /\ gen \in GenRec
  BY Constants DEF Init, GenRec
<1>2. \A r \in Rs : /\ bg[r].pc = "off" /\ bg[r].page = 1 /\ bg[r].err = FALSE
                    /\ chunkC[r] = <<>> /\ r > 0
  BY DEF Init, Rs
<1>3. \A w \in Workers : worker[w].pc = "idle" /\ worker[w].item = None /\ worker[w].err = FALSE
  BY DEF Init
<1>4. Types
  <2>1. bg \in [Rs -> BgRec] /\ worker \in [Workers -> WorkerRec]
    BY DEF Init, BgRec, WorkerRec
  <2>2. \A r \in Rs : bg[r].page \in 1 .. Len(Pages[r])
    BY <1>2, PagesTyped
  <2>3. chunkC \in [Rs -> Seq(SUBSET Objects)] /\ work \in Seq(Items)
    BY DEF Init
  <2>4. Len(work) <= Concurrency /\ \A r \in Rs : Len(chunkC[r]) <= PageBufferSize
    BY <1>2, Constants DEF Init
  <2>5. TypeFacts
    BY <1>1, <1>3, <2>1, <2>2, <2>3, <2>4 DEF Init, TypeFacts
  <2> QED  BY <2>5, TypesAreFacts
<1>5. Phases
  BY <1>1, <1>2, <1>3 DEF Init, Phases, Listing
<1>6. NoneLost
  BY <1>1, <1>2 DEF NoneLost, Upcoming
<1> QED  BY <1>4, <1>5, <1>6 DEF IndInv

\* The inductive invariant holds in every reachable state.
THEOREM Invariance == Spec => []IndInv
<1>1. IndInv /\ [Next]_vars => IndInv'
  <2> SUFFICES ASSUME IndInv, [Next]_vars PROVE IndInv'
    OBVIOUS
  <2>1. CASE Generator
    BY <2>1, NextResourceStep, RangeChunksStep, CheckContextStep, EachItemStep, PutItemStep,
       ReportResourceStep DEF Generator
  <2>2. CASE \E r \in Rs : Pager(r)
    BY <2>2, ListPageStep, SendChunkStep DEF Pager
  <2>3. CASE \E w \in Workers : Worker(w)
    BY <2>3, TakeItemStep, ProcessItemStep, ReportItemStep DEF Worker
  <2>4. CASE Return \/ Cancel
    BY <2>4, CallerStep
  <2>5. CASE UNCHANGED vars
    <3>1. Types'
      BY <2>5 DEF IndInv, Types, TypeOK, vars
    <3>2. Phases' /\ NoneLost'
      BY <2>5 DEF IndInv, Phases, NoneLost, Trouble, Queued, Upcoming, Listing, vars
    <3> QED  BY <3>1, <3>2 DEF IndInv
  <2> QED  BY <2>1, <2>2, <2>3, <2>4, <2>5 DEF Next
<1> QED  BY <1>1, InitIndInv, PTL DEF Spec

\* Channels stay within their buffers, and what goes through them are
\* misplaced objects.
THEOREM TypeCorrect == Spec => []TypeOK
<1>1. IndInv => TypeOK
  BY DEF IndInv, Types
<1> QED  BY <1>1, Invariance, PTL

\* A resync that is not cancelled and returns nil has processed every misplaced
\* object, and nothing else.
THEOREM Complete == Spec => []SuccessIsComplete
<1>1. IndInv => SuccessIsComplete
  <2> SUFFICES ASSUME IndInv, ret = "nil", ~cancelled
               PROVE  processed = Misplaced \cap Objects
    BY DEF SuccessIsComplete
  <2>1. TypeFacts
    BY TypesAreFacts DEF IndInv
  <2>2. /\ gen.pc = "done" /\ gen.res = Resources /\ ~gen.err /\ ~failed
        /\ \A w \in Workers : worker[w].pc = "done" /\ ~worker[w].err
    BY DEF IndInv, Phases
  <2>3. work = <<>>
    <3>1. PICK w \in Workers : worker[w].pc = "done"
      BY <2>2, ResyncAssumption
    <3> QED  BY <3>1 DEF IndInv, Phases
  <2>4. ASSUME NEW o \in Misplaced \cap Objects PROVE o \in processed
    <3>0. PICK r \in Rs : \E i \in DOMAIN Pages[r] : o \in Pages[r][i]
      BY DEF Objects
    <3>1. PICK i \in DOMAIN Pages[r] : o \in Pages[r][i]
      BY <3>0
    <3>2. i \in 1 .. Len(Pages[r]) /\ ~(r > gen.res)
      BY <2>2, <3>1, PagesTyped, Constants DEF Rs
    <3>3. ~Trouble /\ ~Upcoming(o, r, i)
      BY <2>2, <3>2 DEF Trouble, Upcoming, Listing
    <3>4. Queued(o)
      BY <3>1, <3>2, <3>3 DEF IndInv, NoneLost
    <3>5. ~ \E j \in 1 .. Len(work) : work[j] = o
      BY <2>3
    <3> QED  BY <2>2, <3>4, <3>5 DEF Queued
  <2> QED  BY <2>1, <2>4 DEF TypeFacts, Items
<1> QED  BY <1>1, Invariance, PTL

-----------------------------------------------------------------------------
(* A resync ends: somebody can go on, and every step is one towards the    *)
(* end.                                                                    *)

\* goroutines that are not blocked on a channel
GeneratorRuns ==
  \/ gen.pc \in {"next", "check", "chunk", "report"}
  \/ gen.pc = "range" /\ (chunkC[gen.res] # <<>> \/ bg[gen.res].pc = "end")
  \/ gen.pc = "put" /\ Len(work) < Concurrency

PagerRuns(r) ==
  \/ bg[r].pc = "list"
  \/ bg[r].pc = "send" /\ (Len(chunkC[r]) < PageBufferSize \/ Done(r))

WorkerRuns(w) ==
  \/ worker[w].pc \in {"busy", "report"}
  \/ worker[w].pc = "idle" /\ (work # <<>> \/ cancelled \/ gen.pc = "done")

CallerRuns == ret = "no" /\ gen.pc = "done" /\ \A w \in Workers : worker[w].pc = "done"

\* the generator waits for room in work, and the workers have left: where
\* resync_cancel ends up
Deserted ==
  /\ cancelled /\ gen.pc = "put" /\ Len(work) = Concurrency
  /\ \A w \in Workers : worker[w].pc = "done"

\* Generator, pagers, workers and caller are never all blocked on each other, but in
\* this one way.
NeverStuck ==
  ret = "no" /\ ~Deserted =>
    \/ GeneratorRuns \/ CallerRuns
    \/ \E r \in Rs : PagerRuns(r)
    \/ \E w \in Workers : WorkerRuns(w)

\* pages that the current pager has not sent
Unsent ==
  IF gen.res \in Rs /\ bg[gen.res].pc \in {"list", "send"}
  THEN Len(Pages[gen.res]) - bg[gen.res].page + 1 ELSE 0

\* chunks of the current pager that the generator has not taken
Untaken == Unsent + (IF gen.res \in Rs THEN Len(chunkC[gen.res]) ELSE 0)

\* what the generator has to do for the current resource
GenPhase ==
  IF gen.pc = "done" THEN 0 ELSE IF gen.pc = "next" THEN 1 ELSE IF gen.pc = "report" THEN 2 ELSE 3

\* and for the current item
ItemPhase ==
  IF gen.pc = "check" THEN 3 ELSE IF gen.pc = "put" THEN 2 ELSE IF gen.pc = "chunk" THEN 1 ELSE 0

\* pagers of other resources, and workers, with program counter pc
Pagers(pc) == {r \in Rs \ {gen.res} : bg[r].pc = pc}
WorkersAt(pc) == {w \in Workers : worker[w].pc = pc}

\* the current page, and the call
PagePhase == IF gen.res \in Rs /\ bg[gen.res].pc = "list" THEN 1 ELSE 0
CallPhase == IF ret = "no" THEN 1 ELSE 0

\* what is left to do, the more important first
Variant ==
  << Resources - gen.res, GenPhase, Untaken, Cardinality(gen.chunk), ItemPhase,
     Unsent, PagePhase,
     Cardinality(Pagers("send")), Cardinality(Pagers("list")),
     Len(work), Cardinality(WorkersAt("busy")), Cardinality(WorkersAt("report")),
     Cardinality(WorkersAt("idle")), CallPhase >>

\* some entry is smaller, and none before it larger
Below(u, v) == \E i \in 1 .. 14 : u[i] < v[i] /\ \A j \in 1 .. i - 1 : u[j] <= v[j]

\* the lexicographic order on such sequences of naturals
LessThan == {ss \in Nat \X Nat : ss[1] < ss[2]}
Order == LexProductOrdering(LessThan, Nat, 14)

\* Every step of the generator, a pager, a worker or the caller is one towards the end.
Descends == [][Cancel \/ <<Variant', Variant>> \in Order]_vars

\* Only a cancelled resync gets stuck, and only with the generator blocked on a full
\* queue that no worker reads any more: for every number of workers, resources and
\* pages, and however small the buffers.
THEOREM NotStuck == Spec => []NeverStuck
<1>1. IndInv => NeverStuck
  <2> SUFFICES ASSUME IndInv, ret = "no", ~Deserted, ~GeneratorRuns, ~CallerRuns,
                      \A r \in Rs : ~PagerRuns(r), \A w \in Workers : ~WorkerRuns(w)
               PROVE  FALSE
    BY DEF NeverStuck
  <2>1. TypeFacts
    BY TypesAreFacts DEF IndInv
  <2>2. gen.pc \in {"range", "put", "done"} /\ gen.res \in 0 .. Resources
    BY <2>1 DEF TypeFacts, GenRec, GeneratorRuns
  <2>3. \A w \in Workers : worker[w].pc \in {"idle", "done"}
    BY <2>1 DEF TypeFacts, WorkerRec, WorkerRuns
  <2>4. CASE gen.pc = "range"
    <3>1. PICK r \in Rs : r = gen.res
      BY <2>2, <2>4, Constants DEF IndInv, Phases, Listing, Rs
    <3>2. chunkC[r] = <<>> /\ bg[r].pc # "end" /\ bg[r].pc # "off"
      BY <2>4, <3>1 DEF GeneratorRuns, IndInv, Phases, Listing
    <3>3. bg[r].pc = "send"
      BY <2>1, <3>2 DEF TypeFacts, BgRec, PagerRuns
    <3>4. Len(chunkC[r]) < PageBufferSize
      BY <3>2, Constants
    <3> QED  BY <3>3, <3>4 DEF PagerRuns
  <2>5. CASE gen.pc = "put"
    <3>1. work \in Seq(Items) /\ Len(work) = Concurrency /\ Concurrency > 0
      BY <2>1, <2>5, Constants DEF TypeFacts, GeneratorRuns
    <3>2. work # <<>>
      BY <3>1
    <3>3. \A w \in Workers : worker[w].pc = "done"
      BY <2>3, <3>2 DEF WorkerRuns
    <3>4. ~cancelled
      BY <2>5, <3>1, <3>3 DEF Deserted
    <3>5. PICK w \in Workers : TRUE
      BY ResyncAssumption
    <3> QED  BY <3>2, <3>3, <3>4, <3>5 DEF IndInv, Phases
  <2>6. CASE gen.pc = "done"
    <3>1. \A w \in Workers : worker[w].pc = "done"
      BY <2>3, <2>6 DEF WorkerRuns
    <3> QED  BY <2>6, <3>1 DEF CallerRuns
  <2> QED  BY <2>2, <2>4, <2>5, <2>6
<1> QED  BY <1>1, Invariance, PTL

\* What is left to do are natural numbers.
LEMMA VariantTyped ==
  ASSUME TypeFacts
  PROVE  /\ Resources - gen.res \in Nat /\ GenPhase \in Nat /\ ItemPhase \in Nat
         /\ Unsent \in Nat /\ Untaken \in Nat /\ PagePhase \in Nat /\ CallPhase \in Nat
         /\ IsFiniteSet(gen.chunk) /\ Cardinality(gen.chunk) \in Nat /\ Len(work) \in Nat
         /\ \A pc : /\ IsFiniteSet(Pagers(pc)) /\ Cardinality(Pagers(pc)) \in Nat
                    /\ IsFiniteSet(WorkersAt(pc)) /\ Cardinality(WorkersAt(pc)) \in Nat
<1>1. gen.res \in 0 .. Resources /\ Resources \in Nat /\ gen.chunk \subseteq Objects /\ work \in Seq(Items)
  BY Constants DEF TypeFacts, GenRec
<1>2. Resources - gen.res \in Nat /\ Len(work) \in Nat
  BY <1>1
<1>3. GenPhase \in Nat /\ ItemPhase \in Nat /\ PagePhase \in Nat /\ CallPhase \in Nat
  BY DEF GenPhase, ItemPhase, PagePhase, CallPhase
<1>4. ASSUME NEW r \in Rs PROVE Len(Pages[r]) - bg[r].page + 1 \in Nat /\ Len(chunkC[r]) \in Nat
  <2>1. bg[r].page \in 1 .. Len(Pages[r]) /\ Len(Pages[r]) \in Nat /\ chunkC[r] \in Seq(SUBSET Objects)
    BY PagesTyped DEF TypeFacts
  <2> QED  BY <2>1
<1>5. Unsent \in Nat
  BY <1>4 DEF Unsent
<1>6. Untaken \in Nat
  BY <1>4, <1>5 DEF Untaken
<1>7. IsFiniteSet(gen.chunk) /\ Cardinality(gen.chunk) \in Nat
  BY <1>1, ResyncAssumption, FS_Subset, FS_CardinalityType
<1>8. IsFiniteSet(Rs)
  BY <1>1, FS_Interval DEF Rs
<1>9. ASSUME NEW pc
      PROVE  /\ IsFiniteSet(Pagers(pc)) /\ Cardinality(Pagers(pc)) \in Nat
             /\ IsFiniteSet(WorkersAt(pc)) /\ Cardinality(WorkersAt(pc)) \in Nat
  <2>1. Pagers(pc) \subseteq Rs /\ WorkersAt(pc) \subseteq Workers
    BY DEF Pagers, WorkersAt
  <2> QED  BY <1>8, <2>1, ResyncAssumption, FS_Subset, FS_CardinalityType
<1> QED  BY <1>2, <1>3, <1>5, <1>6, <1>7, <1>9

\* The entries of the variant, now and after a step.
LEMMA Entries ==
  /\ Variant[1] = Resources - gen.res /\ Variant[2] = GenPhase /\ Variant[3] = Untaken
  /\ Variant[4] = Cardinality(gen.chunk) /\ Variant[5] = ItemPhase
  /\ Variant[6] = Unsent /\ Variant[7] = PagePhase
  /\ Variant[8] = Cardinality(Pagers("send")) /\ Variant[9] = Cardinality(Pagers("list"))
  /\ Variant[10] = Len(work)
  /\ Variant[11] = Cardinality(WorkersAt("busy")) /\ Variant[12] = Cardinality(WorkersAt("report"))
  /\ Variant[13] = Cardinality(WorkersAt("idle")) /\ Variant[14] = CallPhase
BY DEF Variant

LEMMA NextEntries ==
  /\ Variant'[1] = Resources - gen'.res /\ Variant'[2] = GenPhase' /\ Variant'[3] = Untaken'
  /\ Variant'[4] = Cardinality(gen'.chunk) /\ Variant'[5] = ItemPhase'
  /\ Variant'[6] = Unsent' /\ Variant'[7] = PagePhase'
  /\ Variant'[8] = Cardinality(Pagers("send")') /\ Variant'[9] = Cardinality(Pagers("list")')
  /\ Variant'[10] = Len(work')
  /\ Variant'[11] = Cardinality(WorkersAt("busy")') /\ Variant'[12] = Cardinality(WorkersAt("report")')
  /\ Variant'[13] = Cardinality(WorkersAt("idle")') /\ Variant'[14] = CallPhase'
BY DEF Variant

\* The entries are natural numbers.
LEMMA VariantNat ==
  ASSUME TypeFacts
  PROVE  \A j \in 1 .. 14 : Variant[j] \in Nat
<1>1. /\ Variant[1] \in Nat /\ Variant[2] \in Nat /\ Variant[3] \in Nat /\ Variant[4] \in Nat
      /\ Variant[5] \in Nat /\ Variant[6] \in Nat /\ Variant[7] \in Nat /\ Variant[10] \in Nat
      /\ Variant[14] \in Nat
  BY VariantTyped, Entries
<1>2. Variant[8] \in Nat /\ Variant[9] \in Nat
  BY VariantTyped, Entries
<1>3. Variant[11] \in Nat /\ Variant[12] \in Nat /\ Variant[13] \in Nat
  BY VariantTyped, Entries
<1> QED  BY <1>1, <1>2, <1>3

\* The generator descends in the first five entries.
LEMMA GeneratorDescends ==
  ASSUME IndInv, IndInv', Generator
  PROVE  Below(Variant', Variant)
<1>1. TypeFacts /\ TypeFacts'
  <2>1. Types /\ Types'
    BY DEF IndInv
  <2> QED  BY <2>1, TypesAreFacts, PTL
<1>2. gen.res \in Nat /\ Resources \in Nat
  BY <1>1, Constants DEF TypeFacts, GenRec
<1>3. /\ Untaken \in Nat /\ GenPhase \in Nat /\ ItemPhase \in Nat
      /\ IsFiniteSet(gen.chunk) /\ Cardinality(gen.chunk) \in Nat
  BY <1>1, VariantTyped
<1>4. CASE NextResource
  <2>1. gen.pc = "next"
    BY <1>4 DEF NextResource
  <2>2. CASE gen' = [gen EXCEPT !.pc = "done"]
    <3>1. gen'.pc = "done" /\ gen'.res = gen.res
      BY <1>1, <2>2 DEF TypeFacts, GenRec
    <3>2. Variant'[2] < Variant[2] /\ Variant'[1] <= Variant[1]
      BY <1>2, <2>1, <3>1, Entries, NextEntries DEF GenPhase
    <3> QED  BY <3>2 DEF Below
  <2>3. CASE gen'.res = gen.res + 1
    <3>1. Variant'[1] < Variant[1]
      BY <1>2, <2>3, Entries, NextEntries
    <3> QED  BY <3>1 DEF Below
  <2>4. \/ gen' = [gen EXCEPT !.pc = "done"]
        \/ gen' = [gen EXCEPT !.pc = "range", !.res = @ + 1, !.err = FALSE]
        \/ gen' = [gen EXCEPT !.pc = "report", !.res = @ + 1, !.err = TRUE]
    BY <1>4 DEF NextResource
  <2>5. gen' = [gen EXCEPT !.pc = "done"] \/ gen'.res = gen.res + 1
    BY <1>1, <2>4 DEF TypeFacts, GenRec
  <2> QED  BY <2>2, <2>3, <2>5
<1>5. ASSUME gen'.res = gen.res, Listing, gen'.pc = "report" PROVE Below(Variant', Variant)
  <2>1. Variant'[2] < Variant[2] /\ Variant'[1] <= Variant[1]
    BY <1>2, <1>5, Entries, NextEntries DEF GenPhase, Listing
  <2> QED  BY <2>1 DEF Below
<1>6. ASSUME gen'.res = gen.res, Listing, Listing', UNCHANGED <<bg, chunkC>>
      PROVE  Variant'[1] <= Variant[1] /\ Variant'[2] <= Variant[2] /\ Variant'[3] <= Variant[3]
  <2>1. GenPhase' = GenPhase
    BY <1>6 DEF GenPhase, Listing
  <2>2. Untaken' = Untaken
    BY <1>6 DEF Untaken, Unsent
  <2> QED  BY <1>2, <1>3, <1>6, <2>1, <2>2, Entries, NextEntries
<1>7. CASE RangeChunks
  <2>1. gen.pc = "range" /\ bg' = bg /\ Listing
    BY <1>7 DEF RangeChunks, Listing
  <2>2. PICK r \in Rs : r = gen.res
    BY <1>1, <2>1, Constants DEF IndInv, Phases, TypeFacts, GenRec, Rs
  <2>3. CASE chunkC[gen.res] # <<>>
    <3>1. /\ chunkC' = [chunkC EXCEPT ![r] = Tail(@)]
          /\ gen' = [gen EXCEPT !.pc = "check", !.chunk = Head(chunkC[gen.res])]
      BY <1>7, <2>2, <2>3 DEF RangeChunks
    <3>2. gen'.pc = "check" /\ gen'.res = gen.res
      BY <1>1, <3>1 DEF TypeFacts, GenRec
    <3>3. chunkC \in [Rs -> Seq(SUBSET Objects)] /\ chunkC[r] # <<>>
      BY <1>1, <2>2, <2>3 DEF TypeFacts
    <3>4. Len(chunkC'[r]) = Len(chunkC[r]) - 1 /\ Len(chunkC[r]) \in Nat
      BY <3>1, <3>3
    <3>5. Unsent' = Unsent /\ Unsent \in Nat
      BY <1>1, <2>1, <3>2, VariantTyped DEF Unsent
    <3>6. Untaken' < Untaken
      BY <2>2, <3>2, <3>4, <3>5 DEF Untaken
    <3>7. GenPhase' = GenPhase
      BY <2>1, <3>2 DEF GenPhase
    <3>8. Variant'[3] < Variant[3] /\ Variant'[1] <= Variant[1] /\ Variant'[2] <= Variant[2]
      BY <1>2, <1>3, <3>2, <3>6, <3>7, Entries, NextEntries
    <3> QED  BY <3>8 DEF Below
  <2>4. CASE chunkC[gen.res] = <<>>
    <3>1. gen' = [gen EXCEPT !.pc = "report", !.err = @ \/ bg[gen.res].err]
      BY <1>7, <2>4 DEF RangeChunks
    <3>2. gen'.pc = "report" /\ gen'.res = gen.res
      BY <1>1, <3>1 DEF TypeFacts, GenRec
    <3> QED  BY <1>5, <2>1, <3>2
  <2> QED  BY <2>3, <2>4
<1>8. CASE CheckContext
  <2>1. gen.pc = "check" /\ UNCHANGED <<bg, chunkC>> /\ Listing
    BY <1>8 DEF CheckContext, Listing
  <2>2. gen'.res = gen.res /\ gen'.chunk = gen.chunk /\ gen'.pc \in {"report", "chunk"}
    BY <1>1, <1>8 DEF CheckContext, TypeFacts, GenRec
  <2>3. CASE gen'.pc = "report"
    BY <1>5, <2>1, <2>2, <2>3
  <2>4. CASE gen'.pc = "chunk"
    <3>1. Variant'[1] <= Variant[1] /\ Variant'[2] <= Variant[2] /\ Variant'[3] <= Variant[3]
      BY <1>6, <2>1, <2>2, <2>4 DEF Listing
    <3>2. Variant'[5] < Variant[5] /\ Variant'[4] <= Variant[4]
      BY <1>3, <2>1, <2>2, <2>4, Entries, NextEntries DEF ItemPhase
    <3> QED  BY <3>1, <3>2 DEF Below
  <2> QED  BY <2>2, <2>3, <2>4
<1>9. CASE EachItem
  <2>1. gen.pc = "chunk" /\ UNCHANGED <<bg, chunkC>> /\ Listing
    BY <1>9 DEF EachItem, Listing
  <2>2. CASE gen.chunk = {}
    <3>1. gen' = [gen EXCEPT !.pc = "range"]
      BY <1>9, <2>2 DEF EachItem
    <3>2. gen'.res = gen.res /\ gen'.chunk = gen.chunk /\ gen'.pc = "range"
      BY <1>1, <3>1 DEF TypeFacts, GenRec
    <3>3. Variant'[1] <= Variant[1] /\ Variant'[2] <= Variant[2] /\ Variant'[3] <= Variant[3]
      BY <1>6, <2>1, <3>2 DEF Listing
    <3>4. Variant'[5] < Variant[5] /\ Variant'[4] <= Variant[4]
      BY <1>3, <2>1, <3>2, Entries, NextEntries DEF ItemPhase
    <3> QED  BY <3>3, <3>4 DEF Below
  <2>3. CASE gen.chunk # {}
    <3>1. PICK o \in gen.chunk :
            \/ gen' = [gen EXCEPT !.chunk = @ \ {o}, !.pc = IF o \in Misplaced THEN "put" ELSE "chunk",
                                  !.item = IF o \in Misplaced THEN o ELSE None]
            \/ gen' = [gen EXCEPT !.chunk = @ \ {o}, !.err = TRUE]
      BY <1>9, <2>3 DEF EachItem
    <3>2. gen'.res = gen.res /\ gen'.chunk = gen.chunk \ {o} /\ gen'.pc \in {"put", "chunk"}
      BY <1>1, <2>1, <3>1 DEF TypeFacts, GenRec
    <3>3. Variant'[1] <= Variant[1] /\ Variant'[2] <= Variant[2] /\ Variant'[3] <= Variant[3]
      BY <1>6, <2>1, <3>2 DEF Listing
    <3>4. Cardinality(gen'.chunk) = Cardinality(gen.chunk) - 1
      BY <1>3, <3>2, FS_RemoveElement
    <3>5. Variant'[4] < Variant[4]
      BY <1>3, <3>4, Entries, NextEntries
    <3> QED  BY <3>3, <3>5 DEF Below
  <2> QED  BY <2>2, <2>3
<1>10. CASE PutItem
  <2>1. gen.pc = "put" /\ UNCHANGED <<bg, chunkC>> /\ Listing
    BY <1>10 DEF PutItem, Listing
  <2>2. gen'.res = gen.res /\ gen'.chunk = gen.chunk /\ gen'.pc = "chunk"
    BY <1>1, <1>10 DEF PutItem, TypeFacts, GenRec
  <2>3. Variant'[1] <= Variant[1] /\ Variant'[2] <= Variant[2] /\ Variant'[3] <= Variant[3]
    BY <1>6, <2>1, <2>2 DEF Listing
  <2>4. Variant'[5] < Variant[5] /\ Variant'[4] <= Variant[4]
    BY <1>3, <2>1, <2>2, Entries, NextEntries DEF ItemPhase
  <2> QED  BY <2>3, <2>4 DEF Below
<1>11. CASE ReportResource
  <2>1. gen.pc = "report" /\ gen'.pc = "next" /\ gen'.res = gen.res
    BY <1>1, <1>11 DEF ReportResource, TypeFacts, GenRec
  <2>2. Variant'[2] < Variant[2] /\ Variant'[1] <= Variant[1]
    BY <1>2, <2>1, Entries, NextEntries DEF GenPhase
  <2> QED  BY <2>2 DEF Below
<1> QED  BY <1>4, <1>7, <1>8, <1>9, <1>10, <1>11 DEF Generator

\* The current pager descends in the third, sixth or seventh entry, another one in the
\* two behind them: its context has ended, so that it lists no further page.
LEMMA PagerDescends ==
  ASSUME IndInv, IndInv', NEW r \in Rs, Pager(r)
  PROVE  Below(Variant', Variant)
<1>1. TypeFacts
  BY TypesAreFacts DEF IndInv
<1>2. /\ bg \in [Rs -> BgRec] /\ bg[r].page \in 1 .. Len(Pages[r]) /\ Len(Pages[r]) \in Nat
      /\ chunkC \in [Rs -> Seq(SUBSET Objects)] /\ gen.res \in Nat /\ Resources \in Nat
  BY <1>1, PagesTyped, Constants DEF TypeFacts, GenRec
<1>3. /\ Untaken \in Nat /\ Unsent \in Nat /\ GenPhase \in Nat /\ ItemPhase \in Nat
      /\ PagePhase \in Nat /\ Cardinality(gen.chunk) \in Nat
  BY <1>1, VariantTyped
<1>4. gen' = gen /\ bg[r].pc \in {"list", "send"}
  BY DEF Pager, ListPage, SendChunk
<1>5. Variant'[1] <= Variant[1] /\ Variant'[2] <= Variant[2] /\ Variant'[4] <= Variant[4] /\ Variant'[5] <= Variant[5]
  <2>1. GenPhase' = GenPhase /\ ItemPhase' = ItemPhase
    BY <1>4 DEF GenPhase, ItemPhase
  <2>2. Variant'[1] = Variant[1] /\ Variant'[2] = Variant[2] /\ Variant'[4] = Variant[4] /\ Variant'[5] = Variant[5]
    BY <1>4, <2>1, Entries, NextEntries
  <2>3. \A j \in 1 .. 14 : Variant[j] \in Nat
    BY <1>1, VariantNat
  <2> QED  BY <2>2, <2>3
<1> DEFINE Ended  == \E err \in BOOLEAN : EndList(r, err)
           Listed == ~Done(r) /\ bg[r].pc = "list" /\ bg' = [bg EXCEPT ![r].pc = "send"] /\ chunkC' = chunkC
           Gone   == Ended /\ chunkC' = chunkC
           Sent   == /\ bg[r].pc = "send"
                     /\ chunkC' = [chunkC EXCEPT ![r] = Append(@, Pages[r][bg[r].page])]
                     /\ IF bg[r].page = Len(Pages[r]) THEN EndList(r, FALSE)
                        ELSE bg' = [bg EXCEPT ![r].pc = "list", ![r].page = @ + 1]
<1>6. (Listed \/ Gone \/ Sent) /\ (bg[r].pc = "list" /\ Done(r) => Gone)
  BY DEF Pager, ListPage, SendChunk
<1>7. ASSUME NEW err, EndList(r, err) PROVE bg'[r].pc = "end" /\ \A q \in Rs \ {r} : bg'[q] = bg[q]
  BY <1>2, <1>7 DEF EndList, BgRec
<1>8. \A q \in Rs \ {r} : bg'[q] = bg[q] /\ chunkC'[q] = chunkC[q]
  BY <1>2, <1>6, <1>7
<1>9. CASE r = gen.res
  <2>1. /\ Unsent = Len(Pages[r]) - bg[r].page + 1 /\ Untaken = Unsent + Len(chunkC[r])
        /\ Untaken' = Unsent' + Len(chunkC'[r]) /\ Len(chunkC[r]) \in Nat
    BY <1>2, <1>4, <1>9 DEF Unsent, Untaken
  <2>2. CASE Gone
    <3>1. bg'[r].pc = "end" /\ chunkC' = chunkC
      BY <1>7, <2>2
    <3>2. Unsent' = 0
      BY <1>4, <1>9, <3>1 DEF Unsent
    <3>3. Untaken' < Untaken
      BY <1>2, <2>1, <3>1, <3>2
    <3>4. Variant'[3] < Variant[3]
      BY <3>3, Entries, NextEntries
    <3> QED  BY <1>5, <3>4 DEF Below
  <2>3. CASE Listed
    <3>1. bg'[r].pc = "send" /\ bg'[r].page = bg[r].page /\ bg[r].pc = "list" /\ chunkC' = chunkC
      BY <1>2, <2>3 DEF BgRec
    <3>2. Unsent' = Unsent /\ Untaken' = Untaken
      BY <1>4, <1>9, <2>1, <3>1 DEF Unsent
    <3>3. PagePhase = 1 /\ PagePhase' = 0
      BY <1>4, <1>9, <3>1 DEF PagePhase
    <3>4. Variant'[7] < Variant[7] /\ Variant'[3] <= Variant[3] /\ Variant'[6] <= Variant[6]
      BY <1>3, <3>2, <3>3, Entries, NextEntries
    <3> QED  BY <1>5, <3>4 DEF Below
  <2>4. CASE Sent
    <3>1. Len(chunkC'[r]) = Len(chunkC[r]) + 1
      <4>1. PICK s \in Seq(SUBSET Objects), e \in SUBSET Objects : s = chunkC[r] /\ e = Pages[r][bg[r].page]
        BY <1>2, PagesTyped
      <4>2. chunkC'[r] = Append(s, e)
        BY <1>2, <2>4, <4>1
      <4> QED  BY <4>1, <4>2
    <3>2. Unsent' = Unsent - 1
      <4>1. CASE bg[r].page = Len(Pages[r])
        <5>1. bg'[r].pc = "end"
          BY <1>7, <2>4, <4>1
        <5>2. Unsent' = 0
          BY <1>4, <1>9, <5>1 DEF Unsent
        <5> QED  BY <1>2, <2>1, <4>1, <5>2
      <4>2. CASE bg[r].page # Len(Pages[r])
        <5>1. bg' = [bg EXCEPT ![r].pc = "list", ![r].page = @ + 1]
          BY <2>4, <4>2
        <5>2. bg'[r].pc = "list" /\ bg'[r].page = bg[r].page + 1
          BY <1>2, <5>1 DEF BgRec
        <5>3. Unsent' = Len(Pages[r]) - (bg[r].page + 1) + 1
          BY <1>4, <1>9, <5>2 DEF Unsent
        <5>4. PICK n \in Nat, p \in Nat : n = Len(Pages[r]) /\ p = bg[r].page /\ p < n
          BY <1>2, <4>2
        <5>5. n - (p + 1) + 1 = (n - p + 1) - 1
          BY <5>4
        <5> QED  BY <2>1, <5>3, <5>4, <5>5
      <4> QED  BY <4>1, <4>2
    <3>3. Untaken' = Untaken
      BY <1>3, <2>1, <3>1, <3>2
    <3>4. Variant'[6] < Variant[6] /\ Variant'[3] <= Variant[3]
      BY <1>3, <3>2, <3>3, Entries, NextEntries
    <3> QED  BY <1>5, <3>4 DEF Below
  <2> QED  BY <1>6, <2>2, <2>3, <2>4
<1>10. CASE r # gen.res
  <2>1. Done(r)
    <3>1. ~(r > gen.res)
      BY <1>4 DEF IndInv, Phases
    <3>2. r \in Nat
      BY Constants DEF Rs
    <3> QED  BY <1>2, <1>10, <3>1, <3>2 DEF Done
  <2>2. /\ \A q \in Rs : q = gen.res => bg'[q] = bg[q] /\ chunkC'[q] = chunkC[q]
        /\ Unsent' = Unsent /\ Untaken' = Untaken /\ PagePhase' = PagePhase
    <3>1. \A q \in Rs : q = gen.res => bg'[q] = bg[q] /\ chunkC'[q] = chunkC[q]
      BY <1>8, <1>10
    <3>2. Unsent' = Unsent
      BY <1>4, <3>1 DEF Unsent
    <3>3. Untaken' = Untaken
      BY <1>4, <3>1, <3>2 DEF Untaken
    <3>4. PagePhase' = PagePhase
      BY <1>4, <3>1 DEF PagePhase
    <3> QED  BY <3>1, <3>2, <3>3, <3>4
  <2>3. Variant'[3] <= Variant[3] /\ Variant'[6] <= Variant[6] /\ Variant'[7] <= Variant[7]
    BY <1>3, <2>2, Entries, NextEntries
  <2>4. \A pc : IsFiniteSet(Pagers(pc)) /\ Cardinality(Pagers(pc)) \in Nat
    BY <1>1, VariantTyped
  <2>5. bg'[r].pc \in {"list", "end"} /\ (bg[r].pc = "list" => bg'[r].pc = "end")
    <3>1. CASE Gone
      BY <1>7, <3>1
    <3>2. CASE Sent
      <4>1. CASE bg[r].page = Len(Pages[r])
        BY <1>7, <3>2, <4>1
      <4>2. CASE bg[r].page # Len(Pages[r])
        BY <1>2, <3>2, <4>2 DEF BgRec
      <4> QED  BY <3>2, <4>1, <4>2
    <3> QED  BY <1>6, <2>1, <3>1, <3>2
  <2>6. CASE bg[r].pc = "send"
    <3>1. Pagers("send")' = Pagers("send") \ {r} /\ r \in Pagers("send")
      BY <1>4, <1>8, <1>10, <2>5, <2>6 DEF Pagers
    <3>2. Cardinality(Pagers("send")') = Cardinality(Pagers("send")) - 1
      BY <2>4, <3>1, FS_RemoveElement
    <3>3. Variant'[8] < Variant[8]
      BY <2>4, <3>2, Entries, NextEntries
    <3> QED  BY <1>5, <2>3, <3>3 DEF Below
  <2>7. CASE bg[r].pc = "list"
    <3>1. /\ Pagers("send")' = Pagers("send")
          /\ Pagers("list")' = Pagers("list") \ {r} /\ r \in Pagers("list")
      BY <1>4, <1>8, <1>10, <2>5, <2>7 DEF Pagers
    <3>2. Cardinality(Pagers("list")') = Cardinality(Pagers("list")) - 1
      BY <2>4, <3>1, FS_RemoveElement
    <3>3. Variant'[9] < Variant[9] /\ Variant'[8] <= Variant[8]
      BY <2>4, <3>1, <3>2, Entries, NextEntries
    <3> QED  BY <1>5, <2>3, <3>3 DEF Below
  <2> QED  BY <1>4, <2>6, <2>7
<1> QED  BY <1>9, <1>10

\* A worker descends in the next four.
LEMMA WorkerDescends ==
  ASSUME IndInv, NEW w \in Workers, Worker(w)
  PROVE  Below(Variant', Variant)
<1>1. TypeFacts
  BY TypesAreFacts DEF IndInv
<1>2. worker \in [Workers -> WorkerRec] /\ work \in Seq(Items)
  BY <1>1 DEF TypeFacts
<1>3. UNCHANGED <<gen, bg, chunkC>>
  BY DEF Worker, TakeItem, ProcessItem, ReportItem
<1>4. \A j \in 1 .. 9 : Variant'[j] <= Variant[j]
  <2>1. /\ GenPhase' = GenPhase /\ ItemPhase' = ItemPhase /\ Unsent' = Unsent
        /\ PagePhase' = PagePhase /\ \A pc : Pagers(pc)' = Pagers(pc)
    BY <1>3 DEF GenPhase, ItemPhase, Unsent, PagePhase, Pagers
  <2>2. Untaken' = Untaken
    BY <1>3, <2>1 DEF Untaken
  <2>3. /\ Variant'[1] = Variant[1] /\ Variant'[2] = Variant[2] /\ Variant'[3] = Variant[3]
        /\ Variant'[4] = Variant[4] /\ Variant'[5] = Variant[5] /\ Variant'[6] = Variant[6]
        /\ Variant'[7] = Variant[7] /\ Variant'[8] = Variant[8] /\ Variant'[9] = Variant[9]
    BY <1>3, <2>1, <2>2, Entries, NextEntries
  <2>4. \A j \in 1 .. 9 : Variant[j] \in Nat
    BY <1>1, VariantNat
  <2> QED  BY <2>3, <2>4
<1>5. \A pc : IsFiniteSet(WorkersAt(pc)) /\ Cardinality(WorkersAt(pc)) \in Nat
  BY <1>1, VariantTyped
<1>6. ASSUME NEW x, NEW p, worker' = [worker EXCEPT ![w] = x], worker[w].pc = p, x.pc # p
      PROVE  /\ Cardinality(WorkersAt(p)') < Cardinality(WorkersAt(p))
             /\ \A pc : pc # x.pc => Cardinality(WorkersAt(pc)') <= Cardinality(WorkersAt(pc))
  <2>1. \A v \in Workers : worker'[v] = IF v = w THEN x ELSE worker[v]
    BY <1>2, <1>6
  <2>2. WorkersAt(p)' = WorkersAt(p) \ {w} /\ w \in WorkersAt(p)
    BY <1>6, <2>1 DEF WorkersAt
  <2>3. Cardinality(WorkersAt(p)') < Cardinality(WorkersAt(p))
    <3>1. Cardinality(WorkersAt(p) \ {w}) = Cardinality(WorkersAt(p)) - 1
      BY <1>5, <2>2, FS_RemoveElement
    <3> QED  BY <1>5, <2>2, <3>1
  <2>4. ASSUME NEW pc, pc # x.pc PROVE Cardinality(WorkersAt(pc)') <= Cardinality(WorkersAt(pc))
    <3>1. WorkersAt(pc)' \subseteq WorkersAt(pc)
      BY <2>1, <2>4 DEF WorkersAt
    <3> QED  BY <1>5, <3>1, FS_Subset
  <2> QED  BY <2>3, <2>4
<1>7. CASE TakeItem(w) /\ work' = Tail(work) /\ work # <<>>
  <2>1. Len(work') < Len(work)
    BY <1>2, <1>7
  <2>2. Variant'[10] < Variant[10]
    BY <2>1, Entries, NextEntries
  <2> QED  BY <1>4, <2>2 DEF Below
<1>8. CASE TakeItem(w) /\ worker' = [worker EXCEPT ![w] = Stopped] /\ work' = work
  <2>1. worker[w].pc = "idle" /\ Stopped.pc = "done"
    BY <1>8 DEF TakeItem, Stopped
  <2>2. /\ Cardinality(WorkersAt("idle")') < Cardinality(WorkersAt("idle"))
        /\ Cardinality(WorkersAt("busy")') <= Cardinality(WorkersAt("busy"))
        /\ Cardinality(WorkersAt("report")') <= Cardinality(WorkersAt("report"))
    BY <1>6, <1>8, <2>1
  <2>3. Variant'[13] < Variant[13] /\ Variant'[11] <= Variant[11] /\ Variant'[12] <= Variant[12]
    BY <2>2, Entries, NextEntries
  <2>4. Variant'[10] <= Variant[10]
    BY <1>2, <1>8, Entries, NextEntries
  <2> QED  BY <1>4, <2>3, <2>4 DEF Below
<1>9. CASE ProcessItem(w)
  <2>1. worker[w].pc = "busy" /\ work' = work
    BY <1>9 DEF ProcessItem
  <2>2. PICK x : worker' = [worker EXCEPT ![w] = x] /\ x.pc = "report"
    <3>1. PICK y : y = [worker[w] EXCEPT !.pc = "report"]
      OBVIOUS
    <3>2. PICK z : z = [worker[w] EXCEPT !.pc = "report", !.err = TRUE]
      OBVIOUS
    <3>3. worker[w] \in WorkerRec
      BY <1>2
    <3>4. y.pc = "report" /\ z.pc = "report"
      BY <3>1, <3>2, <3>3 DEF WorkerRec
    <3>5. worker' = [worker EXCEPT ![w] = y] \/ worker' = [worker EXCEPT ![w] = z]
      BY <1>9, <3>1, <3>2 DEF ProcessItem
    <3> QED  BY <3>4, <3>5
  <2>3. Variant'[11] < Variant[11]
    <3>1. Cardinality(WorkersAt("busy")') < Cardinality(WorkersAt("busy"))
      BY <1>6, <2>1, <2>2
    <3> QED  BY <3>1, Entries, NextEntries
  <2>4. Variant'[10] <= Variant[10]
    BY <1>2, <2>1, Entries, NextEntries
  <2> QED  BY <1>4, <2>3, <2>4 DEF Below
<1>10. CASE ReportItem(w)
  <2>1. worker[w].pc = "report" /\ work' = work
    BY <1>10 DEF ReportItem
  <2>2. PICK x : x = [pc |-> "idle", item |-> None, err |-> FALSE]
    OBVIOUS
  <2>3. worker' = [worker EXCEPT ![w] = x] /\ x.pc = "idle"
    BY <1>10, <2>2 DEF ReportItem
  <2>4. /\ Cardinality(WorkersAt("report")') < Cardinality(WorkersAt("report"))
        /\ Cardinality(WorkersAt("busy")') <= Cardinality(WorkersAt("busy"))
    BY <1>6, <2>1, <2>3
  <2>5. Variant'[12] < Variant[12] /\ Variant'[11] <= Variant[11]
    BY <2>4, Entries, NextEntries
  <2>6. Variant'[10] <= Variant[10]
    BY <1>2, <2>1, Entries, NextEntries
  <2> QED  BY <1>4, <2>5, <2>6 DEF Below
<1> QED  BY <1>7, <1>8, <1>9, <1>10 DEF Worker, TakeItem

\* The caller, in the last one.
LEMMA CallerDescends ==
  ASSUME IndInv, Return
  PROVE  Below(Variant', Variant)
<1>1. TypeFacts
  BY TypesAreFacts DEF IndInv
<1>2. UNCHANGED <<gen, bg, chunkC, work, worker>> /\ ret = "no" /\ ret' # "no"
  BY DEF Return
<1>3. /\ GenPhase' = GenPhase /\ ItemPhase' = ItemPhase /\ Unsent' = Unsent
      /\ PagePhase' = PagePhase /\ (\A pc : Pagers(pc)' = Pagers(pc) /\ WorkersAt(pc)' = WorkersAt(pc))
  BY <1>2 DEF GenPhase, ItemPhase, Unsent, PagePhase, Pagers, WorkersAt
<1>4. Untaken' = Untaken
  BY <1>2, <1>3 DEF Untaken
<1>5. \A j \in 1 .. 13 : Variant'[j] <= Variant[j]
  <2>1. /\ Variant'[1] = Variant[1] /\ Variant'[2] = Variant[2] /\ Variant'[3] = Variant[3]
        /\ Variant'[4] = Variant[4] /\ Variant'[5] = Variant[5] /\ Variant'[6] = Variant[6]
        /\ Variant'[7] = Variant[7] /\ Variant'[10] = Variant[10]
    BY <1>2, <1>3, <1>4, Entries, NextEntries
  <2>2. Variant'[8] = Variant[8] /\ Variant'[9] = Variant[9]
    BY <1>3, Entries, NextEntries
  <2>3. Variant'[11] = Variant[11] /\ Variant'[12] = Variant[12] /\ Variant'[13] = Variant[13]
    BY <1>3, Entries, NextEntries
  <2>4. \A j \in 1 .. 13 : Variant[j] \in Nat
    BY <1>1, VariantNat
  <2> QED  BY <2>1, <2>2, <2>3, <2>4
<1>6. Variant'[14] < Variant[14]
  BY <1>2, Entries, NextEntries DEF CallPhase
<1> QED  BY <1>5, <1>6 DEF Below

\* There is no infinite descent.
LEMMA OrderWellFounded == IsWellFoundedOn(Order, [1 .. 14 -> Nat])
<1>1. IsWellFoundedOn(LessThan, Nat)
  BY NatLessThanWellFounded DEF OpToRel, LessThan
<1> QED  BY <1>1, WFLexProductOrdering DEF Order

\* The first entry that differs is smaller.
LEMMA BelowIsLess ==
  ASSUME NEW u \in [1 .. 14 -> Nat], NEW v \in [1 .. 14 -> Nat], Below(u, v)
  PROVE  <<u, v>> \in Order
<1>1. PICK i \in 1 .. 14 : u[i] < v[i] /\ \A j \in 1 .. i - 1 : u[j] <= v[j]
  BY DEF Below
<1>2. IsWellFoundedOn(LessThan, Nat)
  BY NatLessThanWellFounded DEF OpToRel, LessThan
<1> DEFINE S == {k \in 1 .. 14 : u[k] # v[k]}
<1>3. i \in S /\ S \subseteq Nat
  BY <1>1
<1>4. PICK k \in S : \A j \in S : ~(<<j, k>> \in LessThan)
  <2> HIDE DEF S
  <2>1. S # {}
    BY <1>3
  <2> QED  BY <1>2, <1>3, <2>1, WFMin
<1>5. \A j \in S : ~(j < k)
  BY <1>3, <1>4 DEF LessThan
<1>6. \A j \in 1 .. k - 1 : u[j] = v[j]
  <2> SUFFICES ASSUME NEW j \in 1 .. k - 1 PROVE u[j] = v[j]
    OBVIOUS
  <2>1. j \in 1 .. 14 /\ j < k
    OBVIOUS
  <2> QED  BY <1>5, <2>1
<1>7. k \in 1 .. 14 /\ u[k] \in Nat /\ v[k] \in Nat /\ u[k] < v[k]
  <2>1. k \in 1 .. 14 /\ u[k] # v[k] /\ k <= i
    BY <1>3, <1>5
  <2>2. CASE k = i
    BY <1>1, <2>1, <2>2
  <2>3. CASE k # i
    <3>1. k \in 1 .. i - 1
      BY <2>1, <2>3
    <3> QED  BY <1>1, <2>1, <3>1
  <2> QED  BY <2>2, <2>3
<1>8. <<u[k], v[k]>> \in LessThan
  BY <1>7 DEF LessThan
<1> QED  BY <1>6, <1>7, <1>8 DEF Order, LexProductOrdering

\* Every step of the generator, a pager, a worker or the caller comes down in an order
\* without infinite descent (OrderWellFounded): with NotStuck, a resync that is not
\* cancelled returns after finitely many steps, in whatever order the scheduler runs
\* the goroutines, and for every number of them.
THEOREM Terminating == Spec => Descends
<1>1. ASSUME IndInv PROVE Variant \in [1 .. 14 -> Nat]
  <2>1. TypeFacts
    BY <1>1, TypesAreFacts DEF IndInv
  <2>2. Variant = [j \in 1 .. 14 |-> Variant[j]]
    BY DEF Variant
  <2>3. \A j \in 1 .. 14 : Variant[j] \in Nat
    BY <2>1, VariantNat
  <2> QED  BY <2>2, <2>3
<1>2. IndInv => Variant \in [1 .. 14 -> Nat]
  BY <1>1
<1>3. (IndInv => Variant \in [1 .. 14 -> Nat])'
  BY <1>2, PTL
<1>4. IndInv /\ IndInv' /\ [Next]_vars => [Cancel \/ <<Variant', Variant>> \in Order]_vars
  <2> SUFFICES ASSUME IndInv, IndInv', Next, ~Cancel PROVE <<Variant', Variant>> \in Order
    OBVIOUS
  <2>1. Below(Variant', Variant)
    BY GeneratorDescends, PagerDescends, WorkerDescends, CallerDescends DEF Next
  <2>2. PICK u, v : u = Variant' /\ v = Variant
    OBVIOUS
  <2>3. u \in [1 .. 14 -> Nat] /\ v \in [1 .. 14 -> Nat]
    BY <1>2, <1>3, <2>2
  <2> QED  BY <2>1, <2>2, <2>3, BelowIsLess
<1> QED  BY <1>4, Invariance, PTL DEF Spec, Descends
=============================================================================
