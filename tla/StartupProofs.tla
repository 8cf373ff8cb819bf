----------------------------- MODULE StartupProofs -----------------------------
(****************************************************************************)
(* Proofs about the start of the program and the CUDA utilities, for any    *)
(* number of devices, wrappers, addresses and handles and any configuration *)
(* of the device.                                                           *)
(****************************************************************************)
EXTENDS Startup, SumTheorems, TLAPS

-------------------------------------------------------------------------------
(* Types.  A wrapper holds a resource of its own class; the device of a      *)
(* context that has none is still the first.                                 *)
WrappersOK ==
    /\ own \in [Owners -> Blocks \cup Handles \cup {Absent, Null}]
    /\ \A o \in Owners : own[o] \in Resources(o) \cup {Absent, Null}
    /\ bytes \in [Memories -> Sizes \cup {0}]
    /\ \A m \in Memories : own[m] \in Blocks => bytes[m] \in Sizes

PoolOK ==
    pool \in [allocations : SUBSET (Blocks \X Sizes), used : Int, peak : Int]

ContextOK ==
    /\ device_count \in Nat
    /\ context \in [available : BOOLEAN, device : Int, streams : SUBSET Handles]
    /\ context.available => Present(context.device)
    /\ ~context.available => context.device = 0

CudaOK == WrappersOK /\ PoolOK /\ ContextOK

LEMMA MovedOK ==
    ASSUME WrappersOK, NEW o \in Owners, NEW p \in Owners, o # p,
           SameClass(o, p), Moved(o, p)
    PROVE  WrappersOK'
<1>1. /\ own' = [own EXCEPT ![o] = own[p], ![p] = Null]
      /\ bytes' = [m \in Memories |-> IF m = o THEN bytes[p]
                                      ELSE IF m = p THEN 0 ELSE bytes[m]]
  BY DEF Moved, Source
<1>2. o \in Memories <=> p \in Memories
  BY DEF SameClass
<1>3. /\ own'[o] = own[p] /\ own'[p] = Null
      /\ \A q \in Owners \ {o, p} : own'[q] = own[q]
      /\ own' \in [Owners -> Blocks \cup Handles \cup {Absent, Null}]
  BY <1>1 DEF WrappersOK
<1>4. \A q \in Owners : own'[q] \in Resources(q) \cup {Absent, Null}
  BY <1>2, <1>3 DEF WrappersOK, Resources
<1>5. bytes' \in [Memories -> Sizes \cup {0}]
  BY <1>1, <1>2 DEF WrappersOK
<1>6. \A m \in Memories : own'[m] \in Blocks => bytes'[m] \in Sizes
  BY <1>1, <1>2, <1>3, CudaAssumption DEF WrappersOK, Owners
<1> QED
  BY <1>3, <1>4, <1>5, <1>6 DEF WrappersOK, Resources

LEMMA ConstructOK ==
    ASSUME WrappersOK, NEW o \in Owners, NEW n \in Sizes \cup {0}, Construct(o, n)
    PROVE  WrappersOK'
<1>1. PICK r \in Resources(o) \cup {Null} :
         own' = [own EXCEPT ![o] = r] /\ (n = 0 => r = Null)
  BY CudaAssumption DEF Construct
<1>2. bytes' = [m \in Memories |-> IF m = o THEN n ELSE bytes[m]]
  BY DEF Construct, SetBytes
<1>3. own'[o] = r /\ \A q \in Owners \ {o} : own'[q] = own[q]
  BY <1>1 DEF WrappersOK
<1>4. own' \in [Owners -> Blocks \cup Handles \cup {Absent, Null}]
  BY <1>1 DEF WrappersOK, Resources
<1>5. \A q \in Owners : own'[q] \in Resources(q) \cup {Absent, Null}
  BY <1>3 DEF WrappersOK
<1>6. \A m \in Memories : own'[m] \in Blocks => bytes'[m] \in Sizes
  BY <1>1, <1>2, <1>3, CudaAssumption DEF WrappersOK, Owners
<1> QED
  BY <1>2, <1>4, <1>5, <1>6 DEF WrappersOK, Resources

LEMMA DestructOK ==
    ASSUME WrappersOK, NEW o \in Owners, Destruct(o)
    PROVE  WrappersOK'
<1>1. /\ own' = [own EXCEPT ![o] = Absent]
      /\ bytes' = [m \in Memories |-> IF m = o THEN 0 ELSE bytes[m]]
  BY DEF Destruct, SetBytes
<1>2. own'[o] = Absent /\ \A q \in Owners \ {o} : own'[q] = own[q]
  BY <1>1 DEF WrappersOK
<1>3. \A m \in Memories : own'[m] \in Blocks => bytes'[m] \in Sizes
  BY <1>1, <1>2, CudaAssumption DEF WrappersOK, Owners
<1> QED
  BY <1>1, <1>2, <1>3 DEF WrappersOK, Resources

LEMMA WrappersKept == WrappersOK /\ UNCHANGED <<own, bytes>> => WrappersOK'
BY DEF WrappersOK, Resources

LEMMA ContextKept == ContextOK /\ UNCHANGED gpu => ContextOK'
BY DEF ContextOK, gpu, Present

LEMMA CudaTyped == CudaOK /\ CNext => CudaOK'
<1> SUFFICES ASSUME CudaOK, CNext PROVE CudaOK'
  OBVIOUS
<1> USE DEF CudaOK
<1>1. ASSUME NEW o \in Owners, Destruct(o) \/ \E n \in Sizes \cup {0} : Construct(o, n)
      PROVE  CudaOK'
  <2>1. UNCHANGED <<gpu, pool>>
    BY <1>1 DEF Destruct, Construct
  <2> QED
    BY <1>1, <2>1, ConstructOK, DestructOK, ContextKept DEF PoolOK
<1>2. ASSUME NEW o \in Owners, NEW p \in Owners, MoveConstruct(o, p) \/ MoveAssign(o, p)
      PROVE  CudaOK'
  <2>1. UNCHANGED <<gpu, pool>>
    BY <1>2 DEF MoveConstruct, MoveAssign
  <2>2. UNCHANGED <<own, bytes>> \/ (o # p /\ SameClass(o, p) /\ Moved(o, p))
    BY <1>2 DEF MoveConstruct, MoveAssign
  <2> QED
    BY <2>1, <2>2, MovedOK, WrappersKept, ContextKept DEF PoolOK
<1>3. ASSUME CreateStream \/ \E h \in Handles : DestroyStream(h) PROVE CudaOK'
  <2>1. UNCHANGED <<device_count, own, bytes, pool>>
    BY <1>3 DEF CreateStream, DestroyStream
  <2>2. PICK streams \in SUBSET Handles : context' = [context EXCEPT !.streams = streams]
    BY <1>3 DEF CreateStream, DestroyStream, ContextOK
  <2>3. ContextOK'
    BY <2>1, <2>2 DEF ContextOK, Present
  <2> QED
    BY <2>1, <2>3, WrappersKept DEF PoolOK
<1>4. ASSUME NEW n \in Sizes, Allocate(n) PROVE CudaOK'
  <2>1. UNCHANGED <<gpu, own, bytes>>
    BY <1>4 DEF Allocate
  <2>2. PICK b \in Blocks :
           pool' = [allocations |-> pool.allocations \cup {<<b, n>>},
                    used |-> pool.used + n,
                    peak |-> Larger(pool.peak, pool.used + n)]
    BY <1>4 DEF Allocate
  <2>3. PoolOK'
    BY <2>2, CudaAssumption DEF PoolOK, Larger
  <2> QED
    BY <2>1, <2>3, WrappersKept, ContextKept
<1>5. ASSUME NEW b \in Blocks, Deallocate(b) PROVE CudaOK'
  <2>1. UNCHANGED <<gpu, own, bytes>>
    BY <1>5 DEF Deallocate
  <2>2. PICK a \in pool.allocations :
           pool' = [pool EXCEPT !.allocations = @ \ {a}, !.used = @ - a[2]]
    BY <1>5 DEF Deallocate, Ours
  <2>3. a \in Blocks \X Sizes /\ a[2] \in Int
    BY <2>2, CudaAssumption DEF PoolOK
  <2>4. pool' = [allocations |-> pool.allocations \ {a}, used |-> pool.used - a[2],
                 peak |-> pool.peak]
    BY <2>2 DEF PoolOK
  <2>5. PoolOK'
    BY <2>3, <2>4 DEF PoolOK
  <2> QED
    BY <2>1, <2>5, WrappersKept, ContextKept
<1>6. ASSUME DestroyPool PROVE CudaOK'
  <2>1. UNCHANGED <<gpu, own, bytes>> /\ pool' = EmptyPool
    BY <1>6 DEF DestroyPool
  <2> QED
    BY <2>1, WrappersKept, ContextKept DEF PoolOK, EmptyPool
<1> QED
  BY <1>1, <1>2, <1>3, <1>4, <1>5, <1>6 DEF CNext

-------------------------------------------------------------------------------
(* Ownership, resource by resource: what a step does to other resources does *)
(* not concern this one.  The pool has each address once.                    *)
OneEach == \A a, b \in pool.allocations : a[1] = b[1] => a = b

Held1(r) == \E o \in Owners : own[o] = r

Other(r) == r \in Remembered \cup context.streams

Orderly(r) ==
    /\ r \notin freed
    /\ r \in live <=> Held1(r) \/ Other(r)
    /\ \A o, p \in Owners : own[o] = r /\ own[p] = r => o = p
    /\ \A o \in Owners : own[o] = r => ~Other(r)

OwnershipInv ==
    /\ CudaOK
    /\ strayed \subseteq Handles
    /\ \A r \in (Blocks \cup Handles) \ strayed : Orderly(r)
    /\ OneEach

LEMMA OwnedByResource ==
    OwnedOnce <=> \A r \in (Blocks \cup Handles) \ strayed : Orderly(r)
BY DEF OwnedOnce, Orderly, Held1, Other

(* Blocks never stray, and are not among the streams of the context.         *)
LEMMA BlocksOrderly ==
    ASSUME OwnershipInv, NEW b \in Blocks
    PROVE  Orderly(b) /\ b \notin context.streams
BY CudaAssumption DEF OwnershipInv, CudaOK, ContextOK

LEMMA Untouched ==
    ASSUME NEW r, Orderly(r), UNCHANGED own, r \in live' <=> r \in live,
           r \in freed' => r \in freed, Other(r)' <=> Other(r)
    PROVE  Orderly(r)'
BY DEF Orderly, Held1

LEMMA ConstructOwned ==
    ASSUME OwnershipInv, NEW o \in Owners, NEW n, Construct(o, n),
           NEW r \in Blocks \cup Handles, Orderly(r)
    PROVE  Orderly(r)'
<1>1. /\ own[o] = Absent /\ own \in [Owners -> Blocks \cup Handles \cup {Absent, Null}]
      /\ freed' = freed /\ (Other(r)' <=> Other(r))
  BY DEF Construct, OwnershipInv, CudaOK, WrappersOK, gpu, Other, Remembered
<1>2. r # Absent /\ r # Null
  BY CudaAssumption
<1>3. ASSUME NEW x, x \notin live, own' = [own EXCEPT ![o] = x], live' = live \cup {x}
      PROVE  Orderly(r)'
  <2>1. own'[o] = x /\ \A q \in Owners \ {o} : own'[q] = own[q]
    BY <1>1, <1>3
  <2>2. CASE r = x
    BY <1>1, <1>3, <2>1, <2>2 DEF Orderly, Held1
  <2>3. CASE r # x
    BY <1>1, <1>2, <1>3, <2>1, <2>3 DEF Orderly, Held1
  <2> QED
    BY <2>2, <2>3
<1>4. ASSUME own' = [own EXCEPT ![o] = Null], live' = live PROVE Orderly(r)'
  <2>1. own'[o] = Null /\ \A q \in Owners \ {o} : own'[q] = own[q]
    BY <1>1, <1>4
  <2> QED
    BY <1>1, <1>2, <1>4, <2>1 DEF Orderly, Held1
<1> QED
  BY <1>3, <1>4 DEF Construct

(* A wrapper frees what it held, and has nothing, or what another gives up.  *)
LEMMA LetsGo ==
    ASSUME NEW r \in Blocks \cup Handles, Orderly(r), NEW o \in Owners,
           Free(Held(o)), Other(r)' <=> Other(r),
           ~(\E q \in Owners : own'[q] = r /\ own[q] # r /\ own[o] = r),
           \A p, q \in Owners : own'[p] = r /\ own'[q] = r => p = q,
           own[o] # r => (Held1(r)' <=> Held1(r)),
           own[o] = r => ~Held1(r)'
    PROVE  Orderly(r)'
<1>1. r # Absent /\ r # Null
  BY CudaAssumption
<1>2. r \in Held(o) <=> own[o] = r
  BY <1>1 DEF Held
<1>3. r \in Held(o) => r \in live
  BY <1>2 DEF Orderly, Held1
<1>4. r \notin freed' /\ (r \in live' <=> r \in live /\ own[o] # r)
  BY <1>2, <1>3 DEF Free, Orderly
<1>5. CASE own[o] = r
  BY <1>4, <1>5 DEF Orderly, Held1
<1>6. CASE own[o] # r
  BY <1>4, <1>6 DEF Orderly, Held1
<1> QED
  BY <1>5, <1>6

LEMMA DestructOwned ==
    ASSUME OwnershipInv, NEW o \in Owners, Destruct(o),
           NEW r \in Blocks \cup Handles, Orderly(r)
    PROVE  Orderly(r)'
<1>1. /\ own \in [Owners -> Blocks \cup Handles \cup {Absent, Null}]
      /\ own' = [own EXCEPT ![o] = Absent]
      /\ Free(Held(o)) /\ (Other(r)' <=> Other(r))
  BY DEF Destruct, OwnershipInv, CudaOK, WrappersOK, gpu, Other, Remembered
<1>2. r # Absent /\ own'[o] = Absent /\ \A q \in Owners \ {o} : own'[q] = own[q]
  BY <1>1, CudaAssumption
<1> QED
  BY <1>1, <1>2, LetsGo DEF Orderly, Held1

(* A move, after what the target held has been freed. *)
LEMMA MoveOwned ==
    ASSUME OwnershipInv, NEW o \in Owners, NEW p \in Owners, o # p,
           Free(Held(o)), Moved(o, p), UNCHANGED <<gpu, pool>>,
           NEW r \in Blocks \cup Handles, Orderly(r)
    PROVE  Orderly(r)'
<1>1. /\ own \in [Owners -> Blocks \cup Handles \cup {Absent, Null}]
      /\ own' = [own EXCEPT ![o] = own[p], ![p] = Null]
      /\ Other(r)' <=> Other(r)
  BY DEF Moved, Source, OwnershipInv, CudaOK, WrappersOK, gpu, Other, Remembered
<1>2. /\ r # Null /\ own'[o] = own[p] /\ own'[p] = Null
      /\ \A q \in Owners \ {o, p} : own'[q] = own[q]
  BY <1>1, CudaAssumption
<1> QED
  BY <1>1, <1>2, LetsGo DEF Orderly, Held1

LEMMA NextOrderly ==
    ASSUME OwnershipInv, CNext, NEW r \in (Blocks \cup Handles) \ strayed'
    PROVE  Orderly(r)'
<1>0. strayed \subseteq strayed'
  BY DEF CNext, Destruct, Construct, MoveConstruct, MoveAssign, CreateStream,
     DestroyStream, Allocate, Deallocate, DestroyPool
<1>1. Orderly(r)
  BY <1>0 DEF OwnershipInv
<1>2. context.streams \subseteq Handles /\ Blocks \cap Handles = {}
  BY CudaAssumption DEF OwnershipInv, CudaOK, ContextOK
<1>3. ASSUME NEW o \in Owners, NEW n \in Sizes \cup {0}, Destruct(o) \/ Construct(o, n)
      PROVE  Orderly(r)'
  BY <1>1, <1>3, ConstructOwned, DestructOwned
<1>4. ASSUME NEW o \in Owners, NEW p \in Owners, MoveConstruct(o, p)
      PROVE  Orderly(r)'
  <2>1. /\ o # p /\ Moved(o, p) /\ UNCHANGED <<gpu, pool>> /\ Held(o) = {}
        /\ live' = live /\ freed' = freed
    BY <1>4 DEF MoveConstruct, Held
  <2>2. Free(Held(o))
    BY <2>1 DEF Free
  <2> QED
    BY <1>1, <2>1, <2>2, MoveOwned
<1>5. ASSUME NEW o \in Owners, NEW p \in Owners, MoveAssign(o, p)
      PROVE  Orderly(r)'
  <2>1. CASE UNCHANGED <<own, live, freed>>
    <3>1. UNCHANGED <<pool, context>>
      BY <1>5 DEF MoveAssign, gpu
    <3> QED
      BY <1>1, <2>1, <3>1, Untouched DEF Other, Remembered
  <2>2. CASE o # p /\ Free(Held(o)) /\ Moved(o, p)
    <3>1. UNCHANGED <<gpu, pool>>
      BY <1>5 DEF MoveAssign
    <3> QED
      BY <1>1, <2>2, <3>1, MoveOwned
  <2> QED
    BY <1>5, <2>1, <2>2 DEF MoveAssign
<1>6. ASSUME CreateStream PROVE Orderly(r)'
  <2>1. PICK h \in Handles :
           /\ context' = [context EXCEPT !.streams = @ \cup {h}]
           /\ \/ h \notin live /\ live' = live \cup {h}
              \/ strayed' = strayed \cup {h} /\ live' = live
    BY <1>6 DEF CreateStream
  <2>2. UNCHANGED <<own, pool, freed>>
    BY <1>6 DEF CreateStream
  <2>3. context'.streams = context.streams \cup {h} /\ Remembered' = Remembered
    BY <2>1, <2>2 DEF OwnershipInv, CudaOK, ContextOK, Remembered
  <2>4. CASE r # h
    BY <1>1, <2>1, <2>2, <2>3, <2>4, Untouched DEF Other
  <2>5. CASE r = h
    <3>1. h \notin live /\ live' = live \cup {h}
      BY <2>1, <2>5
    <3>2. ~Held1(r) /\ Other(r)'
      BY <1>1, <2>3, <2>5, <3>1 DEF Orderly, Other
    <3> QED
      BY <1>1, <2>2, <2>5, <3>1, <3>2 DEF Orderly, Held1
  <2> QED
    BY <2>4, <2>5
<1>7. ASSUME NEW h \in Handles, DestroyStream(h) PROVE Orderly(r)'
  <2>1. /\ context' = [context EXCEPT !.streams = @ \ {h}] /\ Free({h})
        /\ strayed' = strayed \cup ({h} \ context.streams) /\ UNCHANGED <<own, pool>>
    BY <1>7 DEF DestroyStream
  <2>2. context'.streams = context.streams \ {h} /\ Remembered' = Remembered
    BY <2>1 DEF OwnershipInv, CudaOK, ContextOK, Remembered
  <2>3. CASE r # h
    BY <1>1, <2>1, <2>2, <2>3, Untouched DEF Other, Free
  <2>4. CASE r = h
    <3>1. h \in context.streams
      BY <2>1, <2>4
    <3>2. h \in live /\ ~Held1(h)
      BY <1>1, <2>4, <3>1 DEF Orderly, Other, Held1
    <3>3. h \notin Remembered
      BY <1>2 DEF OwnershipInv, CudaOK, PoolOK, Remembered
    <3>4. ~Other(h)' /\ h \notin live' /\ freed' = freed
      BY <2>1, <2>2, <3>2, <3>3 DEF Other, Free
    <3> QED
      BY <1>1, <2>1, <2>4, <3>2, <3>4 DEF Orderly, Held1
  <2> QED
    BY <2>3, <2>4
<1>8. ASSUME NEW n \in Sizes, Allocate(n) PROVE Orderly(r)'
  <2>1. UNCHANGED <<own, context, freed>>
    BY <1>8 DEF Allocate, gpu
  <2>2. PICK b \in Blocks \ live :
           /\ live' = live \cup {b}
           /\ pool'.allocations = pool.allocations \cup {<<b, n>>}
    BY <1>8 DEF Allocate
  <2>3. Remembered' = Remembered \cup {b}
    <3> DEFINE new == <<b, n>>
    <3>1. new[1] = b
      OBVIOUS
    <3>2. pool'.allocations = pool.allocations \cup {new}
      BY <2>2
    <3> HIDE DEF new
    <3> QED
      BY <3>1, <3>2 DEF Remembered
  <2>4. CASE r # b
    BY <1>1, <2>1, <2>2, <2>3, <2>4, Untouched DEF Other
  <2>5. CASE r = b
    BY <1>1, <2>1, <2>2, <2>3, <2>5 DEF Orderly, Held1, Other
  <2> QED
    BY <2>4, <2>5
<1>9. ASSUME NEW b \in Blocks, Deallocate(b) PROVE Orderly(r)'
  <2>1. UNCHANGED <<own, context>> /\ Free({b})
    BY <1>9 DEF Deallocate, gpu
  <2>2. PICK a \in pool.allocations :
           a[1] = b /\ pool'.allocations = pool.allocations \ {a}
    BY <1>9 DEF Deallocate, Ours, OwnershipInv, CudaOK, PoolOK
  <2>3. Remembered' = Remembered \ {b} /\ b \in Remembered
    BY <2>2 DEF Remembered, OwnershipInv, OneEach
  <2>4. CASE r # b
    BY <1>1, <2>1, <2>3, <2>4, Untouched DEF Other, Free
  <2>5. CASE r = b
    <3>1. b \in live /\ b \notin context.streams /\ ~Held1(b)
      BY <1>1, <1>2, <2>3, <2>5 DEF Orderly, Other, Held1
    <3>2. ~Other(b)' /\ b \notin live' /\ freed' = freed
      BY <2>1, <2>3, <3>1 DEF Other, Free
    <3> QED
      BY <1>1, <2>1, <2>5, <3>1, <3>2 DEF Orderly, Held1
  <2> QED
    BY <2>4, <2>5
<1>10. ASSUME DestroyPool PROVE Orderly(r)'
  <2>1. UNCHANGED <<own, context>> /\ Free(Remembered) /\ pool' = EmptyPool
    BY <1>10 DEF DestroyPool, gpu
  <2>2. Remembered' = {} /\ Remembered \subseteq Blocks
    BY <2>1 DEF Remembered, EmptyPool, OwnershipInv, CudaOK, PoolOK
  <2>3. CASE r \notin Remembered
    BY <1>1, <2>1, <2>2, <2>3, Untouched DEF Other, Free
  <2>4. CASE r \in Remembered
    <3>1. r \in live /\ r \notin context.streams /\ ~Held1(r)
      BY <1>1, <1>2, <2>2, <2>4 DEF Orderly, Other, Held1
    <3>2. ~Other(r)' /\ r \notin live' /\ r \notin freed'
      BY <1>1, <2>1, <2>2, <2>4, <3>1 DEF Other, Free, Orderly
    <3> QED
      BY <2>1, <3>1, <3>2 DEF Orderly, Held1
  <2> QED
    BY <2>3, <2>4
<1> QED
  BY <1>3, <1>4, <1>5, <1>6, <1>7, <1>8, <1>9, <1>10 DEF CNext

LEMMA NextOneEach == OwnershipInv /\ CNext => OneEach' /\ (strayed \subseteq Handles)'
<1> SUFFICES ASSUME OwnershipInv, CNext PROVE OneEach' /\ (strayed \subseteq Handles)'
  OBVIOUS
<1>1. (strayed \subseteq Handles)'
  BY DEF OwnershipInv, CNext, Destruct, Construct, MoveConstruct, MoveAssign,
     CreateStream, DestroyStream, Allocate, Deallocate, DestroyPool
<1>2. ASSUME UNCHANGED pool PROVE OneEach'
  BY <1>2 DEF OwnershipInv, OneEach
<1>3. ASSUME NEW n \in Sizes, Allocate(n) PROVE OneEach'
  <2>1. PICK b \in Blocks \ live :
           pool'.allocations = pool.allocations \cup {<<b, n>>}
    BY <1>3 DEF Allocate
  <2>2. \A a \in pool.allocations : a[1] # b
    BY BlocksOrderly DEF Orderly, Other, Remembered
  <2> QED
    BY <2>1, <2>2 DEF OwnershipInv, OneEach
<1>4. ASSUME NEW b \in Blocks, Deallocate(b) PROVE OneEach'
  <2>1. pool'.allocations \subseteq pool.allocations
    BY <1>4 DEF Deallocate, OwnershipInv, CudaOK, PoolOK
  <2> QED
    BY <2>1 DEF OwnershipInv, OneEach
<1>5. ASSUME DestroyPool PROVE OneEach'
  BY <1>5 DEF DestroyPool, EmptyPool, OneEach
<1> QED
  BY <1>1, <1>2, <1>3, <1>4, <1>5 DEF CNext, Destruct, Construct, MoveConstruct,
     MoveAssign, CreateStream, DestroyStream

LEMMA NextOwned == OwnershipInv /\ CNext => OwnershipInv'
BY CudaTyped, NextOrderly, NextOneEach DEF OwnershipInv

-------------------------------------------------------------------------------
(* main(): no service before its stage, so nothing changes the context behind *)
(* the back of an ONNX session.                                              *)
Stages == {"file", "env", "context", "service", "corpus", "server", "serving", "exited",
           "library"}

MainOK ==
    /\ stage \in Stages
    /\ env \in Environments
    /\ config \in [use_cuda : BOOLEAN, cuda_device_id : DeviceIds \cup {0}]
    /\ service \in {"none", "cpu", "onnx"}
    /\ stage \in {"file", "env", "context", "service", "library"} => service = "none"

StartInv == OwnershipInv /\ MainOK /\ OnnxOnGpu

LEMMA ClampedOK ==
    ASSUME CudaOK, NEW id \in Int, SetDevice(id),
           UNCHANGED <<device_count, own, bytes, pool>>
    PROVE  CudaOK' /\ context'.available = context.available
                   /\ context'.streams = context.streams
                   /\ (context.available /\ Present(id) => context'.device = id)
<1>1. context.available => device_count > 0
  BY DEF CudaOK, ContextOK, Present
<1>2. CASE context.available
  <2>1. context' = [context EXCEPT !.device = Clamped(id)]
    BY <1>2 DEF SetDevice
  <2>2. Clamped(id) \in Int /\ Clamped(id) \in 0..(device_count - 1)
    BY <1>1, <1>2 DEF Clamped, Present, CudaOK, ContextOK
  <2>3. ContextOK'
    BY <1>2, <2>1, <2>2 DEF CudaOK, ContextOK, Present
  <2>4. Present(id) => context'.device = id
    BY <2>1 DEF Clamped, CudaOK, ContextOK
  <2> QED
    BY <1>2, <2>1, <2>3, <2>4, WrappersKept DEF CudaOK, PoolOK, ContextOK
<1>3. CASE ~context.available
  <2>1. context' = context
    BY <1>3 DEF SetDevice
  <2> QED
    BY <1>3, <2>1, WrappersKept, ContextKept DEF CudaOK, PoolOK, gpu
<1> QED
  BY <1>2, <1>3

LEMMA MakeContextOK ==
    ASSUME CudaOK, ~context.available, MakeContext,
           UNCHANGED <<device_count, own, bytes, pool>>
    PROVE  CudaOK' /\ context'.streams = context.streams
<1>1. context' = [context EXCEPT !.available = (device_count > 0)]
  BY DEF MakeContext
<1>2. context' \in [available : BOOLEAN, device : Int, streams : SUBSET Handles]
  <2>1. CASE device_count > 0
    <3>1. context' = [context EXCEPT !.available = TRUE]
      BY <1>1, <2>1
    <3> QED
      BY <3>1 DEF CudaOK, ContextOK
  <2>2. CASE (device_count > 0) = FALSE
    <3>1. context' = [context EXCEPT !.available = FALSE]
      BY <1>1, <2>2
    <3> QED
      BY <3>1 DEF CudaOK, ContextOK
  <2>3. device_count > 0 \/ (device_count > 0) = FALSE
    BY DEF CudaOK, ContextOK
  <2> QED
    BY <2>1, <2>2, <2>3
<1>3. /\ context'.available <=> device_count > 0
      /\ context'.device = 0 /\ context'.streams = context.streams
  BY <1>1 DEF CudaOK, ContextOK
<1>4. ContextOK'
  BY <1>2, <1>3 DEF CudaOK, ContextOK, Present
<1> QED
  BY <1>3, <1>4, WrappersKept DEF CudaOK, PoolOK

(* A step that leaves the resources alone. *)
LEMMA OwnedKept ==
    ASSUME OwnershipInv, CudaOK', UNCHANGED <<live, own, pool, freed, strayed>>,
           context'.streams = context.streams
    PROVE  OwnershipInv'
<1>1. \A r : Other(r)' <=> Other(r)
  BY DEF Other, Remembered
<1>2. ASSUME NEW r \in (Blocks \cup Handles) \ strayed' PROVE Orderly(r)'
  <2>1. Orderly(r)
    BY DEF OwnershipInv
  <2> QED
    BY <1>1, <2>1, Untouched
<1>3. OneEach' /\ strayed' \subseteq Handles
  BY DEF OneEach, OwnershipInv
<1> QED
  BY <1>2, <1>3 DEF OwnershipInv

LEMMA InitStarted == SInit => StartInv
<1> SUFFICES ASSUME SInit PROVE StartInv
  OBVIOUS
<1>1. /\ own = [o \in Owners |-> Absent] /\ live = {} /\ pool = EmptyPool
      /\ context = NoContext /\ bytes = [m \in Memories |-> 0]
      /\ freed = {} /\ strayed = {}
      /\ device_count \in Nat
  BY StartupAssumption DEF SInit, CInit
<1>2. CudaOK
  <2>1. WrappersOK
    BY <1>1, CudaAssumption DEF WrappersOK, Owners
  <2>2. PoolOK
    BY <1>1 DEF PoolOK, EmptyPool
  <2>3. ContextOK
    BY <1>1 DEF ContextOK, NoContext
  <2> QED
    BY <2>1, <2>2, <2>3 DEF CudaOK
<1>3. /\ Remembered = {} /\ context.streams = {} /\ OneEach
      /\ \A o \in Owners : own[o] = Absent
  BY <1>1 DEF Remembered, EmptyPool, NoContext, OneEach
<1>4. ASSUME NEW r \in Blocks \cup Handles PROVE Orderly(r)
  <2>1. r # Absent
    BY CudaAssumption
  <2> QED
    BY <1>1, <1>3, <2>1 DEF Orderly, Held1, Other
<1>5. MainOK /\ OnnxOnGpu
  BY DEF SInit, MainOK, Stages, Defaults, OnnxOnGpu
<1> QED
  BY <1>1, <1>2, <1>3, <1>4, <1>5 DEF StartInv, OwnershipInv

LEMMA NextStarted == StartInv /\ [SNext]_svars => StartInv'
<1> SUFFICES ASSUME StartInv, [SNext]_svars PROVE StartInv'
  OBVIOUS
<1>0. OwnershipInv /\ CudaOK /\ MainOK /\ OnnxOnGpu
  BY DEF StartInv, OwnershipInv
<1>1. ASSUME CudaOK', UNCHANGED <<live, own, pool, freed, strayed>>,
             context'.streams = context.streams, MainOK', OnnxOnGpu'
      PROVE  StartInv'
  BY <1>0, <1>1, OwnedKept DEF StartInv
<1>2. ASSUME UNCHANGED cvars, MainOK', OnnxOnGpu' PROVE StartInv'
  <2>1. UNCHANGED <<gpu, live, own, bytes, pool, freed, strayed>>
    BY <1>2 DEF cvars
  <2>2. CudaOK' /\ context' = context
    BY <1>0, <2>1, WrappersKept, ContextKept DEF CudaOK, PoolOK, gpu
  <2> QED
    BY <1>1, <1>2, <2>1, <2>2
<1>3. ASSUME UNCHANGED <<cvars, service, session_device>> PROVE OnnxOnGpu'
  BY <1>0, <1>3 DEF OnnxOnGpu, cvars, gpu, Present
<1>4. ASSUME LoadFromFile \/ EnvThrows \/ LoadCorpus \/ StartServer PROVE StartInv'
  <2>1. UNCHANGED <<cvars, env, config, service, session_device>>
    BY <1>4 DEF LoadFromFile, EnvThrows, LoadCorpus, StartServer
  <2>2. MainOK'
    BY <1>0, <1>4, <2>1 DEF LoadFromFile, EnvThrows, LoadCorpus, StartServer, Go, MainOK,
       Stages
  <2> QED
    BY <1>2, <1>3, <2>1, <2>2
<1>5. ASSUME LoadFromEnv PROVE StartInv'
  <2>1. /\ UNCHANGED <<cvars, env, service, session_device>> /\ stage = "env"
        /\ stage' = "context" /\ env.cuda_device # NotANumber
        /\ config' = [use_cuda |-> IF env.use_cuda = Unset THEN config.use_cuda
                                   ELSE env.use_cuda = "true",
                      cuda_device_id |-> IF env.cuda_device = Unset
                                         THEN config.cuda_device_id ELSE env.cuda_device]
    BY <1>5 DEF LoadFromEnv, Go, Unparsable
  <2>2. config' \in [use_cuda : BOOLEAN, cuda_device_id : DeviceIds \cup {0}]
    BY <1>0, <2>1 DEF MainOK, Environments
  <2>3. MainOK'
    BY <1>0, <2>1, <2>2 DEF MainOK, Stages
  <2> QED
    BY <1>2, <1>3, <2>1, <2>3
<1>6. ASSUME InitContext PROVE StartInv'
  <2>1. /\ MakeContext /\ service = "none"
        /\ UNCHANGED <<device_count, live, own, bytes, pool, freed, strayed, env, config,
                       service>>
    BY <1>0, <1>6 DEF InitContext, Go, MainOK
  <2>2. MainOK' /\ OnnxOnGpu'
    BY <1>0, <1>6, <2>1 DEF InitContext, Go, MainOK, Stages, OnnxOnGpu
  <2>3. CASE ~context.available
    BY <1>0, <1>1, <2>1, <2>2, <2>3, MakeContextOK
  <2>4. CASE context.available
    <3>1. context' = context
      BY <1>0, <2>1, <2>4 DEF MakeContext, CudaOK, ContextOK, Present
    <3> QED
      BY <1>2, <2>1, <2>2, <3>1, <1>6 DEF cvars, gpu
  <2> QED
    BY <2>3, <2>4
<1>7. ASSUME OnnxService \/ OnnxThrows PROVE StartInv'
  <2>1. /\ SetDevice(config.cuda_device_id) /\ OnGpu /\ stage = "service"
        /\ stage' = "corpus"
        /\ UNCHANGED <<device_count, live, own, bytes, pool, freed, strayed, env, config>>
    BY <1>7 DEF OnnxService, OnnxThrows, Go, Fallback
  <2>2. config.cuda_device_id \in Int
    <3>0. DeviceIds \cup {0} \subseteq Int
      BY StartupAssumption
    <3>1. config.cuda_device_id \in DeviceIds \cup {0}
      BY <1>0 DEF MainOK
    <3> QED
      BY <3>0, <3>1
  <2>3. /\ CudaOK' /\ context'.available = context.available
        /\ context'.streams = context.streams
        /\ (context.available /\ Present(config.cuda_device_id)
            => context'.device = config.cuda_device_id)
    BY <1>0, <2>1, <2>2, ClampedOK
  <2>4. MainOK'
    BY <1>0, <1>7, <2>1 DEF OnnxService, OnnxThrows, MainOK, Stages
  <2>5. OnnxOnGpu'
    BY <1>7, <2>1, <2>3 DEF OnnxService, OnnxThrows, OnnxOnGpu, OnGpu, ProviderTakes,
       Present
  <2> QED
    BY <1>1, <2>1, <2>3, <2>4, <2>5
<1>8. ASSUME CpuService PROVE StartInv'
  <2>1. MainOK' /\ OnnxOnGpu' /\ UNCHANGED cvars
    BY <1>0, <1>8 DEF CpuService, Go, MainOK, Stages, OnnxOnGpu
  <2> QED
    BY <1>2, <2>1
<1>9. ASSUME stage = "library", CNext, UNCHANGED bvars PROVE StartInv'
  <2>1. MainOK' /\ OnnxOnGpu'
    BY <1>0, <1>9 DEF bvars, MainOK, OnnxOnGpu
  <2> QED
    BY <1>0, <1>9, <2>1, NextOwned DEF StartInv
<1>10. CASE UNCHANGED svars
  <2>1. UNCHANGED <<cvars, bvars>>
    BY <1>10 DEF svars
  <2>2. UNCHANGED <<service, session_device>> /\ MainOK'
    BY <1>0, <2>1 DEF bvars, MainOK
  <2> QED
    BY <1>2, <1>3, <2>1, <2>2
<1> QED
  BY <1>4, <1>5, <1>6, <1>7, <1>8, <1>9, <1>10 DEF SNext, Main

LEMMA AlwaysStarted == SSpec => []StartInv
BY InitStarted, NextStarted, PTL DEF SSpec

(* Whatever the file and the environment configure, the configuration and    *)
(* the wrappers keep to their types and the device is one of the machine.    *)
THEOREM StartTypeCorrect == SSpec => []TypeOK
<1>1. StartInv => TypeOK
  BY DEF StartInv, OwnershipInv, CudaOK, WrappersOK, ContextOK, MainOK, TypeOK
<1> QED
  BY <1>1, AlwaysStarted, PTL

(* No sequence of constructions, moves, refusals, deallocations and            *)
(* destructions leaks what the runtime gave out or frees it twice: memory     *)
(* never, and a stream unless its own handle was managed without having been  *)
(* made, or destroyed without being managed.                                  *)
THEOREM ResourcesAreOwnedOnce == SSpec => []OwnedOnce
<1>1. StartInv => OwnedOnce
  BY OwnedByResource DEF StartInv, OwnershipInv
<1> QED
  BY <1>1, AlwaysStarted, PTL

(* A session of the ONNX service is on a GPU that is there, the one the       *)
(* context of the process has selected.                                      *)
THEOREM SessionOnDevice == SSpec => []OnnxOnGpu
BY AlwaysStarted, PTL DEF StartInv

-------------------------------------------------------------------------------
(* The pool's numbers.  An address it is given was not one of its own.       *)
PoolInv == IsFiniteSet(pool.allocations) /\ PoolAccounts

LEMMA SizesOf ==
    ASSUME PoolOK
    PROVE  /\ \A a \in pool.allocations : SizeOf[a] \in Int /\ SizeOf[a] = a[2]
           /\ \A a \in Blocks \X Sizes : SizeOf[a] \in Nat /\ SizeOf[a] = a[2]
<1>1. ASSUME NEW a \in Blocks \X Sizes PROVE SizeOf[a] \in Nat /\ SizeOf[a] = a[2]
  <2>1. SizeOf[a] = a[2]
    BY DEF SizeOf
  <2>2. a[2] \in Sizes /\ Sizes \subseteq Nat
    BY CudaAssumption
  <2> QED
    BY <2>1, <2>2
<1>2. pool.allocations \subseteq Blocks \X Sizes
  BY DEF PoolOK
<1> QED
  BY <1>1, <1>2

LEMMA AllocateSums ==
    ASSUME StartInv, PoolInv, NEW n \in Sizes, Allocate(n)
    PROVE  PoolInv'
<1>0. OwnershipInv /\ PoolOK
  BY DEF StartInv, OwnershipInv, CudaOK
<1>1. PICK b \in Blocks \ live :
         pool' = [allocations |-> pool.allocations \cup {<<b, n>>},
                  used |-> pool.used + n,
                  peak |-> Larger(pool.peak, pool.used + n)]
  BY DEF Allocate
<1> DEFINE new == <<b, n>>
<1>2. new \in Blocks \X Sizes /\ new[1] = b /\ SizeOf[new] = n /\ n \in Int
  BY <1>0, SizesOf, CudaAssumption
<1>3. pool'.allocations = pool.allocations \cup {new}
  BY <1>1
<1> HIDE DEF new
<1>4. \A a \in pool.allocations : a[1] # b
  BY <1>0, <1>1, BlocksOrderly DEF Orderly, Other, Remembered
<1>5. new \notin pool.allocations
  BY <1>2, <1>4
<1>6. /\ IsFiniteSet(pool.allocations)
      /\ \A a \in pool.allocations : SizeOf[a] \in Int
  BY <1>0, SizesOf DEF PoolInv
<1>7. SumFunctionOnSet(SizeOf, pool'.allocations) =
         SumFunctionOnSet(SizeOf, pool.allocations) + n
  BY <1>2, <1>3, <1>5, <1>6, SumAdd
<1>8. IsFiniteSet(pool'.allocations)
  BY <1>3, <1>6, FS_AddElement
<1>9. pool'.used = SumFunctionOnSet(SizeOf, pool'.allocations)
  BY <1>1, <1>7 DEF PoolInv, PoolAccounts
<1>10. pool'.used <= pool'.peak
  BY <1>0, <1>1, <1>2 DEF Larger, PoolOK
<1>11. \A a, c \in pool'.allocations : a[1] = c[1] => a = c
  BY <1>2, <1>3, <1>4 DEF PoolInv, PoolAccounts
<1>12. SizeOf' = SizeOf
  BY DEF SizeOf
<1> QED
  BY <1>8, <1>9, <1>10, <1>11, <1>12 DEF PoolInv, PoolAccounts

LEMMA DeallocateSums ==
    ASSUME StartInv, PoolInv, NEW b \in Blocks, Deallocate(b)
    PROVE  PoolInv'
<1>0. PoolOK
  BY DEF StartInv, OwnershipInv, CudaOK
<1>1. PICK a \in Ours(b) :
         pool' = [pool EXCEPT !.allocations = @ \ {a}, !.used = @ - a[2]]
  BY DEF Deallocate
<1>2. /\ a \in pool.allocations /\ SizeOf[a] = a[2] /\ SizeOf[a] \in Nat
      /\ pool'.allocations = pool.allocations \ {a}
      /\ pool'.used = pool.used - a[2] /\ pool'.peak = pool.peak
  <2>1. a \in pool.allocations /\ a \in Blocks \X Sizes
    BY <1>0, <1>1 DEF Ours, PoolOK
  <2> QED
    BY <1>0, <1>1, <2>1, SizesOf DEF PoolOK
<1>3. /\ IsFiniteSet(pool.allocations)
      /\ \A c \in pool.allocations : SizeOf[c] \in Int
  BY <1>0, SizesOf DEF PoolInv
<1>4. SumFunctionOnSet(SizeOf, pool.allocations) =
         SizeOf[a] + SumFunctionOnSet(SizeOf, pool.allocations \ {a})
  BY <1>2, <1>3, SumTake
<1>5. IsFiniteSet(pool'.allocations)
  BY <1>2, <1>3, FS_RemoveElement
<1>6. SumFunctionOnSet(SizeOf, pool'.allocations) \in Int
  BY <1>2, <1>3, <1>5, SumType
<1>7. pool'.used = SumFunctionOnSet(SizeOf, pool'.allocations)
  BY <1>2, <1>4, <1>6 DEF PoolInv, PoolAccounts
<1>8. pool'.used <= pool'.peak
  BY <1>0, <1>2 DEF PoolInv, PoolAccounts, PoolOK
<1>9. \A c, d \in pool'.allocations : c[1] = d[1] => c = d
  BY <1>2 DEF PoolInv, PoolAccounts
<1>10. SizeOf' = SizeOf
  BY DEF SizeOf
<1> QED
  BY <1>5, <1>7, <1>8, <1>9, <1>10 DEF PoolInv, PoolAccounts

LEMMA EmptySums == pool = EmptyPool => PoolInv
BY SumEmpty, FS_EmptySet DEF PoolInv, PoolAccounts, EmptyPool

LEMMA EmptySumsNext == pool' = EmptyPool => PoolInv'
BY SumEmpty, FS_EmptySet DEF PoolInv, PoolAccounts, EmptyPool

LEMMA NextSums == StartInv /\ PoolInv /\ [SNext]_svars => PoolInv'
<1> SUFFICES ASSUME StartInv, PoolInv, [SNext]_svars PROVE PoolInv'
  OBVIOUS
<1>1. CASE UNCHANGED pool
  BY <1>1 DEF PoolInv, PoolAccounts, SizeOf
<1>2. ASSUME Main PROVE PoolInv'
  BY <1>1, <1>2 DEF Main, LoadFromFile, EnvThrows, LoadFromEnv, InitContext, OnnxService,
     OnnxThrows, Fallback, CpuService, LoadCorpus, StartServer, cvars
<1>3. ASSUME CNext PROVE PoolInv'
  <2>1. ASSUME NEW o \in Owners, Destruct(o) \/ \E n \in Sizes \cup {0} : Construct(o, n)
        PROVE  PoolInv'
    BY <1>1, <2>1 DEF Destruct, Construct
  <2>2. ASSUME NEW o \in Owners, NEW p \in Owners, MoveConstruct(o, p) \/ MoveAssign(o, p)
        PROVE  PoolInv'
    BY <1>1, <2>2 DEF MoveConstruct, MoveAssign
  <2>3. ASSUME CreateStream \/ \E h \in Handles : DestroyStream(h) PROVE PoolInv'
    BY <1>1, <2>3 DEF CreateStream, DestroyStream
  <2>4. ASSUME NEW n \in Sizes, Allocate(n) PROVE PoolInv'
    BY <2>4, AllocateSums
  <2>5. ASSUME NEW b \in Blocks, Deallocate(b) PROVE PoolInv'
    BY <2>5, DeallocateSums
  <2>6. ASSUME DestroyPool PROVE PoolInv'
    BY <2>6, EmptySumsNext DEF DestroyPool
  <2> QED
    BY <1>3, <2>1, <2>2, <2>3, <2>4, <2>5, <2>6 DEF CNext
<1>4. CASE UNCHANGED svars
  BY <1>1, <1>4 DEF svars, cvars
<1> QED
  BY <1>2, <1>3, <1>4 DEF SNext

(* The bytes the pool says it uses are those of its allocations, whatever is  *)
(* allocated, given back or refused.                                         *)
THEOREM PoolAddsUp == SSpec => []PoolAccounts
<1>1. SInit => PoolInv
  BY EmptySums DEF SInit, CInit
<1>2. PoolInv => PoolAccounts
  BY DEF PoolInv
<1> QED
  BY <1>1, <1>2, NextSums, AlwaysStarted, PTL DEF SSpec

================================================================================
