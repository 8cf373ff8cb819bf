------------------------------- MODULE CudaUtils -------------------------------
(****************************************************************************)
(* The CUDA utilities (src/common/cuda_utils.cpp): the context of the       *)
(* process, the owning wrappers CUDAMemory and CUDAStream with their moves, *)
(* and the memory pool.  An allocation on the device and a stream are both  *)
(* resources; the wrappers differ in bytes_ only.  The CUDA runtime is      *)
(* external: any allocation may fail.                                       *)
(****************************************************************************)
EXTENDS Integers, Functions

CONSTANTS
    Memories,       \* objects of class CUDAMemory
    Streams,        \* objects of class CUDAStream
    Blocks,         \* addresses of device memory
    Handles,        \* handles of streams
    Sizes,          \* sizes callers ask for
    Absent,         \* the object is not constructed
    Null            \* nullptr

Owners == Memories \cup Streams
Resources(o) == IF o \in Memories THEN Blocks ELSE Handles

ASSUME CudaAssumption ==
    /\ Memories \cap Streams = {} /\ Blocks \cap Handles = {}
    /\ {Absent, Null} \cap (Blocks \cup Handles) = {} /\ Absent # Null
    /\ Sizes \subseteq Nat \ {0}

VARIABLES
    device_count,   \* what cudaGetDeviceCount() finds
    context,        \* CUDAContext: available_, device_id_, managed_streams_
    live,           \* resources the runtime has handed out
    own,            \* per owner: ptr_ or stream_
    bytes,          \* per CUDAMemory: bytes_
    pool,           \* CUDAMemoryPool: allocations, used_bytes_, peak_bytes_
    freed,          \* history: resources that were freed when they were not live
    strayed         \* history: handles the context managed that it had not made,
                    \* or destroyed that it did not manage

gpu   == <<device_count, context>>
cvars == <<gpu, live, own, bytes, pool, freed, strayed>>

NoContext == [available |-> FALSE, device |-> 0, streams |-> {}]
EmptyPool == [allocations |-> {}, used |-> 0, peak |-> 0]

CInit ==
    /\ context = NoContext
    /\ live = {}
    /\ own = [o \in Owners |-> Absent]
    /\ bytes = [m \in Memories |-> 0]
    /\ pool = EmptyPool
    /\ freed = {} /\ strayed = {}

(* CUDAContext(): the current device of a fresh process is the first. *)
MakeContext ==
    context' = [context EXCEPT !.available = device_count > 0]

Present(id) == id \in 0..(device_count - 1)

(* Mutant of Clamped: the device is taken as it is. *)
ClampedNever(id) == id

Clamped(id) == IF Present(id) THEN id ELSE 0

SetDevice(id) ==
    context' = IF context.available THEN [context EXCEPT !.device = Clamped(id)]
               ELSE context

-------------------------------------------------------------------------------
(* cudaFree() and cudaStreamDestroy() *)
Free(resources) ==
    /\ live' = live \ resources
    /\ freed' = freed \cup (resources \ live)

Held(o) == {own[o]} \ {Absent, Null}

SetBytes(o, n) == bytes' = [m \in Memories |-> IF m = o THEN n ELSE bytes[m]]

(* The constructors, n = 0 for the default one of CUDAMemory.  Without a     *)
(* device, or if the runtime has nothing to give, the object is null, and a  *)
(* CUDAMemory has its bytes_ all the same.                                   *)
Construct(o, n) ==
    /\ own[o] = Absent
    /\ \/ /\ context.available /\ n > 0
          /\ \E r \in Resources(o) \ live :
                own' = [own EXCEPT ![o] = r] /\ live' = live \cup {r}
       \/ own' = [own EXCEPT ![o] = Null] /\ UNCHANGED live
    /\ SetBytes(o, n)
    /\ UNCHANGED <<gpu, pool, freed, strayed>>

Destruct(o) ==
    /\ own[o] # Absent
    /\ Free(Held(o))
    /\ own' = [own EXCEPT ![o] = Absent]
    /\ SetBytes(o, 0)
    /\ UNCHANGED <<gpu, pool, strayed>>

(* What a move leaves in its source. Its mutant leaves it as it was. *)
SourceKept(o) == own[o]
Source(o)     == Null

Moved(o, p) ==
    /\ own' = [own EXCEPT ![o] = own[p], ![p] = Source(p)]
    /\ bytes' = [m \in Memories |-> IF m = o THEN bytes[p]
                                    ELSE IF m = p THEN 0 ELSE bytes[m]]

SameClass(o, p) == o \in Memories <=> p \in Memories

MoveConstruct(o, p) ==
    /\ SameClass(o, p)
    /\ own[o] = Absent /\ own[p] # Absent
    /\ Moved(o, p)
    /\ UNCHANGED <<gpu, live, pool, freed, strayed>>

(* Assigned to itself an object stays as it is. *)
MoveAssign(o, p) ==
    /\ SameClass(o, p)
    /\ own[o] # Absent /\ own[p] # Absent
    /\ \/ o = p /\ UNCHANGED <<own, bytes, live, freed>>
       \/ o # p /\ Free(Held(o)) /\ Moved(o, p)
    /\ UNCHANGED <<gpu, pool, strayed>>

-------------------------------------------------------------------------------
(* create_stream() and destroy_stream() of the context.  If the runtime has  *)
(* no stream to give, create_stream() hands out, and manages, what happened  *)
(* to be in the variable.                                                    *)
CreateStream ==
    /\ context.available
    /\ \E h \in Handles :
          /\ context' = [context EXCEPT !.streams = @ \cup {h}]
          /\ \/ h \notin live /\ live' = live \cup {h} /\ UNCHANGED strayed
             \/ strayed' = strayed \cup {h} /\ UNCHANGED live
    /\ UNCHANGED <<device_count, own, bytes, pool, freed>>

(* Callers may pass any handle, and it is destroyed whoever's it is: one of  *)
(* the context, one that was destroyed before, or that of a CUDAStream.      *)
DestroyStream(h) ==
    /\ context.available
    /\ Free({h})
    /\ strayed' = strayed \cup ({h} \ context.streams)
    /\ context' = [context EXCEPT !.streams = @ \ {h}]
    /\ UNCHANGED <<device_count, own, bytes, pool>>

-------------------------------------------------------------------------------
(* CUDAMemoryPool; allocate() that fails has no effect. *)
Larger(a, b) == IF a > b THEN a ELSE b

Allocate(n) ==
    /\ context.available
    /\ \E b \in Blocks \ live :
          /\ live' = live \cup {b}
          /\ pool' = [allocations |-> pool.allocations \cup {<<b, n>>},
                      used |-> pool.used + n,
                      peak |-> Larger(pool.peak, pool.used + n)]
    /\ UNCHANGED <<gpu, own, bytes, freed, strayed>>

(* Mutant of Ours: any address is freed. *)
OursAny(b) == {<<b, CHOOSE n \in Sizes : TRUE>>}

Ours(b) == {a \in pool.allocations : a[1] = b}

(* Callers may pass any address; only one of the pool is freed. *)
Deallocate(b) ==
    /\ \E a \in Ours(b) :
          /\ Free({b})
          /\ pool' = [pool EXCEPT !.allocations = @ \ {a}, !.used = @ - a[2]]
    /\ UNCHANGED <<gpu, own, bytes, strayed>>

Remembered == {a[1] : a \in pool.allocations}

DestroyPool ==
    /\ Free(Remembered)
    /\ pool' = EmptyPool
    /\ UNCHANGED <<gpu, own, bytes, strayed>>

CNext ==
    \/ \E o \in Owners : Destruct(o) \/ \E n \in Sizes \cup {0} : Construct(o, n)
    \/ \E o, p \in Owners : MoveConstruct(o, p) \/ MoveAssign(o, p)
    \/ CreateStream
    \/ \E h \in Handles : DestroyStream(h)
    \/ \E n \in Sizes : Allocate(n)
    \/ \E b \in Blocks : Deallocate(b)
    \/ DestroyPool

-------------------------------------------------------------------------------
(* A resource that is live has one owner, a wrapper, the pool or the         *)
(* context; one that is not has none, and none is ever freed that is not     *)
(* live.  For memory that holds through any sequence of constructions,       *)
(* moves, refusals and destructions, addresses given back twice or foreign,  *)
(* and whatever is done to streams.  For a stream it holds as long as this   *)
(* very handle is not managed without having been made, nor destroyed        *)
(* without being managed: what that does to one handle spoils no other.      *)
OwnedOnce ==
    \A r \in (Blocks \cup Handles) \ strayed :
       /\ r \notin freed
       /\ r \in live <=> (\E o \in Owners : own[o] = r)
                         \/ r \in Remembered \cup context.streams
       /\ \A o, p \in Owners : own[o] = r /\ own[p] = r => o = p
       /\ \A o \in Owners : own[o] = r => r \notin Remembered \cup context.streams

SizeOf == [a \in Blocks \X Sizes |-> a[2]]

(* used_bytes_ is what the pool's allocations add up to, each of them of its *)
(* own address, and never more than peak_bytes_.                             *)
PoolAccounts ==
    /\ pool.used = SumFunctionOnSet(SizeOf, pool.allocations)
    /\ pool.used <= pool.peak
    /\ \A a, b \in pool.allocations : a[1] = b[1] => a = b

================================================================================
