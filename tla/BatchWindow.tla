------------------------------ MODULE BatchWindow ------------------------------
(****************************************************************************)
(* How long a batch waits: background_loop() of                             *)
(* src/pipeline/query_batcher.cpp with a clock.  Time passes in ticks; a    *)
(* millisecond has Scale of them, as the code's microseconds have 1000.     *)
(* QueryBatcher.tla has the loop's locks and threads, and time as an order. *)
(****************************************************************************)
EXTENDS Integers, Sequences, SequencesExt

CONSTANTS
    Waits,          \* values of config_.max_wait_ms
    Triggers,       \* values of config_.max_batch_size
    Sizes,          \* what queries.size() of a batch may be
    Scale,          \* ticks of a millisecond
    IntHalf,        \* an int lies in -IntHalf..IntHalf - 1
    Jitter,         \* how late, at most, a wait ends and gets the mutex
    Encoding,       \* how long, at most, the service takes for a batch
    MaxBatches      \* bound on the batches submitted

ASSUME WindowAssumption ==
    /\ Waits \subseteq Int /\ Triggers \subseteq Int
    /\ Sizes \subseteq Nat \ {0}
    /\ Scale \in Nat \ {0} /\ IntHalf \in Nat \ {0}
    /\ Jitter \in Nat /\ Encoding \in Nat /\ MaxBatches \in Nat

VARIABLES
    max_wait_ms, max_batch_size,    \* the configuration
    limit,          \* the product the time trigger compares with
    pending,        \* batches in the queue: size and age
    remaining,      \* those the drain keeps
    out,            \* batches_to_dispatch
    pc,             \* the dispatcher: "wait", "drain" or "dispatch"
    timer,          \* ticks since its wait, or its present dispatch, began
    submitted       \* batches submitted

config == <<max_wait_ms, max_batch_size, limit>>
wvars  == <<config, pending, remaining, out, pc, timer, submitted>>

(* The value of n in an int, and of an int n in a size_t: as large as can be *)
(* if it was negative.                                                       *)
Signed(n)   == ((n + IntHalf) % (2 * IntHalf)) - IntHalf
Unsigned(n) == n % (2 * IntHalf)

(* Mutant of Products: the unit is converted twice. *)
ProductsTwice(wait) == {wait * Scale * Scale}

(* max_wait_ms * 1000 in int.  An overflow is undefined; a build wraps, or   *)
(* computes in the type of the comparison, which is wide enough.             *)
Products(wait) == {Signed(wait * Scale), wait * Scale}

Init ==
    /\ max_wait_ms \in Waits
    /\ max_batch_size \in Triggers
    /\ limit \in Products(max_wait_ms)
    /\ pending = <<>> /\ remaining = <<>> /\ out = <<>>
    /\ pc = "wait" /\ timer = 0
    /\ submitted = 0

(* submit(), which waits for the mutex while the queue is drained *)
Submit(n) ==
    /\ submitted < MaxBatches /\ pc # "drain"
    /\ submitted' = submitted + 1
    /\ pending' = Append(pending, [size |-> n, age |-> 0])
    /\ UNCHANGED <<config, remaining, out, pc, timer>>

(* The period of wait_for(): none if it is negative. *)
Period == IF max_wait_ms < 0 THEN 0 ELSE max_wait_ms * Scale

(* Mutant of Due: no size trigger. *)
DueByAge(b) == b.age >= limit

Due(b) == b.age >= limit \/ b.size >= Unsigned(max_batch_size)

(* The wait ends at its deadline or up to Jitter later.  The queue is drained *)
(* under the mutex, against one reading of the clock.                        *)
Wake ==
    /\ pc = "wait" /\ timer >= Period
    /\ pc' = "drain" /\ timer' = 0
    /\ UNCHANGED <<config, pending, remaining, out, submitted>>

Drain ==
    /\ pc = "drain" /\ pending # <<>>
    /\ LET b == Head(pending)
       IN  /\ out' = IF Due(b) THEN Append(out, b) ELSE out
           /\ remaining' = IF Due(b) THEN remaining ELSE Append(remaining, b)
    /\ pending' = Tail(pending)
    /\ UNCHANGED <<config, pc, timer, submitted>>

DrainEnd ==
    /\ pc = "drain" /\ pending = <<>>
    /\ pc' = "dispatch"
    /\ pending' = remaining /\ remaining' = <<>>
    /\ UNCHANGED <<config, out, timer, submitted>>

(* encode_batch_async() runs in the dispatcher, which is busy meanwhile. *)
Dispatch ==
    /\ pc = "dispatch" /\ out # <<>>
    /\ out' = Tail(out)
    /\ timer' = 0
    /\ UNCHANGED <<config, pending, remaining, pc, submitted>>

LoopAgain ==
    /\ pc = "dispatch" /\ out = <<>>
    /\ pc' = "wait" /\ timer' = 0
    /\ UNCHANGED <<config, pending, remaining, out, submitted>>

Aged(batches) == [i \in DOMAIN batches |-> [batches[i] EXCEPT !.age = @ + 1]]

(* Time passes, but not beyond what the dispatcher has to do by now. *)
Urgent ==
    \/ pc = "wait" /\ timer >= Period + Jitter
    \/ pc = "drain"
    \/ pc = "dispatch" /\ (out = <<>> \/ timer >= Encoding)

Tick ==
    /\ ~Urgent
    /\ timer' = timer + 1
    /\ pending' = Aged(pending)
    /\ out' = Aged(out)
    /\ UNCHANGED <<config, remaining, pc, submitted>>

Next ==
    \/ \E n \in Sizes : Submit(n)
    \/ Wake
    \/ Drain
    \/ DrainEnd
    \/ Dispatch
    \/ LoopAgain
    \/ Tick

Spec == Init /\ [][Next]_wvars

-------------------------------------------------------------------------------
(* A round of the loop: one wait, and the dispatch of what was in the queue  *)
(* beside the batch in question.                                             *)
Wait == Period + Jitter
Busy == (MaxBatches - 1) * Encoding

(* The age at which no batch is kept: max_wait_ms, whatever its product       *)
(* overflows to, but any that an int can hold if max_wait_ms is negative.    *)
Longest == IF max_wait_ms < 0 THEN IntHalf ELSE Period

Waiting == Range(pending) \cup Range(remaining)

(* A small batch is never in the queue for longer than two waits and one     *)
(* dispatch: it may come while the dispatcher sleeps, be kept at that        *)
(* wake-up, and is then old enough at the next.  With the dispatches ahead   *)
(* of its own, that bounds when it reaches the service.                      *)
WaitBounded ==
    /\ \A b \in Waiting : b.age <= Wait + Longest + Busy
    /\ \A b \in Range(out) : b.age <= Wait + Longest + Busy + Encoding

(* A batch that reaches max_batch_size is never kept: it leaves the queue at *)
(* the next wake-up, which it does not bring forward.  A negative            *)
(* max_batch_size converts to a size no batch reaches.                       *)
LargePrompt ==
    max_batch_size >= 0 =>
        \A b \in Waiting : b.size >= max_batch_size => b.age <= Wait + Busy

================================================================================
