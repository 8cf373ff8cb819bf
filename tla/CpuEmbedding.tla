------------------------------ MODULE CpuEmbedding ------------------------------
(****************************************************************************)
(* The CPU embedding service (src/embedding/cpu_embedding.cpp): encode()    *)
(* seeds the process-wide generator of srand() and rand() from its text and *)
(* draws two numbers for each dimension.  encode_batch_async() does so for  *)
(* each text of a batch, in the thread that calls it: the dispatcher, and   *)
(* whoever calls flush().  A number is named by its seed and its place in   *)
(* the sequence the seed begins.                                            *)
(****************************************************************************)
EXTENDS Naturals, Sequences

CONSTANTS
    Callers,        \* threads that call encode_batch_async()
    Texts,
    Seed,           \* Texts -> the hash of the text; texts may share one
    Dimension,      \* dimension_
    MaxBatch,       \* bound on the texts of one batch
    Batches         \* bound on the batches of all callers

ASSUME EmbeddingAssumption ==
    /\ DOMAIN Seed = Texts
    /\ Dimension \in Nat \ {0} /\ MaxBatch \in Nat /\ Batches \in Nat

VARIABLES
    generator,      \* the state behind srand() and rand()
    texts,          \* per caller: the texts still to encode
    emb,            \* per caller: the numbers of the embedding so far
    drawing,        \* per caller: it has called srand() for Head(texts)
    results,        \* per caller: the embeddings of its batch, with their text
    alone,          \* per caller: nobody else has used the generator since
    batches         \* batches begun

evars == <<generator, texts, emb, drawing, results, alone, batches>>

(* The seed of a process that has not called srand(). *)
NoSeed == 1

Init ==
    /\ generator = [seed |-> NoSeed, drawn |-> 0]
    /\ texts = [w \in Callers |-> <<>>]
    /\ emb = [w \in Callers |-> <<>>]
    /\ drawing = [w \in Callers |-> FALSE]
    /\ results = [w \in Callers |-> <<>>]
    /\ alone = [w \in Callers |-> TRUE]
    /\ batches = 0

BatchesOf(n) == UNION {[1..k -> Texts] : k \in 1..n}

EncodeBatch(w, batch) ==
    /\ texts[w] = <<>>
    /\ batches < Batches
    /\ batches' = batches + 1
    /\ texts' = [texts EXCEPT ![w] = batch]
    /\ results' = [results EXCEPT ![w] = <<>>]
    /\ UNCHANGED <<generator, emb, drawing, alone>>

(* What a call of srand() or rand() by w means to the others. *)
Disturb(w) == [v \in Callers |-> alone[v] /\ v = w]

(* Mutant of Seeded: the generator is seeded once for the process. *)
SeededOnce(text) ==
    IF generator.seed = NoSeed THEN [seed |-> Seed[text], drawn |-> 0] ELSE generator

Seeded(text) == [seed |-> Seed[text], drawn |-> 0]

Srand(w) ==
    /\ texts[w] # <<>> /\ ~drawing[w]
    /\ generator' = Seeded(Head(texts[w]))
    /\ drawing' = [drawing EXCEPT ![w] = TRUE]
    /\ alone' = [Disturb(w) EXCEPT ![w] = TRUE]
    /\ UNCHANGED <<texts, emb, results, batches>>

(* rand(): the C library locks each call. *)
Rand(w) ==
    /\ drawing[w] /\ Len(emb[w]) < 2 * Dimension
    /\ generator' = [generator EXCEPT !.drawn = @ + 1]
    /\ emb' = [emb EXCEPT ![w] = Append(@, <<generator.seed, generator.drawn>>)]
    /\ alone' = Disturb(w)
    /\ UNCHANGED <<texts, drawing, results, batches>>

(* Normalised and appended to the batch; the next text is up. *)
Encoded(w) ==
    /\ drawing[w] /\ Len(emb[w]) = 2 * Dimension
    /\ results' = [results EXCEPT ![w] =
          Append(@, [text |-> Head(texts[w]), data |-> emb[w], alone |-> alone[w]])]
    /\ texts' = [texts EXCEPT ![w] = Tail(@)]
    /\ emb' = [emb EXCEPT ![w] = <<>>]
    /\ drawing' = [drawing EXCEPT ![w] = FALSE]
    /\ UNCHANGED <<generator, alone, batches>>

Next ==
    \E w \in Callers :
       \/ \E batch \in BatchesOf(MaxBatch) : EncodeBatch(w, batch)
       \/ Srand(w)
       \/ Rand(w)
       \/ Encoded(w)

Spec == Init /\ [][Next]_evars

-------------------------------------------------------------------------------
(* An embedding that nobody disturbed has the numbers of its text's own seed *)
(* from the first on, whatever was encoded before it and whoever has encoded *)
(* other texts since.                                                        *)
AloneIsDeterministic ==
    \A w \in Callers : \A i \in DOMAIN results[w] :
        results[w][i].alone =>
            results[w][i].data =
                [n \in 1..(2 * Dimension) |-> <<Seed[results[w][i].text], n - 1>>]

===============================================================================
