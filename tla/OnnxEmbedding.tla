----------------------------- MODULE OnnxEmbedding -----------------------------
(****************************************************************************)
(* The two embedding services behind one interface: main() makes the CPU    *)
(* service (CpuEmbedding.tla) or the one that runs an ONNX model            *)
(* (src/embedding/onnx_runtime.cpp), and its callers give either of them    *)
(* batches of texts.  The model itself is not in the repository: what it    *)
(* computes is named by the row of tokens it was computed from.             *)
(****************************************************************************)
EXTENDS CpuEmbedding

CONSTANTS
    Chars,          \* Texts -> the bytes of the text
    SeqLen,         \* config_.max_seq_length
    CLS             \* the token of position 0

ASSUME OnnxAssumption ==
    /\ Chars \in [Texts -> Seq(0..255)]
    /\ SeqLen \in Nat \ {0}

VARIABLE rank       \* dimensions of the model's output; 0 is the CPU service

ovars == <<evars, rank>>

OInit == Init /\ rank \in 0..3

(* Mutant of Token: the bytes are the tokens. *)
TokenOfByte(byte) == byte

Token(byte) == byte + 1

(* preprocess(): a row of tokens for each text, cut or padded with zeros;    *)
(* the token of position 0 takes the place of the first byte.                *)
Row(text) ==
    [j \in 1..SeqLen |-> IF j = 1 THEN CLS
                         ELSE IF j <= Len(Chars[text]) THEN Token(Chars[text][j])
                         ELSE 0]

(* The output of the model, vector by vector as it lies in memory: one for   *)
(* each text, or one for each token of each text.                            *)
Output(batch) ==
    IF rank = 2
    THEN [i \in DOMAIN batch |-> [row |-> Row(batch[i]), token |-> "all"]]
    ELSE [n \in 1..(Len(batch) * SeqLen) |->
            [row |-> Row(batch[(n - 1) \div SeqLen + 1]), token |-> (n - 1) % SeqLen]]

(* Mutant of Start: the offset is forgotten. *)
StartOfAll(i) == 1

(* output_data + i * hidden_dim *)
Start(i) == i

Embedding(batch, i) ==
    [text |-> batch[i], data |-> Output(batch)[Start(i)], alone |-> TRUE]

Answered(w) == texts' = [texts EXCEPT ![w] = <<>>]

(* encode_batch_async(), all of it on data of its own.  An output of one     *)
(* dimension yields no embeddings.                                           *)
Run(w) ==
    /\ rank > 0 /\ texts[w] # <<>>
    /\ results' = [results EXCEPT ![w] =
          IF rank = 1 THEN <<>>
          ELSE [i \in DOMAIN texts[w] |-> Embedding(texts[w], i)]]
    /\ Answered(w)
    /\ UNCHANGED <<generator, emb, drawing, alone, batches, rank>>

(* Run() throws, and so does the future. *)
RunThrows(w) ==
    /\ rank > 0 /\ texts[w] # <<>>
    /\ Answered(w)
    /\ UNCHANGED <<generator, emb, drawing, results, alone, batches, rank>>

ONext ==
    \E w \in Callers :
       \/ \E batch \in BatchesOf(MaxBatch) : EncodeBatch(w, batch) /\ UNCHANGED rank
       \/ rank = 0 /\ (Srand(w) \/ Rand(w) \/ Encoded(w)) /\ UNCHANGED rank
       \/ Run(w)
       \/ RunThrows(w)

OSpec == OInit /\ [][ONext]_ovars

-------------------------------------------------------------------------------
(* Encoded by one thread at a time, every text gets the numbers of its own   *)
(* seed from the first on in the CPU service, whatever was encoded before it *)
(* and whoever has encoded other texts since.                                *)
CpuDeterministic == rank = 0 => AloneIsDeterministic

Answers == UNION {{results[w][i] : i \in DOMAIN results[w]} : w \in Callers}

(* Whichever service is in use, an embedding is a function of the text: not  *)
(* of its place in a batch, of the other texts, or of the caller.  For the   *)
(* CPU service that is only so without interference, and for a model only if *)
(* its output has one vector for each text.                                  *)
FunctionOfText ==
    rank # 3 =>
        \A a, b \in Answers :
            a.alone /\ b.alone /\ a.text = b.text => a.data = b.data

(* Two texts get the same embedding exactly if they agree from the second    *)
(* byte on, as far as max_seq_length reaches: padding is no byte, but the    *)
(* first byte is lost to the token of position 0.                            *)
Reach(text) == [j \in {k \in 2..SeqLen : k <= Len(Chars[text])} |-> Chars[text][j]]

Distinguishes ==
    rank = 2 =>
        \A a, b \in Answers : a.data = b.data <=> Reach(a.text) = Reach(b.text)

================================================================================
