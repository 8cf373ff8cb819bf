---------------------------- MODULE EmbeddingProofs ----------------------------
(****************************************************************************)
(* Proofs about OnnxEmbedding and CpuEmbedding, for any callers, texts and  *)
(* batches, any seeds and any length of the model's rows.                   *)
(****************************************************************************)
EXTENDS OnnxEmbedding, SequenceTheorems, TLAPS

Seeds == {Seed[t] : t \in Texts} \cup {NoSeed}

(* What an embedding of the model can be made of, where its output has one   *)
(* vector for each text.                                                     *)
RowOf(text) == [row |-> Row(text), token |-> "all"]

(* The numbers that a text's own seed begins. *)
Numbers(text) == [n \in 1..(2 * Dimension) |-> <<Seed[text], n - 1>>]

Embeddings ==
    {e \in [text : Texts, data : Seq(Seeds \X Nat) \cup {RowOf(t) : t \in Texts},
            alone : BOOLEAN] :
        /\ rank \in {0, 2}
        /\ rank = 0 /\ e.alone = TRUE => e.data = Numbers(e.text)
        /\ rank = 2 => e.data = RowOf(e.text)}

(* The data of the callers. *)
CallersTyped ==
    /\ rank \in 0..3
    /\ generator \in [seed : Seeds, drawn : Nat]
    /\ texts \in [Callers -> Seq(Texts)]
    /\ emb \in [Callers -> Seq(Seeds \X Nat)]
    /\ drawing \in [Callers -> BOOLEAN]
    /\ alone \in [Callers -> BOOLEAN]
    /\ results \in [Callers -> Seq(Embeddings)] \/ rank = 3
    /\ DOMAIN results = Callers

(* The first numbers that the seed of a text begins. *)
Begins(numbers, text) ==
    \A n \in 1..Len(numbers) : numbers[n] = <<Seed[text], n - 1>>

(* A caller that draws has a text; its numbers so far, and the generator, are *)
(* those of its text, as long as it is alone.                                *)
CallerOK(w) ==
    /\ drawing[w] = TRUE => rank = 0 /\ texts[w] # <<>>
    /\ drawing[w] = FALSE => emb[w] = <<>>
    /\ drawing[w] = TRUE /\ alone[w] = TRUE =>
          /\ generator = [seed |-> Seed[Head(texts[w])], drawn |-> Len(emb[w])]
          /\ Begins(emb[w], Head(texts[w]))

EmbInv == CallersTyped /\ \A w \in Callers : CallerOK(w)

-------------------------------------------------------------------------------
LEMMA InitOK == OInit => EmbInv
<1> SUFFICES ASSUME OInit PROVE EmbInv
  OBVIOUS
<1> USE DEF OInit, Init
<1>1. generator \in [seed : Seeds, drawn : Nat]
  BY DEF Seeds
<1>2. texts \in [Callers -> Seq(Texts)]
  <2>1. <<>> \in Seq(Texts)
    OBVIOUS
  <2> QED
    BY <2>1
<1>3. emb \in [Callers -> Seq(Seeds \X Nat)]
  <2>1. <<>> \in Seq(Seeds \X Nat)
    OBVIOUS
  <2> QED
    BY <2>1
<1>4. results \in [Callers -> Seq(Embeddings)]
  <2>1. <<>> \in Seq(Embeddings)
    OBVIOUS
  <2> QED
    BY <2>1
<1>5. drawing \in [Callers -> BOOLEAN] /\ alone \in [Callers -> BOOLEAN]
  OBVIOUS
<1>6. \A w \in Callers : drawing[w] = FALSE /\ emb[w] = <<>>
  OBVIOUS
<1> QED
  BY <1>1, <1>2, <1>3, <1>4, <1>5, <1>6 DEF EmbInv, CallersTyped, CallerOK

LEMMA BatchOK ==
    ASSUME EmbInv, NEW w \in Callers, NEW batch \in BatchesOf(MaxBatch),
           EncodeBatch(w, batch), rank' = rank
    PROVE  EmbInv'
<1>1. /\ texts[w] = <<>>
      /\ texts' = [texts EXCEPT ![w] = batch] /\ results' = [results EXCEPT ![w] = <<>>]
      /\ UNCHANGED <<generator, emb, drawing, alone, rank>>
  BY DEF EncodeBatch
<1>2. batch \in Seq(Texts) /\ <<>> \in Seq(Embeddings)
  <2>1. PICK k \in 1..MaxBatch : batch \in [1..k -> Texts]
    BY DEF BatchesOf
  <2> QED
    BY <2>1, EmbeddingAssumption
<1>3. Embeddings' = Embeddings
  BY <1>1 DEF Embeddings
<1>4. CallersTyped'
  BY <1>1, <1>2, <1>3 DEF EmbInv, CallersTyped
<1>5. drawing[w] = FALSE
  BY <1>1 DEF EmbInv, CallersTyped, CallerOK
<1>6. \A v \in Callers \ {w} : texts'[v] = texts[v]
  BY <1>1 DEF EmbInv, CallersTyped
<1>7. \A v \in Callers : CallerOK(v)'
  BY <1>1, <1>5, <1>6 DEF EmbInv, CallerOK, Begins
<1> QED
  BY <1>4, <1>7 DEF EmbInv

LEMMA SrandOK ==
    ASSUME EmbInv, NEW w \in Callers, Srand(w), rank = 0, rank' = rank
    PROVE  EmbInv'
<1>1. /\ texts[w] # <<>> /\ ~drawing[w]
      /\ generator' = [seed |-> Seed[Head(texts[w])], drawn |-> 0]
      /\ drawing' = [drawing EXCEPT ![w] = TRUE]
      /\ alone' = [Disturb(w) EXCEPT ![w] = TRUE]
      /\ UNCHANGED <<texts, emb, results, rank>>
  BY DEF Srand, Seeded
<1>2. Head(texts[w]) \in Texts /\ emb[w] = <<>>
  BY <1>1 DEF EmbInv, CallersTyped, CallerOK
<1>3. /\ alone' \in [Callers -> BOOLEAN] /\ alone'[w] = TRUE
      /\ \A v \in Callers \ {w} : alone'[v] = FALSE
  BY <1>1 DEF Disturb
<1>4. /\ drawing' \in [Callers -> BOOLEAN] /\ drawing'[w] = TRUE
      /\ \A v \in Callers \ {w} : drawing'[v] = drawing[v]
  BY <1>1 DEF EmbInv, CallersTyped
<1>5. CallersTyped'
  <2>1. generator' \in [seed : Seeds, drawn : Nat]
    BY <1>1, <1>2 DEF Seeds
  <2>2. Embeddings' = Embeddings
    BY <1>1 DEF Embeddings
  <2> QED
    BY <1>1, <1>3, <1>4, <2>1, <2>2 DEF EmbInv, CallersTyped
<1>6. CallerOK(w)'
  <2>1. Begins(emb[w], Head(texts[w]))
    BY <1>2 DEF Begins
  <2>2. Len(emb[w]) = 0
    BY <1>2
  <2> QED
    BY <1>1, <1>2, <1>4, <2>1, <2>2 DEF CallerOK, Begins
<1>7. ASSUME NEW v \in Callers \ {w} PROVE CallerOK(v)'
  <2>1. alone'[v] = FALSE /\ drawing'[v] = drawing[v]
    BY <1>3, <1>4
  <2> QED
    BY <1>1, <2>1 DEF EmbInv, CallerOK
<1> QED
  BY <1>5, <1>6, <1>7 DEF EmbInv

LEMMA RandOK ==
    ASSUME EmbInv, NEW w \in Callers, Rand(w), rank' = rank
    PROVE  EmbInv'
<1> DEFINE number == <<generator.seed, generator.drawn>>
<1>1. /\ drawing[w] = TRUE
      /\ generator' = [generator EXCEPT !.drawn = generator.drawn + 1]
      /\ emb' = [emb EXCEPT ![w] = Append(emb[w], number)]
      /\ alone' = Disturb(w)
      /\ UNCHANGED <<texts, drawing, results, rank>>
  BY DEF Rand, EmbInv, CallersTyped
<1>2. /\ generator.seed \in Seeds /\ generator.drawn \in Nat
      /\ generator' = [seed |-> generator.seed, drawn |-> generator.drawn + 1]
  BY <1>1 DEF EmbInv, CallersTyped
<1>3. emb[w] \in Seq(Seeds \X Nat) /\ number \in Seeds \X Nat
  BY <1>2 DEF EmbInv, CallersTyped
<1> HIDE DEF number
<1>4. /\ emb'[w] = Append(emb[w], number)
      /\ emb' \in [Callers -> Seq(Seeds \X Nat)]
      /\ \A v \in Callers \ {w} : emb'[v] = emb[v]
  BY <1>1, <1>3 DEF EmbInv, CallersTyped
<1>5. /\ Len(emb'[w]) = Len(emb[w]) + 1
      /\ \A n \in 1..(Len(emb[w]) + 1) :
            emb'[w][n] = IF n <= Len(emb[w]) THEN emb[w][n] ELSE number
  BY <1>3, <1>4
<1>6. /\ alone' \in [Callers -> BOOLEAN] /\ alone'[w] = alone[w]
      /\ \A v \in Callers \ {w} : alone'[v] = FALSE
  BY <1>1 DEF Disturb, EmbInv, CallersTyped
<1>7. CallersTyped'
  <2>1. Embeddings' = Embeddings
    BY <1>1 DEF Embeddings
  <2>2. generator' \in [seed : Seeds, drawn : Nat]
    BY <1>2
  <2>3. emb' \in [Callers -> Seq(Seeds \X Nat)] /\ alone' \in [Callers -> BOOLEAN]
    BY <1>4, <1>6
  <2> QED
    BY <1>1, <2>1, <2>2, <2>3 DEF EmbInv, CallersTyped
<1>8. CallerOK(w)'
  <2>1. rank' = 0 /\ texts'[w] # <<>> /\ drawing'[w] = TRUE
    BY <1>1 DEF EmbInv, CallerOK
  <2>2. ASSUME alone'[w] = TRUE
        PROVE  /\ generator' = [seed |-> Seed[Head(texts'[w])], drawn |-> Len(emb'[w])]
               /\ Begins(emb'[w], Head(texts'[w]))
    <3>0. Len(emb[w]) \in Nat
      BY <1>3
    <3>1. /\ generator = [seed |-> Seed[Head(texts[w])], drawn |-> Len(emb[w])]
          /\ Begins(emb[w], Head(texts[w]))
      BY <1>1, <1>6, <2>2 DEF EmbInv, CallerOK
    <3>2. generator.seed = Seed[Head(texts[w])] /\ generator.drawn = Len(emb[w])
      BY <3>1
    <3>3. number = <<Seed[Head(texts[w])], Len(emb[w])>>
      BY <3>2 DEF number
    <3>4. ASSUME NEW n \in 1..(Len(emb[w]) + 1)
          PROVE  emb'[w][n] = <<Seed[Head(texts[w])], n - 1>>
      <4>1. CASE n <= Len(emb[w])
        <5>1. n \in 1..Len(emb[w])
          BY <3>0, <4>1
        <5>2. emb'[w][n] = emb[w][n]
          BY <1>5, <4>1
        <5> QED
          BY <3>1, <5>1, <5>2 DEF Begins
      <4>2. CASE ~(n <= Len(emb[w]))
        <5>1. n - 1 = Len(emb[w])
          BY <3>0, <4>2
        <5> QED
          BY <1>5, <3>3, <4>2, <5>1
      <4> QED
        BY <4>1, <4>2
    <3> QED
      BY <1>1, <1>2, <1>5, <3>2, <3>4 DEF Begins
  <2> QED
    BY <2>1, <2>2 DEF CallerOK
<1>9. ASSUME NEW v \in Callers \ {w} PROVE CallerOK(v)'
  <2>1. alone'[v] = FALSE /\ emb'[v] = emb[v]
    BY <1>4, <1>6
  <2> QED
    BY <1>1, <2>1 DEF EmbInv, CallerOK
<1> QED
  BY <1>7, <1>8, <1>9 DEF EmbInv

LEMMA EncodedOK ==
    ASSUME EmbInv, NEW w \in Callers, Encoded(w), rank' = rank
    PROVE  EmbInv'
<1> DEFINE e == [text |-> Head(texts[w]), data |-> emb[w], alone |-> alone[w]]
<1>1. /\ drawing[w] = TRUE /\ Len(emb[w]) = 2 * Dimension
      /\ results' = [results EXCEPT ![w] = Append(results[w], e)]
      /\ texts' = [texts EXCEPT ![w] = Tail(texts[w])]
      /\ emb' = [emb EXCEPT ![w] = <<>>]
      /\ drawing' = [drawing EXCEPT ![w] = FALSE]
      /\ UNCHANGED <<generator, alone, rank>>
  BY DEF Encoded, EmbInv, CallersTyped
<1>2. rank = 0 /\ texts[w] # <<>>
  BY <1>1 DEF EmbInv, CallerOK
<1>3. /\ Head(texts[w]) \in Texts /\ Tail(texts[w]) \in Seq(Texts)
      /\ emb[w] \in Seq(Seeds \X Nat) /\ alone[w] \in BOOLEAN
      /\ results[w] \in Seq(Embeddings)
  BY <1>2 DEF EmbInv, CallersTyped
<1>4. ASSUME alone[w] = TRUE PROVE emb[w] = Numbers(Head(texts[w]))
  <2>1. Begins(emb[w], Head(texts[w]))
    BY <1>1, <1>4 DEF EmbInv, CallerOK
  <2>2. DOMAIN emb[w] = 1..(2 * Dimension)
    BY <1>1, <1>3
  <2>3. emb[w] = [n \in DOMAIN emb[w] |-> emb[w][n]]
    BY <1>3
  <2> QED
    BY <1>1, <2>1, <2>2, <2>3 DEF Begins, Numbers
<1>5. e \in Embeddings
  <2>1. e.text = Head(texts[w]) /\ e.data = emb[w]
    OBVIOUS
  <2>2. e.alone = alone[w]
    OBVIOUS
  <2>3. e \in [text : Texts, data : Seq(Seeds \X Nat) \cup {RowOf(t) : t \in Texts},
               alone : BOOLEAN]
    BY <1>3
  <2>4. e.alone = TRUE => e.data = Numbers(e.text)
    BY <1>4, <2>1, <2>2
  <2> HIDE DEF e
  <2> QED
    BY <1>2, <2>3, <2>4 DEF Embeddings
<1> HIDE DEF e
<1>6. Append(results[w], e) \in Seq(Embeddings)
  BY <1>3, <1>5
<1>7. CallersTyped'
  <2>1. Embeddings' = Embeddings
    BY <1>1 DEF Embeddings
  <2>2. results \in [Callers -> Seq(Embeddings)]
    BY <1>2 DEF EmbInv, CallersTyped
  <2>3. results' \in [Callers -> Seq(Embeddings')]
    BY <1>1, <1>6, <2>1, <2>2
  <2>4. <<>> \in Seq(Seeds \X Nat)
    OBVIOUS
  <2>5. emb' \in [Callers -> Seq(Seeds \X Nat)]
    BY <1>1, <2>4 DEF EmbInv, CallersTyped
  <2> QED
    BY <1>1, <1>3, <2>3, <2>5 DEF EmbInv, CallersTyped
<1>8. drawing'[w] = FALSE /\ emb'[w] = <<>>
  BY <1>1 DEF EmbInv, CallersTyped
<1>9. ASSUME NEW v \in Callers \ {w} PROVE CallerOK(v)'
  <2>1. texts'[v] = texts[v] /\ emb'[v] = emb[v] /\ drawing'[v] = drawing[v]
    BY <1>1 DEF EmbInv, CallersTyped
  <2> QED
    BY <1>1, <2>1 DEF EmbInv, CallerOK
<1> QED
  BY <1>7, <1>8, <1>9 DEF EmbInv, CallerOK

(* The ONNX service: its answers are made of the caller's batch alone.       *)
LEMMA RunTyped ==
    ASSUME EmbInv, NEW w \in Callers, Run(w)
    PROVE  results' \in [Callers -> Seq(Embeddings)] \/ rank = 3
<1>1. texts[w] \in Seq(Texts) /\ rank \in 1..3
  BY DEF Run, EmbInv, CallersTyped
<1>2. CASE rank = 1
  <2>1. results' = [results EXCEPT ![w] = <<>>] /\ <<>> \in Seq(Embeddings)
    BY <1>2 DEF Run
  <2> QED
    BY <1>2, <2>1 DEF EmbInv, CallersTyped
<1>3. CASE rank = 2
  <2> DEFINE answers == [i \in DOMAIN texts[w] |-> Embedding(texts[w], i)]
  <2>1. results' = [results EXCEPT ![w] = answers]
    BY <1>3 DEF Run
  <2>2. ASSUME NEW i \in DOMAIN texts[w]
        PROVE  Embedding(texts[w], i) \in Embeddings
    <3>1. texts[w][i] \in Texts
      BY <1>1
    <3>2. Embedding(texts[w], i) = [text |-> texts[w][i], data |-> RowOf(texts[w][i]),
                                    alone |-> TRUE]
      BY <1>3 DEF Embedding, Output, Start, RowOf
    <3> QED
      BY <1>3, <3>1, <3>2 DEF Embeddings
  <2>3. answers \in [1..Len(texts[w]) -> Embeddings]
    BY <1>1, <2>2
  <2>4. answers \in Seq(Embeddings)
    <3> HIDE DEF answers
    <3> QED
      BY <1>1, <2>3
  <2> HIDE DEF answers
  <2> QED
    BY <1>3, <2>1, <2>4 DEF EmbInv, CallersTyped
<1> QED
  BY <1>1, <1>2, <1>3

LEMMA ModelOK ==
    ASSUME EmbInv, NEW w \in Callers, Run(w) \/ RunThrows(w)
    PROVE  EmbInv'
<1>1. /\ rank > 0 /\ texts' = [texts EXCEPT ![w] = <<>>]
      /\ UNCHANGED <<generator, emb, drawing, alone, rank>>
  BY DEF Run, RunThrows, Answered
<1>2. \A v \in Callers : drawing[v] = FALSE
  BY <1>1 DEF EmbInv, CallersTyped, CallerOK
<1>3. \A v \in Callers : CallerOK(v)'
  BY <1>1, <1>2 DEF EmbInv, CallerOK
<1>4. (results' \in [Callers -> Seq(Embeddings')] \/ rank' = 3) /\ DOMAIN results' = Callers
  <2>1. Embeddings' = Embeddings
    BY <1>1 DEF Embeddings
  <2>2. CASE Run(w)
    <3>1. DOMAIN results' = DOMAIN results
      BY <2>2 DEF Run
    <3> QED
      BY <1>1, <2>1, <2>2, <3>1, RunTyped DEF EmbInv, CallersTyped
  <2>3. CASE RunThrows(w)
    BY <1>1, <2>1, <2>3 DEF RunThrows, EmbInv, CallersTyped
  <2> QED
    BY <2>2, <2>3
<1>5. texts' \in [Callers -> Seq(Texts)]
  <2>1. <<>> \in Seq(Texts)
    OBVIOUS
  <2> QED
    BY <1>1, <2>1 DEF EmbInv, CallersTyped
<1> QED
  BY <1>1, <1>3, <1>4, <1>5 DEF EmbInv, CallersTyped

LEMMA NextOK == EmbInv /\ [ONext]_ovars => EmbInv'
<1> SUFFICES ASSUME EmbInv, [ONext]_ovars PROVE EmbInv'
  OBVIOUS
<1>1. CASE UNCHANGED ovars
  BY <1>1 DEF ovars, evars, EmbInv, CallersTyped, CallerOK, Embeddings, Begins
<1>2. ASSUME NEW w \in Callers, NEW batch \in BatchesOf(MaxBatch),
             EncodeBatch(w, batch), UNCHANGED rank
      PROVE  EmbInv'
  BY <1>2, BatchOK
<1>3. ASSUME NEW w \in Callers, rank = 0, Srand(w) \/ Rand(w) \/ Encoded(w), UNCHANGED rank
      PROVE  EmbInv'
  BY <1>3, SrandOK, RandOK, EncodedOK
<1>4. ASSUME NEW w \in Callers, Run(w) \/ RunThrows(w) PROVE EmbInv'
  BY <1>4, ModelOK
<1> QED
  BY <1>1, <1>2, <1>3, <1>4 DEF ONext

LEMMA EmbInvariant == OSpec => []EmbInv
  BY InitOK, NextOK, PTL DEF OSpec

(* Every answer the callers have.                                            *)
LEMMA AnswersOK ==
    ASSUME EmbInv, rank # 3
    PROVE  /\ \A w \in Callers : \A i \in DOMAIN results[w] : results[w][i] \in Embeddings
           /\ Answers \subseteq Embeddings
<1>1. \A w \in Callers : results[w] \in Seq(Embeddings)
  BY DEF EmbInv, CallersTyped
<1>2. \A w \in Callers : \A i \in DOMAIN results[w] : results[w][i] \in Embeddings
  BY <1>1
<1> QED
  BY <1>2 DEF Answers

-------------------------------------------------------------------------------
(* An embedding of the CPU service that nobody disturbed has the numbers of  *)
(* its text's own seed, whatever was encoded before and since.               *)
THEOREM CpuIsDeterministic == OSpec => []CpuDeterministic
<1>1. EmbInv => CpuDeterministic
  <2> SUFFICES ASSUME EmbInv, rank = 0, NEW w \in Callers, NEW i \in DOMAIN results[w],
                      results[w][i].alone
               PROVE  results[w][i].data =
                          [n \in 1..(2 * Dimension) |-> <<Seed[results[w][i].text], n - 1>>]
    BY DEF CpuDeterministic, AloneIsDeterministic
  <2>1. PICK e \in Embeddings : e = results[w][i]
    BY AnswersOK
  <2>2. e.alone = TRUE
    BY <2>1 DEF Embeddings
  <2>3. e.data = Numbers(e.text)
    BY <2>2 DEF Embeddings
  <2> QED
    BY <2>1, <2>3 DEF Numbers
<1> QED
  BY <1>1, EmbInvariant, PTL

(* An embedding depends on its text only: not on its place in a batch, on    *)
(* the other texts or on the caller.                                         *)
THEOREM DependsOnTextOnly == OSpec => []FunctionOfText
<1>1. EmbInv => FunctionOfText
  <2> SUFFICES ASSUME EmbInv, rank # 3, NEW a \in Answers, NEW b \in Answers,
                      a.alone, b.alone, a.text = b.text
               PROVE  a.data = b.data
    BY DEF FunctionOfText
  <2>1. a \in Embeddings /\ b \in Embeddings
    BY AnswersOK
  <2>2. a.alone = TRUE /\ b.alone = TRUE
    BY <2>1 DEF Embeddings
  <2> QED
    BY <2>1, <2>2 DEF Embeddings
<1> QED
  BY <1>1, EmbInvariant, PTL

LEMMA RowTokens ==
    ASSUME NEW text \in Texts, NEW j \in 2..SeqLen
    PROVE  /\ j <= Len(Chars[text]) => /\ Chars[text][j] \in 0..255
                                      /\ Row(text)[j] = Chars[text][j] + 1
           /\ ~(j <= Len(Chars[text])) => Row(text)[j] = 0
<1>1. SeqLen \in Nat /\ Chars[text] \in Seq(0..255)
  BY OnnxAssumption
<1>2. j \in 1..SeqLen /\ j # 1
  BY <1>1
<1>3. Row(text)[j] = IF j <= Len(Chars[text]) THEN Chars[text][j] + 1 ELSE 0
  BY <1>2 DEF Row, Token
<1>4. j <= Len(Chars[text]) => j \in 1..Len(Chars[text])
  BY <1>1, <1>2
<1>5. j <= Len(Chars[text]) => Chars[text][j] \in 0..255
  BY <1>1, <1>4, ElementOfSeq
<1> QED
  BY <1>3, <1>5

(* The rows of two texts are equal exactly if the texts agree from the second *)
(* byte on as far as a row reaches: a token of a byte is never padding.      *)
LEMMA RowsAgree ==
    ASSUME NEW s \in Texts, NEW t \in Texts
    PROVE  Row(s) = Row(t) <=> Reach(s) = Reach(t)
<1> DEFINE In(text) == {k \in 2..SeqLen : k <= Len(Chars[text])}
<1>1. SeqLen \in Nat \ {0} /\ Chars[s] \in Seq(0..255) /\ Chars[t] \in Seq(0..255)
  BY OnnxAssumption
<1>2. ASSUME NEW j \in 2..SeqLen
      PROVE  /\ j \in In(s) => Chars[s][j] \in 0..255 /\ Row(s)[j] = Chars[s][j] + 1
             /\ j \notin In(s) => Row(s)[j] = 0
             /\ j \in In(t) => Chars[t][j] \in 0..255 /\ Row(t)[j] = Chars[t][j] + 1
             /\ j \notin In(t) => Row(t)[j] = 0
  BY RowTokens
<1>3. /\ DOMAIN Reach(s) = In(s) /\ DOMAIN Reach(t) = In(t)
      /\ \A j \in In(s) : Reach(s)[j] = Chars[s][j]
      /\ \A j \in In(t) : Reach(t)[j] = Chars[t][j]
  BY DEF Reach
<1>4. /\ Row(s) = [j \in 1..SeqLen |-> Row(s)[j]] /\ Row(t) = [j \in 1..SeqLen |-> Row(t)[j]]
      /\ Row(s)[1] = CLS /\ Row(t)[1] = CLS
  BY <1>1 DEF Row
<1>5. ASSUME Row(s) = Row(t) PROVE Reach(s) = Reach(t)
  <2>1. ASSUME NEW j \in 2..SeqLen
        PROVE  /\ j \in In(s) <=> j \in In(t)
               /\ j \in In(s) => Chars[s][j] = Chars[t][j]
    <3> HIDE DEF In
    <3>1. Row(s)[j] = Row(t)[j]
      BY <1>5
    <3>2. /\ j \in In(s) => Chars[s][j] \in 0..255 /\ Row(s)[j] = Chars[s][j] + 1
          /\ j \in In(t) => Chars[t][j] \in 0..255 /\ Row(t)[j] = Chars[t][j] + 1
          /\ j \notin In(s) => Row(s)[j] = 0
          /\ j \notin In(t) => Row(t)[j] = 0
      BY <1>2
    <3>3. CASE j \in In(s) /\ j \in In(t)
      <4>1. Chars[s][j] \in Int /\ Chars[t][j] \in Int /\ Chars[s][j] + 1 = Chars[t][j] + 1
        BY <3>1, <3>2, <3>3
      <4>2. Chars[s][j] = Chars[t][j]
        BY <4>1
      <4> QED
        BY <3>3, <4>2
    <3>4. ASSUME j \in In(s), j \notin In(t) PROVE FALSE
      BY <3>1, <3>2, <3>4
    <3>5. ASSUME j \notin In(s), j \in In(t) PROVE FALSE
      BY <3>1, <3>2, <3>5
    <3> QED
      BY <3>3, <3>4, <3>5
  <2>2. In(s) = In(t)
    BY <2>1
  <2>3. \A j \in In(s) : Chars[s][j] = Chars[t][j]
    BY <2>1
  <2> QED
    BY <2>2, <2>3 DEF Reach
<1>6. ASSUME Reach(s) = Reach(t) PROVE Row(s) = Row(t)
  <2>1. In(s) = In(t) /\ \A j \in In(s) : Chars[s][j] = Chars[t][j]
    BY <1>3, <1>6
  <2>2. \A j \in 2..SeqLen : Row(s)[j] = Row(t)[j]
    BY <1>2, <2>1
  <2>3. ASSUME NEW j \in 1..SeqLen PROVE Row(s)[j] = Row(t)[j]
    <3>1. j = 1 \/ j \in 2..SeqLen
      BY <1>1
    <3> QED
      BY <1>4, <2>2, <3>1
  <2> QED
    BY <1>4, <2>3
<1> QED
  BY <1>5, <1>6

(* Two texts have the same embedding exactly if they agree from the second   *)
(* byte on, as far as max_seq_length reaches.                                *)
THEOREM TellsTextsApart == OSpec => []Distinguishes
<1>1. EmbInv => Distinguishes
  <2> SUFFICES ASSUME EmbInv, rank = 2, NEW a \in Answers, NEW b \in Answers
               PROVE  a.data = b.data <=> Reach(a.text) = Reach(b.text)
    BY DEF Distinguishes
  <2>1. a \in Embeddings /\ b \in Embeddings
    BY AnswersOK
  <2>2. /\ a.text \in Texts /\ b.text \in Texts
        /\ a.data = RowOf(a.text) /\ b.data = RowOf(b.text)
    BY <2>1 DEF Embeddings
  <2>3. a.data = b.data <=> Row(a.text) = Row(b.text)
    BY <2>2 DEF RowOf
  <2> QED
    BY <2>2, <2>3, RowsAgree
<1> QED
  BY <1>1, EmbInvariant, PTL

================================================================================
