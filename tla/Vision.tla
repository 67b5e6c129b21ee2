------------------------------- MODULE Vision -------------------------------
(***************************************************************************)
(* What the vision and embedding models do around their networks: text     *)
(* boxes from a probability map (vision/ocr/detection.rs), the image       *)
(* scaled and mapped back (ocr/preprocessing.rs), text from the classes of *)
(* the recogniser (ocr/recognition.rs), the regions of a page              *)
(* (ocr/model.rs), captions (florence/decoder.rs, florence/model.rs) and   *)
(* sentence embeddings of a batch (embeddings/onnx_model.rs).  A behaviour *)
(* takes one input of one of them; the networks may answer anything.       *)
(***************************************************************************)
EXTENDS Integers, Sequences, FiniteSets, FiniteSetsExt, SequencesExt

CONSTANTS GridW, GridH,     \* the probability map
          MinRegion,        \* a region has more pixels than this (10)
          Letters,          \* characters of a recognised text: letters, digits, "." and others
          VisDigits,        \* the digits among them
          Words,            \* the common words, as sequences of characters
          MaxText,          \* bound on the length of a text
          Dictionary,       \* the characters of the classes 1, 2, ...; class 0 is the blank
          VisTokens,        \* token ids; 0 is the beginning and 1 the end of a sequence
          MaskLast,         \* tokens that may not come again (5)
          MaxCaption,       \* max_tokens of a caption
          TargetSize,       \* OCR_INPUT_SIZE
          ImageSides,       \* widths and heights of images
          BatchTexts        \* texts of a batch, as sequences of tokens

ASSUME VisAssumption ==
    /\ GridW \in Nat \ {0} /\ GridH \in Nat \ {0} /\ MinRegion \in Nat /\ MaxText \in Nat
    /\ Dictionary \in Seq(Letters) /\ {0, 1} \subseteq VisTokens /\ MaskLast \in Nat /\ MaxCaption \in Nat
    /\ TargetSize \in Nat \ {0} /\ ImageSides \subseteq Nat \ {0}

VARIABLE vis   \* the part, its input, what came of it, and how far it is

Pixels == (1 .. GridW) \X (1 .. GridH)
TextsOf(S) == UNION {[1 .. n -> S] : n \in 0 .. MaxText}

VisInputs ==
    [detect |-> SUBSET Pixels, ctc |-> TextsOf(0 .. Len(Dictionary) + 1), spaces |-> TextsOf(Letters),
     resize |-> ImageSides \X ImageSides, caption |-> {<<0>> \o p : p \in TextsOf(VisTokens \ {0, 1})},
     batch |-> UNION {[1 .. n -> BatchTexts] : n \in 1 .. 2}]

VisInit ==
    \E part \in DOMAIN VisInputs : \E in \in VisInputs[part] :
        vis = [part |-> part, in |-> in, out |-> IF part = "caption" THEN in ELSE <<>>, pc |-> "run"]

VisDone(part, out, pc) == vis.part = part /\ vis.pc = "run" /\ vis' = [vis EXCEPT !.out = out, !.pc = pc]

-----------------------------------------------------------------------------
(* OcrDetectionModel: pixels at or above the threshold are text.           *)

\* The neighbours pushed, in their order; the last is popped first.
PushedBy(p) ==
    LET around == <<<<p[1] - 1, p[2]>>, <<p[1] + 1, p[2]>>, <<p[1], p[2] - 1>>, <<p[1], p[2] + 1>>>>
    IN SelectSeq(around, LAMBDA q : q \in Pixels)

\* One turn of flood_fill: the top of the stack is popped, and marked unless it is.
FillStep(text, s) ==
    IF s.stack = <<>> THEN s
    ELSE LET p == Last(s.stack)
         IN IF p \in s.visited \/ p \notin text THEN [s EXCEPT !.stack = Front(@)]
            ELSE [stack |-> Front(s.stack) \o PushedBy(p), visited |-> s.visited \cup {p}]

\* flood_fill: a stack of pixels, a visited map shared by all fills.  A pixel is marked
\* once and then pushes at most four, so that many turns empty the stack.
FloodFill(text, start, visited) ==
    LET turns == 1 + 4 * GridW * GridH
        fill[n \in 0 .. turns] ==
            IF n = 0 THEN [stack |-> <<start>>, visited |-> visited] ELSE FillStep(text, fill[n - 1])
    IN fill[turns].visited

BoxOf(S) ==
    LET xs == {p[1] : p \in S}  ys == {p[2] : p \in S}
    IN [x |-> Min(xs), y |-> Min(ys), width |-> Max(xs) - Min(xs) + 1, height |-> Max(ys) - Min(ys) + 1]

\* parse_detection_output, with a map of the size of the input: rows from the top, each
\* from the left; small regions are dropped.
NextRegion(text, acc, i) ==
    LET p == <<((i - 1) % GridW) + 1, ((i - 1) \div GridW) + 1>>
        now == FloodFill(text, p, acc.visited)
        region == now \ acc.visited
    IN IF p \notin text \/ p \in acc.visited THEN acc
       ELSE [visited |-> now,
             boxes |-> IF Cardinality(region) > MinRegion THEN Append(acc.boxes, BoxOf(region)) ELSE acc.boxes]
Regions(text) ==
    FoldLeft(LAMBDA acc, i : NextRegion(text, acc, i), [visited |-> {}, boxes |-> <<>>],
             [i \in 1 .. GridW * GridH |-> i]).boxes

\* sort_by is stable.
SortedBy(keys, s) ==
    LET order == SetToSortSeq(DOMAIN s, LAMBDA i, j : keys[i] < keys[j] \/ (keys[i] = keys[j] /\ i < j))
    IN [k \in DOMAIN s |-> s[order[k]]]
ByPlace(bs) == SortedBy([i \in DOMAIN bs |-> bs[i].y * (GridW + 1) + bs[i].x], bs)
ByRow(bs) == SortedBy([i \in DOMAIN bs |-> bs[i].y], bs)

\* merge_boxes_into_one
MergeBoxes(bs) ==
    LET S == ToSet(bs)
        x == Min({b.x : b \in S})  y == Min({b.y : b \in S})
    IN [x |-> x, y |-> y,
        width |-> Max({b.x + b.width : b \in S}) - x, height |-> Max({b.y + b.height : b \in S}) - y]

\* The centres are closer than three quarters of the mean height.
SameLine(a, b) ==
    LET d == (2 * a.y + a.height) - (2 * b.y + b.height)
    IN 4 * (IF d < 0 THEN -d ELSE d) < 3 * (a.height + b.height)

\* merge_horizontal_boxes: a box joins the line of the first box in it, or begins one.
JoinLine(acc, b) ==
    IF SameLine(acc.line[1], b) THEN [acc EXCEPT !.line = Append(@, b)]
    ELSE [line |-> <<b>>, done |-> Append(acc.done, MergeBoxes(acc.line))]
MergeLines(bs) ==
    LET all == FoldLeft(JoinLine, [line |-> <<Head(bs)>>, done |-> <<>>], Tail(bs))
    IN Append(all.done, MergeBoxes(all.line))

DetectBoxes(text) ==
    LET bs == ByRow(ByPlace(Regions(text)))
    IN IF Len(bs) <= 1 THEN bs ELSE ByRow(MergeLines(bs))

Detect == vis.part = "detect" /\ VisDone("detect", DetectBoxes(vis.in), "boxes")

\* PaddleOcrModel::process, on an image of the map's size: boxes of low confidence, tiny
\* ones and those in which nothing was recognised are left out; the others by place.
ProcessPage(skipped) ==
    /\ vis.part = "detect" /\ vis.pc = "boxes" /\ skipped \subseteq DOMAIN vis.out
    /\ LET kept == {i \in DOMAIN vis.out : i \notin skipped /\ vis.out[i].width >= 2 /\ vis.out[i].height >= 2}
           order == SetToSortSeq(kept, <)
       IN vis' = [vis EXCEPT !.out = ByPlace([k \in DOMAIN order |-> vis.out[order[k]]]), !.pc = "page"]

-----------------------------------------------------------------------------
(* PreprocessInfo and resize_with_padding, in exact arithmetic.            *)

\* (n * scale).round() with the scale that fits the longer side.
ScaledSide(n, long) == (2 * n * TargetSize + long) \div (2 * long)

\* Mutant: the image is put into the corner.
PaddedOffset_Corner(n, long) == 0

\* resize_with_padding draws at least one pixel, in the middle.
PaddedOffset(n, long) == (TargetSize - Max({1, ScaledSide(n, long)})) \div 2

\* PreprocessInfo::new
InfoOffset(n, long) == (TargetSize - ScaledSide(n, long)) \div 2

\* map_to_original, crop_text_box: a pixel of the padded image, clamped to the image.
MapToOriginal(x, n, long) == ((x - InfoOffset(n, long)) * long) \div TargetSize
Cropped(x, n) == Min({Max({0, x}), n - 1})

ResizeImage ==
    LET long == Max({vis.in[1], vis.in[2]})
        drawn(n) == [at |-> PaddedOffset(n, long), info |-> InfoOffset(n, long),
                     side |-> Max({1, ScaledSide(n, long)})]
    IN vis.part = "resize" /\ VisDone("resize", [i \in 1 .. 2 |-> drawn(vis.in[i])], "resized")

-----------------------------------------------------------------------------
(* OcrRecognitionModel.                                                    *)

\* ctc_decode on the best class of every step; classes beyond the dictionary are skipped
\* (load_dictionary starts with the blank ' ', so it never appends the space it looks for).
CtcStep(acc, c) ==
    [prev |-> c,
     text |-> IF c # 0 /\ c # acc.prev /\ c <= Len(Dictionary) THEN Append(acc.text, Dictionary[c]) ELSE acc.text]
CtcDecode(cs) == FoldLeft(CtcStep, [prev |-> 0, text |-> <<>>], cs).text

\* The cost of a word: known words are rewarded, single letters cost more than
\* unknown words.
WordCost(w) ==
    IF w \in Words THEN -(10 * Len(w))
    ELSE IF Len(w) = 1 /\ w[1] \notin VisDigits \cup {"."} THEN 5
    ELSE Len(w)

\* Mutant: the first word that ends there is kept.
BestAt_First(text, best, i) == [cost |-> WordCost(SubSeq(text, 1, i)), from |-> 0]

\* best[i]: the first of the cheapest last words that end at i.
BestAt(text, best, i) ==
    LET total(j) == best[j + 1].cost + WordCost(SubSeq(text, j + 1, i))
        least == Min({total(j) : j \in 0 .. i - 1})
        from == Min({j \in 0 .. i - 1 : total(j) = least})
    IN [cost |-> least, from |-> from]

BestTable(text) ==
    FoldLeft(LAMBDA best, i : Append(best, BestAt(text, best, i)), <<[cost |-> 0, from |-> 0]>>,
             [i \in 1 .. Len(text) |-> i])

\* segment_words: the words, read back from the end.
SegmentWords(text) ==
    LET best == BestTable(text)
        upTo[i \in 0 .. Len(text)] ==
            IF i = 0 THEN <<>>
            ELSE LET from == best[i + 1].from IN Append(upTo[from], SubSeq(text, from + 1, i))
    IN upTo[Len(text)]

JoinedWords(ws) == FoldLeft(LAMBDA s, w : IF s = <<>> THEN w ELSE s \o <<" ">> \o w, <<>>, ws)

IsLetter(c) == c \notin VisDigits \cup {".", " "}

\* apply_heuristic_spacing: between letters and digits, and after a full stop.
NeedsSpace(a, b) ==
    \/ IsLetter(a) /\ b \in VisDigits
    \/ a \in VisDigits /\ IsLetter(b)
    \/ a = "." /\ (IsLetter(b) \/ b \in VisDigits)
HeuristicSpacing(s) ==
    FlattenSeq([i \in DOMAIN s |-> IF i > 1 /\ NeedsSpace(s[i - 1], s[i]) THEN <<" ", s[i]>> ELSE <<s[i]>>])

\* insert_word_spaces
WordSpaces(text) == HeuristicSpacing(JoinedWords(SegmentWords(text)))
InsertWordSpaces == vis.part = "spaces" /\ VisDone("spaces", WordSpaces(vis.in), "spaced")

\* recognize
Recognize == vis.part = "ctc" /\ VisDone("ctc", WordSpaces(CtcDecode(vis.in)), "text")

-----------------------------------------------------------------------------
(* FlorenceDecoder::generate: the prompt's tokens, then the best token     *)
(* that is not masked; which one that is the network decides.              *)

\* Mutant: the first tokens are masked, not the last.
Masked_First(tokens) == ToSet(SubSeq(tokens, 1, Min({MaskLast, Len(tokens)}))) \cup {0}

\* argmax
Masked(tokens) == ToSet(SubSeq(tokens, Max({1, Len(tokens) - MaskLast + 1}), Len(tokens))) \cup {0}

\* forward may fail, and argmax fails when every token is masked.
GenerateToken ==
    /\ vis.part = "caption" /\ vis.pc = "run" /\ Len(vis.out) - Len(vis.in) < MaxCaption
    /\ \/ VisDone("caption", vis.out, "error")
       \/ \E next \in VisTokens \ Masked(vis.out) :
             IF next = 1 THEN VisDone("caption", vis.out, "end")
             ELSE VisDone("caption", Append(vis.out, next), "run")

CaptionIsFull ==
    vis.part = "caption" /\ Len(vis.out) - Len(vis.in) = MaxCaption /\ VisDone("caption", vis.out, "end")

-----------------------------------------------------------------------------
(* OnnxEmbeddingModel.  A network gives every token a value that the mask  *)
(* keeps free of the padding, and the padding some value of its own.       *)

Hidden(token) == token
PaddingValue == 7

\* embed: the mean over the tokens, as its sum and its count.
Embed(tokens) == <<FoldLeft(LAMBDA n, x : n + Hidden(x), 0, tokens), Len(tokens)>>

\* Mutant: the mean is taken over the padded length.
EmbedBatch_Padded(texts) ==
    LET maxLen == Max({Len(texts[i]) : i \in DOMAIN texts})
    IN [i \in DOMAIN texts |-> <<Embed(texts[i])[1], maxLen>>]

\* embed_batch: ids and masks of all texts in one row, each padded to the longest; a text
\* is read back from its place by the mask.
EmbedBatch(texts) ==
    LET maxLen == Max({Len(texts[i]) : i \in DOMAIN texts})
        padded(t, v) == t \o [k \in 1 .. maxLen - Len(t) |-> v]
        hidden(t) == [k \in DOMAIN t |-> Hidden(t[k])]
        ids == FlattenSeq([i \in DOMAIN texts |-> padded(hidden(texts[i]), PaddingValue)])
        mask == FlattenSeq([i \in DOMAIN texts |-> padded([k \in DOMAIN texts[i] |-> 1], 0)])
        item(s, i) == SubSeq(s, (i - 1) * maxLen + 1, i * maxLen)
        sum(s) == FoldLeft(LAMBDA n, x : n + x, 0, s)
    IN [i \in DOMAIN texts |->
           <<sum([k \in 1 .. maxLen |-> item(ids, i)[k] * item(mask, i)[k]]), sum(item(mask, i))>>]

EmbedTexts == vis.part = "batch" /\ VisDone("batch", EmbedBatch(vis.in), "embedded")

-----------------------------------------------------------------------------

VisNext ==
    \/ Detect
    \/ \E skipped \in SUBSET (1 .. 3) : ProcessPage(skipped)
    \/ ResizeImage
    \/ Recognize
    \/ InsertWordSpaces
    \/ GenerateToken
    \/ CaptionIsFull
    \/ EmbedTexts

VisSpec == VisInit /\ [][VisNext]_vis

-----------------------------------------------------------------------------

\* The pixels connected to a pixel, by definition.
ConnectedTo(text, p) ==
    LET step(S) == S \cup {q \in text : \E r \in S : q \in ToSet(PushedBy(r))}
        grown == FoldLeft(LAMBDA S, i : step(S), {p}, [i \in 1 .. GridW * GridH |-> i])
    IN grown

\* Every region of more than the least number of connected pixels lies in one of the
\* boxes found, whatever lines were merged, there are no other boxes, and the boxes come
\* from the top down (flood_fill, merge_horizontal_boxes).
DetectionCovers ==
    vis.part = "detect" /\ vis.pc = "boxes" =>
        LET regions == {BoxOf(ConnectedTo(vis.in, p)) :
                           p \in {q \in vis.in : Cardinality(ConnectedTo(vis.in, q)) > MinRegion}}
            within(r, b) == /\ b.x <= r.x /\ r.x + r.width <= b.x + b.width
                            /\ b.y <= r.y /\ r.y + r.height <= b.y + b.height
        IN /\ \A r \in regions : \E b \in ToSet(vis.out) : within(r, b)
           /\ \A b \in ToSet(vis.out) : \E S \in SUBSET regions : S # {} /\ b = MergeBoxes(SetToSeq(S))
           /\ \A i, j \in DOMAIN vis.out : i < j => vis.out[i].y <= vis.out[j].y

\* A box is mapped back with the offset the image was drawn at, so that what was drawn in
\* the padded image lies in the original (an image scaled to less than half a pixel is
\* drawn one pixel wide but mapped as if it had no width).
BoxesMapBack ==
    vis.part = "resize" /\ vis.pc = "resized" =>
        \A i \in 1 .. 2 :
            LET long == Max({vis.in[1], vis.in[2]})
            IN ScaledSide(vis.in[i], long) > 0 =>
                  /\ vis.out[i].at = vis.out[i].info
                  /\ vis.out[i].at + vis.out[i].side <= TargetSize
                  /\ \A x \in vis.out[i].at .. vis.out[i].at + vis.out[i].side - 1 :
                        LET o == MapToOriginal(x, vis.in[i], long) IN o \in {Cropped(o, vis.in[i]), vis.in[i]}

\* The text is the runs of equal classes, without the blanks and what the dictionary does
\* not have, and with nothing but spaces put in (ctc_decode).
CtcIsCollapse ==
    vis.part = "ctc" /\ vis.pc = "text" =>
        LET firsts == {t \in DOMAIN vis.in : t = 1 \/ vis.in[t] # vis.in[t - 1]}
            runs == SetToSortSeq(firsts, <)
            known == SelectSeq([k \in DOMAIN runs |-> vis.in[runs[k]]], LAMBDA c : c \in DOMAIN Dictionary)
        IN SelectSeq(vis.out, LAMBDA c : c # " ") = [k \in DOMAIN known |-> Dictionary[known[k]]]

\* No segmentation of the text is cheaper than the one found, and the spaces put in
\* between words, letters and digits are all that is added to it (segment_words,
\* apply_heuristic_spacing).
SegmentationIsBest ==
    vis.part = "spaces" /\ vis.pc = "spaced" =>
        LET cost(ws) == FoldLeft(LAMBDA n, w : n + WordCost(w), 0, ws)
            cut(ends) == LET e == SetToSortSeq(ends \cup {Len(vis.in)}, <)
                         IN [k \in DOMAIN e |-> SubSeq(vis.in, IF k = 1 THEN 1 ELSE e[k - 1] + 1, e[k])]
        IN /\ \A ends \in SUBSET (1 .. Len(vis.in) - 1) :
                 vis.in # <<>> => cost(SegmentWords(vis.in)) <= cost(cut(ends))
           /\ SelectSeq(vis.out, LAMBDA c : c # " ") = SelectSeq(vis.in, LAMBDA c : c # " ")
           /\ \A i \in 1 .. Len(vis.out) - 1 : ~(IsLetter(vis.out[i]) /\ vis.out[i + 1] \in VisDigits)

\* No generated token is one of those just before it, none begins a sequence, and a
\* caption has at most max_tokens more than its prompt (generate, argmax).
CaptionHasNoLoop ==
    vis.part = "caption" =>
        /\ Len(vis.out) <= Len(vis.in) + MaxCaption
        /\ \A i \in Len(vis.in) + 1 .. Len(vis.out) :
              /\ vis.out[i] \notin {0, 1}
              /\ \A k \in 1 .. MaskLast : i > k => vis.out[i] # vis.out[i - k]

\* A text has the embedding in a batch that it has alone, whatever the lengths of the
\* others (embed_batch, embed).
BatchIsEach ==
    vis.part = "batch" /\ vis.pc = "embedded" => \A i \in DOMAIN vis.in : vis.out[i] = Embed(vis.in[i])

=============================================================================
