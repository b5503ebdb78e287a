----------------------------- MODULE Segmenter ------------------------------
(***************************************************************************)
(* cppjieba's CutForSearch, which cuts texts and queries into tokens.  A   *)
(* text is a sequence of bytes.  It is decoded to runes, cut at separators *)
(* (PreFilter), each piece is cut along the best path through the          *)
(* dictionary (MPSegment), stretches of single runes are cut again by a    *)
(* hidden Markov model (HMMSegment), and long words are preceded by the    *)
(* dictionary words of two and three runes inside them (QuerySegment).     *)
(*                                                                         *)
(* Words are ranges <<left, right>> of rune positions.  Weights, logarithms *)
(* in the code, are integers above MIN_DOUBLE.  MIN_DOUBLE is so far below *)
(* them that a sum with it forgets the rest: see Rounded.                  *)
(***************************************************************************)
EXTENDS Integers, Sequences, FiniteSets, SequencesExt

CONSTANTS
    dict,          \* lines of jieba.dict.utf8: [word: runes, weight: Int]
    userDict,      \* lines of user.dict.utf8: [word, columns, weight]
    startProb,     \* HMMModel::startProb, [Status -> Int]
    transProb,     \* HMMModel::transProb, [Status -> [Status -> Int]]
    emitProb,      \* the four emission maps, from runes, [Status -> maps]
    symbols_,      \* the separators
    MAX_WORD_LENGTH,
    MIN_DOUBLE

Status == 0..3
B == 0
E == 1
M == 2
S == 3

(* Every weight is above MIN_DOUBLE, with which CalcDP compares it.  The   *)
(* probabilities of the model are logarithms, none above 0.                *)
ASSUME SegmenterAssumption ==
    /\ dict \in Seq([word : Seq(Nat), weight : Int])
    /\ dict # <<>>
    /\ \A i \in DOMAIN dict : dict[i].weight > MIN_DOUBLE
    /\ userDict \in Seq([word : Seq(Nat), columns : Nat, weight : Int])
    /\ \A i \in DOMAIN userDict : userDict[i].weight > MIN_DOUBLE
    /\ MIN_DOUBLE \in Int
    /\ MIN_DOUBLE < 0
    /\ \A y \in Status : startProb[y] \in Int /\ startProb[y] <= 0
    /\ \A y, z \in Status : transProb[y][z] \in Int /\ transProb[y][z] <= 0
    /\ \A y \in Status : \A rune \in DOMAIN emitProb[y] :
          emitProb[y][rune] \in Int /\ emitProb[y][rune] <= 0

-----------------------------------------------------------------------------
(* Unicode.hpp.  Only the first byte says how long a character is; the     *)
(* bytes after it are not looked at.                                       *)
NoRune == [rune |-> 0, offset |-> 0, len |-> 0]

LeadLength(b) ==
    CASE b < 128 -> 1
      [] b \in 128..223 -> 2
      [] b \in 224..239 -> 3
      [] b \in 240..247 -> 4
      [] OTHER -> 0

LeadBits == <<128, 32, 16, 8>>

RuneAt(s, i, n) ==
    FoldLeft(LAMBDA r, b : (64 * r) + (b % 64), s[i] % LeadBits[n], SubSeq(s, i + 1, i + n - 1))

DecodeRuneInString(s, i) ==
    LET n == LeadLength(s[i])
    IN  IF n = 0 \/ i + n - 1 > Len(s) THEN NoRune
        ELSE [rune |-> RuneAt(s, i, n), offset |-> i, len |-> n]

(* One byte that starts no character, and the whole text has no runes.     *)
DecodeRunesInString(s) ==
    LET runes[i \in 1..Len(s) + 1] ==
            IF i > Len(s) THEN <<>>
            ELSE LET r == DecodeRuneInString(s, i)
                 IN  IF r.len = 0 THEN <<r>> ELSE <<r>> \o runes[i + r.len]
    IN  IF Contains(runes[1], NoRune) THEN <<>> ELSE runes[1]

-----------------------------------------------------------------------------
(* DictTrie.  The trie is the words it holds; of two lines with the same   *)
(* word the later one counts, and an empty key is not inserted.            *)
min_weight_ ==
    CHOOSE w \in {dict[i].weight : i \in DOMAIN dict} :
        \A i \in DOMAIN dict : w <= dict[i].weight

(* The element at size / 2, counted from 0, of the sorted weights.         *)
median_weight_ ==
    CHOOSE w \in {dict[i].weight : i \in DOMAIN dict} :
        /\ Cardinality({i \in DOMAIN dict : dict[i].weight < w}) <= Len(dict) \div 2
        /\ Cardinality({i \in DOMAIN dict : dict[i].weight <= w}) > Len(dict) \div 2

InserUserDictNode(line) ==
    CASE line.columns \in {1, 2} -> [word |-> line.word, weight |-> median_weight_]
      [] line.columns = 3 -> [word |-> line.word, weight |-> line.weight]
      [] OTHER -> [word |-> <<>>, weight |-> 0]

static_node_infos_ == dict \o [i \in DOMAIN userDict |-> InserUserDictNode(userDict[i])]

user_dict_single_chinese_word_ ==
    {node.word[1] : node \in {static_node_infos_[i] : i \in
        {i \in Len(dict) + 1..Len(static_node_infos_) : Len(static_node_infos_[i].word) = 1}}}

Nodes(word) == {i \in DOMAIN static_node_infos_ : static_node_infos_[i].word = word}

InTrie(word) == word # <<>> /\ Nodes(word) # {}

WordWeight(word) ==
    static_node_infos_[CHOOSE i \in Nodes(word) : \A k \in Nodes(word) : k <= i].weight

-----------------------------------------------------------------------------
(* MPSegment on the runes t[l..r].  Find: the words that start at i, and   *)
(* the single rune, in the dictionary or not.                              *)
Nexts(t, i, r) ==
    {j \in i..r : j = i \/ (InTrie(SubSeq(t, i, j)) /\ j - i + 1 <= MAX_WORD_LENGTH)}

EdgeWeight(t, i, j) ==
    IF InTrie(SubSeq(t, i, j)) THEN WordWeight(SubSeq(t, i, j)) ELSE min_weight_

(* Mutant: the weight of the rest of the text is left out.                 *)
PathWeightLocal(t, i, j, rest) == EdgeWeight(t, i, j)

(* A word i..j and then the best path; rest are the cells from i + 1 on.   *)
PathWeight(t, i, j, rest) ==
    EdgeWeight(t, i, j) + (IF j - i < Len(rest) THEN rest[j - i + 1].weight ELSE 0)

(* CalcDP, from the end of the text: the best path from i and where its    *)
(* first word ends; of equally good words the shortest.  (The code keeps   *)
(* the dictionary entry, and none for a rune that is not in it.)           *)
CalcDP(t, l, r) ==
    LET dags[i \in l..r + 1] ==
            IF i > r THEN <<>>
            ELSE LET rest == dags[i + 1]
                     Best == {j \in Nexts(t, i, r) : \A k \in Nexts(t, i, r) :
                                PathWeight(t, i, k, rest) <= PathWeight(t, i, j, rest)}
                     end == CHOOSE j \in Best : \A k \in Best : j <= k
                 IN  <<[end |-> end, weight |-> PathWeight(t, i, end, rest)]>> \o rest
    IN  dags[l]

MPCut(t, l, r) ==
    LET dags == CalcDP(t, l, r)
        words[i \in l..r + 1] ==
            IF i > r THEN <<>>
            ELSE LET end == dags[i - l + 1].end
                 IN  << <<i, end>> >> \o words[end + 1]
    IN  words[l]

-----------------------------------------------------------------------------
(* HMMSegment.                                                             *)
IsLetter(x) == x \in 65..90 \/ x \in 97..122
IsDigit(x) == x \in 48..57
IsDot(x) == x = 46
IsAscii(x) == x < 128

(* The end of the longest stretch from i on whose later runes satisfy P.   *)
Stretch(t, i, r, P(_)) ==
    CHOOSE e \in i..r :
        /\ \A k \in i + 1..e : P(t[k])
        /\ e < r => ~P(t[e + 1])

(* SequentialLetterRule, NumbersRule, or any other character alone.        *)
AsciiEnd(t, i, r) ==
    CASE IsLetter(t[i]) -> Stretch(t, i, r, LAMBDA x : IsLetter(x) \/ IsDigit(x))
      [] IsDigit(t[i])  -> Stretch(t, i, r, LAMBDA x : IsDigit(x) \/ IsDot(x))
      [] OTHER          -> i

GetEmitProb(y, rune) == IF rune \in DOMAIN emitProb[y] THEN emitProb[y][rune] ELSE MIN_DOUBLE

(* A sum of doubles: next to MIN_DOUBLE, once or several times, ordinary    *)
(* weights vanish.                                                         *)
Rounded(w) == IF w > MIN_DOUBLE THEN w ELSE ((-w) \div (-MIN_DOUBLE)) * MIN_DOUBLE

(* Mutant: the transition is looked up the wrong way round.                *)
StepProbReversed(preY, y, rune) == transProb[y][preY] + GetEmitProb(y, rune)

StepProb(preY, y, rune) == transProb[preY][y] + GetEmitProb(y, rune)

(* Mutant: the best of all statuses ends the text.                         *)
EndStatusAny(w) == CHOOSE y \in Status : \A z \in Status : w[z] <= w[y]

(* A text ends a word: its last status is E or S.                          *)
EndStatus(w) == IF w[E] >= w[S] THEN E ELSE S

(* Viterbi on the runes t[l..r]: weight and path for every position and    *)
(* status, then the statuses from the last one back.  A position no status *)
(* of which is above MIN_DOUBLE has path E.                                *)
ForEachStatus(Cell(_)) ==
    LET cells == <<Cell(B), Cell(E), Cell(M), Cell(S)>> IN [y \in Status |-> cells[y + 1]]

Cell(old, y, rune) ==
    LET tmp == ForEachStatus(LAMBDA preY : Rounded(old[preY].weight + StepProb(preY, y, rune)))
        Best == {p \in Status : tmp[p] > MIN_DOUBLE /\ \A q \in Status : tmp[q] <= tmp[p]}
        path == CHOOSE p \in Best : \A q \in Best : p <= q
    IN  IF Best = {} THEN [weight |-> MIN_DOUBLE, path |-> E]
        ELSE [weight |-> tmp[path], path |-> path]

Start(y, rune) == [weight |-> Rounded(startProb[y] + GetEmitProb(y, rune)), path |-> E]

Viterbi(t, l, r) ==
    LET rows[x \in l..r] ==
            IF x = l THEN ForEachStatus(LAMBDA y : Start(y, t[l]))
            ELSE LET old == rows[x - 1] IN ForEachStatus(LAMBDA y : Cell(old, y, t[x]))
        status[x \in l..r] ==
            IF x = r THEN <<EndStatus([y \in Status |-> rows[r][y].weight])>>
            ELSE LET after == status[x + 1] IN <<rows[x + 1][after[1]].path>> \o after
    IN  status[l]

(* InternalCut: a word ends at every odd status.                           *)
InternalCut(t, l, r) ==
    LET status == Viterbi(t, l, r)
        words[i \in l - 1..r] ==
            IF i < l THEN [left |-> l, res |-> <<>>]
            ELSE LET before == words[i - 1]
                 IN  IF status[i - l + 1] % 2 = 1
                     THEN [left |-> i + 1, res |-> Append(before.res, <<before.left, i>>)]
                     ELSE before
    IN  words[r].res

HMMCut(t, l, r) ==
    LET words[i \in l..r + 1] ==
            IF i > r THEN <<>>
            ELSE IF IsAscii(t[i])
                 THEN LET e == AsciiEnd(t, i, r)
                      IN  << <<i, e>> >> \o words[e + 1]
                 ELSE LET e == Stretch(t, i, r, LAMBDA x : ~IsAscii(x))
                      IN  InternalCut(t, i, e) \o words[e + 1]
    IN  words[l]

-----------------------------------------------------------------------------
(* MixSegment: words of several runes and single runes of the user's       *)
(* dictionary stay, every stretch of other single runes goes to the HMM.   *)
Stays(t, w) == w[1] # w[2] \/ t[w[1]] \in user_dict_single_chinese_word_

Retagged(t, mp) ==
    LET res[i \in 1..Len(mp) + 1] ==
            IF i > Len(mp) THEN <<>>
            ELSE IF Stays(t, mp[i]) THEN <<mp[i]>> \o res[i + 1]
            ELSE LET j == CHOOSE j \in i..Len(mp) :
                            /\ \A k \in i..j : ~Stays(t, mp[k])
                            /\ j < Len(mp) => Stays(t, mp[j + 1])
                 IN  HMMCut(t, mp[i][1], mp[j][1]) \o res[j + 1]
    IN  res[1]

MixCut(t, l, r) == Retagged(t, MPCut(t, l, r))

(* QuerySegment: the words of n runes inside w that are in the dictionary. *)
Inner(t, w, n) ==
    IF w[2] - w[1] + 1 <= n THEN <<>>
    ELSE FlattenSeq([k \in 1..w[2] - w[1] + 2 - n |->
            LET i == w[1] + k - 1
            IN  IF InTrie(SubSeq(t, i, i + n - 1)) THEN << <<i, i + n - 1>> >> ELSE <<>>])

QueryWords(t, w) == Inner(t, w, 2) \o Inner(t, w, 3) \o <<w>>

Refined(t, mix) ==
    FlattenSeq([i \in DOMAIN mix |-> QueryWords(t, mix[i])])

QueryCut(t, pieces) ==
    FlattenSeq([i \in DOMAIN pieces |-> Refined(t, MixCut(t, pieces[i][1], pieces[i][2]))])

(* PreFilter::Next: the stretches between separators, and the separators.  *)
PreFilter(t) ==
    LET Next[i \in 1..Len(t) + 1] ==
            IF i > Len(t) THEN <<>>
            ELSE LET e == IF t[i] \in symbols_ THEN i
                          ELSE Stretch(t, i, Len(t), LAMBDA x : x \notin symbols_)
                 IN  << <<i, e>> >> \o Next[e + 1]
    IN  Next[1]

(* The runes of a text, its tokens as ranges of runes, and their bytes.    *)
RunesOf(s) ==
    LET d == DecodeRunesInString(s) IN [i \in DOMAIN d |-> d[i].rune]

CutForSearch(s) == QueryCut(RunesOf(s), PreFilter(RunesOf(s)))

GetWordFromRunes(s, w) ==
    LET d == DecodeRunesInString(s)
    IN  SubSeq(s, d[w[1]].offset, d[w[2]].offset + d[w[2]].len - 1)
=============================================================================
