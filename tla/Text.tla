-------------------------------- MODULE Text --------------------------------
(***************************************************************************)
(* A document from the tokens it is indexed under to the summary a search  *)
(* shows: the segmenter cuts title and content, a query asks for one of    *)
(* their tokens, or for anything else, and getDesc looks for it in the     *)
(* content.                                                                *)
(***************************************************************************)
EXTENDS Desc, Segmenter

CONSTANT Titles    \* [Contents -> the titles a document of that content may have]

ASSUME TitlesAssumption == \A c \in Contents : Titles[c] \subseteq Seq(Byte)

VARIABLES
    title,
    titleWords,    \* titleKeywords and contentKeywords of
    words          \* buildInvertedIndex, as ranges of runes

textVars == <<descVars, title, titleWords, words>>

NoWords == << <<0, 0>> >>

(* The keyword of a token of a text: buildInvertedIndex and search put it  *)
(* into lower case.                                                        *)
KeywordOf(text, word) ==
    LET w == GetWordFromRunes(text, word)
    IN  [k \in DOMAIN w |-> tolower[w[k]]]

KeywordsIn(text, ws) == {KeywordOf(text, ws[i]) : i \in DOMAIN ws}

(* What the document is indexed under.                                     *)
OwnKeywords == KeywordsIn(title, titleWords) \cup KeywordsIn(content, words)

TextInit ==
    /\ content \in Contents
    /\ title \in Titles[content]
    /\ keyword = <<>>
    /\ desc = NoDesc
    /\ titleWords = NoWords
    /\ words = NoWords

buildInvertedIndex ==
    /\ words = NoWords
    /\ \E cut \in {[text \in {title, content} |-> CutForSearch(text)]} :
          /\ titleWords' = cut[title]
          /\ words' = cut[content]
    /\ UNCHANGED <<descVars, title>>

(* A search reaches the content with a keyword.                            *)
ask ==
    /\ words # NoWords
    /\ keyword = <<>>
    /\ desc = NoDesc
    /\ keyword' \in Keywords \cup OwnKeywords
    /\ UNCHANGED <<content, desc, title, titleWords, words>>

summarise ==
    /\ words # NoWords
    /\ getDesc
    /\ UNCHANGED <<title, titleWords, words>>

TextNext ==
    \/ buildInvertedIndex
    \/ ask
    \/ summarise

TextSpec == TextInit /\ [][TextNext]_textVars

-----------------------------------------------------------------------------
(* The state in which buildInvertedIndex leaves a content; its tokens      *)
(* stay.                                                                   *)
JustCut == words # NoWords /\ keyword = <<>> /\ desc = NoDesc

(* Nothing of a text that can be decoded is lost to the index: the tokens  *)
(* that lie in no other token are, in order, a partition of the text.  A   *)
(* text with an undecodable byte has no token at all (PreFilter.hpp:21).   *)
TokensCoverText ==
    JustCut =>
        LET Outer(w) == \A i \in DOMAIN words :
                            words[i] = w \/ words[i][1] > w[1] \/ words[i][2] < w[2]
        IN  FlattenSeq([i \in DOMAIN words |->
                            IF Outer(words[i]) THEN GetWordFromRunes(content, words[i]) ELSE <<>>])
                = IF DecodeRunesInString(content) = <<>> THEN <<>> ELSE content

(* All ways to cut t[l..r] into words MPSegment may choose from.           *)
Segmentations(t, l, r) ==
    {cuts \in SUBSET (l..r) :
        /\ l \in cuts
        /\ \A i \in cuts :
             LET later == {k \in cuts : k > i}
                 next == IF later = {} THEN r + 1
                         ELSE CHOOSE k \in later : \A m \in later : k <= m
             IN  next - 1 \in Nexts(t, i, r)}

SegWeight(t, cuts, r) ==
    LET Ends(i) == {k - 1 : k \in {k \in cuts \cup {r + 1} : k > i}}
        End1(i) == CHOOSE e \in Ends(i) : \A f \in Ends(i) : e <= f
        sum[i \in 0..r] ==
            IF i = 0 THEN 0
            ELSE sum[i - 1] + (IF i \in cuts THEN EdgeWeight(t, i, End1(i)) ELSE 0)
    IN  sum[r]

Heaviest(t, l, r, chosen) ==
    /\ chosen \in Segmentations(t, l, r)
    /\ \A cuts \in Segmentations(t, l, r) : SegWeight(t, cuts, r) <= SegWeight(t, chosen, r)

(* The dynamic program finds a heaviest path through the dictionary, among *)
(* all of them (MPSegment.hpp:80-127).                                     *)
BestSegmentation ==
    JustCut =>
        \A piece \in Range(PreFilter(RunesOf(content))) :
            Heaviest(RunesOf(content), piece[1], piece[2],
                     {w[1] : w \in Range(MPCut(RunesOf(content), piece[1], piece[2]))})

(* The weight of a sequence of statuses of t.                              *)
TagWeight(t, tags) ==
    LET sum[x \in 1..Len(tags)] ==
            IF x = 1 THEN Rounded(startProb[tags[1]] + GetEmitProb(tags[1], t[1]))
            ELSE Rounded(sum[x - 1] + transProb[tags[x - 1]][tags[x]] + GetEmitProb(tags[x], t[x]))
    IN  sum[Len(tags)]

(* The statuses of a text all of whose runes are beyond ASCII are a most   *)
(* likely sequence that ends a word, whenever some such sequence is        *)
(* possible (HMMSegment.hpp:130-182).                                      *)
MostLikelyTags ==
    LET t == RunesOf(content)
        n == Len(t)
        tags == Viterbi(t, 1, n)
        possible == {g \in [1..n -> Status] : g[n] \in {E, S} /\ TagWeight(t, g) > MIN_DOUBLE}
    IN  JustCut /\ n > 0 /\ (\A i \in 1..n : ~IsAscii(t[i])) =>
            \A g \in possible : TagWeight(t, g) <= TagWeight(t, tags)

Occurs(t, c) == \E b \in 0..(Len(c) - Len(t)) : SubSeq(c, b + 1, b + Len(t)) = t

(* A document is listed with "keyword does not exist!" (searcher.hpp:193)  *)
(* for no token of its content, and for a token of its title only when the *)
(* content does not have the title in it, as it has for every title        *)
(* without a tag inside.                                                   *)
OwnKeywordFound ==
    words # NoWords /\ desc.kind = "keyword does not exist!" =>
        /\ keyword \notin KeywordsIn(content, words)
        /\ Occurs(title, content) => keyword \notin KeywordsIn(title, titleWords)
=============================================================================
