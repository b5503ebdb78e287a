------------------------------- MODULE Parser -------------------------------
(***************************************************************************)
(* The offline program `parser': it enumerates the html files under        *)
(* data/input, takes title, text and url of each, and writes them to       *)
(* data/output/raw, the file from which searcherServerd later builds its   *)
(* index.                                                                  *)
(*                                                                         *)
(* A text is a sequence over a small alphabet: the two title tags, the     *)
(* characters the parser looks for, the separator '\3', the line break,    *)
(* and letters for all other characters.  A title tag stands for its       *)
(* characters: it begins with '<' and ends with '>'.                       *)
(***************************************************************************)
EXTENDS Integers, Sequences, SequencesExt

CONSTANTS
    Chars,      \* the characters of the files and their urls
    Trees,      \* the possible trees under data/input, each the sequence of
                \* its files in the order of the directory iterator
    OldRaws     \* what data/output/raw may hold before the run

SEP == "SEP"
LF == "\n"
Tags == {"<title>", "</title>"}

(* A file: whether its extension is .html and it can be opened, what it    *)
(* holds and the url made from its path.  No path in the documentation has *)
(* a separator or a line break in it.                                      *)
Files == [html : BOOLEAN, opens : BOOLEAN, bytes : Seq(Chars),
          url : Chars \ {SEP, LF}]

ASSUME ParserAssumption ==
    /\ Trees \subseteq Seq(Files)
    /\ OldRaws \subseteq Seq(Chars)

VARIABLES
    tree,         \* the files under data/input
    ppc,          \* where main is
    filesList,    \* filesList of main
    parsed,       \* how many of them parseDocInfo is through with
    docResults,   \* docResults of main
    written,      \* how many documents saveDocInfo has handed to its stream
    disk,         \* the content of data/output/raw
    full          \* a write of the stream has failed

parserVars == <<tree, ppc, filesList, parsed, docResults, written, disk, full>>

-----------------------------------------------------------------------------
(* What is left of a sequence when only some of its places are kept.       *)
Keep(s, places) ==
    FlattenSeq([i \in DOMAIN s |-> IF i \in places THEN <<s[i]>> ELSE <<>>])

(* Mutant: the line breaks are kept.                                       *)
readFileWhole(bytes) == bytes

(* fileUtil::readFile: the lines of the file joined, without their breaks. *)
readFile(bytes) == Keep(bytes, {i \in DOMAIN bytes : bytes[i] # LF})

(* parseTitle looks for the first tag of each kind.                        *)
find(text, tag) == SelectInSeq(text, LAMBDA c : c = tag)

HasTitle(text) ==
    /\ Contains(text, "<title>")
    /\ Contains(text, "</title>")
    /\ find(text, "<title>") < find(text, "</title>")

parseTitle(text) == SubSeq(text, find(text, "<title>") + 1, find(text, "</title>") - 1)

(* Mutant: a '>' outside the tags is dropped.                              *)
ContentStepDropsGt(state, c) ==
    CASE c \in Tags \cup {">"} -> [state EXCEPT !.s = "CONTENT"]
      [] c = "<" -> [state EXCEPT !.s = "LABLE"]
      [] c \notin Tags \cup {"<", ">"} ->
           IF state.s = "LABLE" THEN state ELSE [state EXCEPT !.content = Append(@, c)]

(* One turn of parseContent's loop.                                        *)
ContentStep(state, c) ==
    CASE c \in Tags -> [state EXCEPT !.s = "CONTENT"]
      [] state.s = "LABLE" /\ c = ">" -> [state EXCEPT !.s = "CONTENT"]
      [] state.s = "LABLE" /\ c \notin Tags \cup {">"} -> state
      [] state.s = "CONTENT" /\ c = "<" -> [state EXCEPT !.s = "LABLE"]
      [] state.s = "CONTENT" /\ c \notin Tags \cup {"<"} ->
           [state EXCEPT !.content = Append(@, IF c = LF THEN " " ELSE c)]

(* Mutant: the loop starts outside the tags.                               *)
parseContentFromText(text) ==
    FoldLeft(ContentStep, [s |-> "CONTENT", content |-> <<>>], text).content

parseContent(text) ==
    FoldLeft(ContentStep, [s |-> "LABLE", content |-> <<>>], text).content

(* parseUrl depends on the path alone.                                     *)
docInfo(file) ==
    LET text == readFile(file.bytes)
    IN  [title |-> parseTitle(text), content |-> parseContent(text), url |-> <<file.url>>]

(* The line saveDocInfo writes for a document.                             *)
Record(doc) ==
    doc.title \o <<SEP>> \o doc.content \o <<SEP>> \o doc.url \o <<LF>>

Records(docs) == FlattenSeq([i \in DOMAIN docs |-> Record(docs[i])])

-----------------------------------------------------------------------------
(* What buildIndex makes of a raw file: std::getline, which also returns   *)
(* what follows the last line break, ...                                   *)
GetLine(state, c) ==
    IF c = LF THEN [lines |-> Append(state.lines, state.rest), rest |-> <<>>]
    ELSE [state EXCEPT !.rest = Append(@, c)]

Lines(text) ==
    LET end == FoldLeft(GetLine, [lines |-> <<>>, rest |-> <<>>], text)
    IN  IF end.rest = <<>> THEN end.lines ELSE Append(end.lines, end.rest)

(* ... and boost::split with token_compress_on: neighbouring separators    *)
(* count as one, and one at an end yields an empty field there.            *)
SplitStep(state, c) ==
    CASE c # SEP -> [state EXCEPT !.field = Append(@, c), !.inSep = FALSE]
      [] c = SEP /\ state.inSep -> state
      [] c = SEP /\ ~state.inSep ->
           [fields |-> Append(state.fields, state.field), field |-> <<>>, inSep |-> TRUE]

split(line) ==
    LET end == FoldLeft(SplitStep, [fields |-> <<>>, field |-> <<>>, inSep |-> FALSE], line)
    IN  Append(end.fields, end.field)

fileResults(text) == [i \in DOMAIN Lines(text) |-> split(Lines(text)[i])]

-----------------------------------------------------------------------------
ParserInit ==
    /\ tree \in Trees
    /\ ppc = "enum"
    /\ filesList = <<>>
    /\ parsed = 0
    /\ docResults = <<>>
    /\ written = 0
    /\ disk \in OldRaws
    /\ full = FALSE

(* Only regular files whose extension is .html are listed.                 *)
enumFile ==
    /\ ppc = "enum"
    /\ filesList' = Keep(tree, {i \in DOMAIN tree : tree[i].html})
    /\ ppc' = "parse"
    /\ UNCHANGED <<tree, parsed, docResults, written, disk, full>>

(* There is no data/input: main returns ENUM_ERROR.  The iterator throws   *)
(* on a directory it cannot read, which ends the program as well.          *)
EnumFails ==
    /\ ppc = "enum"
    /\ ppc' \in {"ENUM_ERROR", "killed"}
    /\ UNCHANGED <<tree, filesList, parsed, docResults, written, disk, full>>

(* A file that cannot be opened, or that has no title, is left out.        *)
parseDocInfo ==
    /\ ppc = "parse"
    /\ parsed < Len(filesList)
    /\ LET file == filesList[parsed + 1]
       IN  docResults' = IF file.opens /\ HasTitle(readFile(file.bytes))
                         THEN Append(docResults, docInfo(file))
                         ELSE docResults
    /\ parsed' = parsed + 1
    /\ UNCHANGED <<tree, ppc, filesList, written, disk, full>>

(* Mutant: the old file is continued.                                      *)
OpenAppend ==
    /\ ppc = "parse"
    /\ parsed = Len(filesList)
    /\ ppc' = "save"
    /\ UNCHANGED <<tree, filesList, parsed, docResults, written, disk, full>>

(* The stream is opened for output: what raw held is gone.                 *)
OpenOutput ==
    /\ ppc = "parse"
    /\ parsed = Len(filesList)
    /\ disk' = <<>>
    /\ ppc' = "save"
    /\ UNCHANGED <<tree, filesList, parsed, docResults, written, full>>

OpenOutputFails ==
    /\ ppc = "parse"
    /\ parsed = Len(filesList)
    /\ ppc' = "SAVEINFO_ERROR"
    /\ UNCHANGED <<tree, filesList, parsed, docResults, written, disk, full>>

(* out.write: the stream passes on what it likes of the text it holds.  On *)
(* a full disk the stream goes bad, which saveDocInfo never asks about.    *)
write ==
    /\ ppc = "save"
    /\ written < Len(docResults)
    /\ written' = written + 1
    /\ \/ full /\ UNCHANGED <<disk, full>>
       \/ /\ ~full
          /\ \E p \in Prefixes(Records(SubSeq(docResults, 1, written + 1))) :
               IsPrefix(disk, p) /\ disk' = p
          /\ full' \in BOOLEAN
    /\ UNCHANGED <<tree, ppc, filesList, parsed, docResults>>

(* out.close passes the rest on; main returns 0 either way.                *)
close ==
    /\ ppc = "save"
    /\ written = Len(docResults)
    /\ \/ full /\ UNCHANGED <<disk, full>>
       \/ ~full /\ disk' = Records(docResults) /\ UNCHANGED full
       \/ /\ ~full
          /\ \E p \in Prefixes(Records(docResults)) : IsPrefix(disk, p) /\ disk' = p
          /\ full' = TRUE
    /\ ppc' = "done"
    /\ UNCHANGED <<tree, filesList, parsed, docResults, written>>

(* The program may be killed between any two steps.                        *)
Kill ==
    /\ ppc \in {"enum", "parse", "save"}
    /\ ppc' = "killed"
    /\ UNCHANGED <<tree, filesList, parsed, docResults, written, disk, full>>

ParserNext ==
    \/ enumFile
    \/ EnumFails
    \/ parseDocInfo
    \/ OpenOutput
    \/ OpenOutputFails
    \/ write
    \/ close
    \/ Kill

ParserSpec == ParserInit /\ [][ParserNext]_parserVars

-----------------------------------------------------------------------------
(* Where a text is outside the tags, said without the state machine: after *)
(* the last '<' some tag has ended.                                        *)
Outside(text, i) ==
    /\ text[i] \notin Tags \cup {"<"}
    /\ \E j \in 1..(i - 1) : /\ text[j] \in Tags \cup {">"}
                             /\ \A k \in (j + 1)..(i - 1) : text[k] # "<"

TextOutsideTags(text) == Keep(text, {i \in DOMAIN text : Outside(text, i)})

(* The text of every document is what its file has outside the tags.       *)
ContentIsTextOutsideTags ==
    \A i \in DOMAIN docResults : \E f \in ToSet(tree) :
        /\ docResults[i].url = <<f.url>>
        /\ docResults[i].content = TextOutsideTags(readFile(f.bytes))

(* A title is outside the tags, so its words are also in the text: search  *)
(* finds them there for its summary (searcher.hpp:152) and the index       *)
(* counts them twice (index.hpp:212-231).                                  *)
TitleIsInContent ==
    \A i \in DOMAIN docResults :
        LET d == docResults[i]
        IN  ToSet(d.title) \cap (Tags \cup {"<"}) = {} =>
              \E b \in 0..(Len(d.content) - Len(d.title)) :
                 SubSeq(d.content, b + 1, b + Len(d.title)) = d.title

(* The fields survive the way through raw: when the program has written    *)
(* everything, getline and split give back every document, in order, as    *)
(* long as its text is not empty and holds no separator.                   *)
Plain(doc) == doc.content # <<>> /\ SEP \notin ToSet(doc.title \o doc.content)

Fields(doc) == <<doc.title, doc.content, doc.url>>

RawRoundTrip ==
    ppc = "done" /\ ~full =>
        /\ Len(fileResults(disk)) = Len(docResults)
        /\ \A i \in DOMAIN docResults :
             Plain(docResults[i]) => fileResults(disk)[i] = Fields(docResults[i])

(* Whenever the program stops after opening raw, killed or with the disk   *)
(* full, a reader finds a prefix of the documents: only the last line can  *)
(* be cut, and nothing of an older raw is left.                            *)
CutRawIsPrefix ==
    ppc \in {"save", "done"} =>
        /\ Len(Lines(disk)) <= Len(docResults)
        /\ \A i \in 1..(Len(Lines(disk)) - 1) :
             Plain(docResults[i]) => fileResults(disk)[i] = Fields(docResults[i])

(* Every line of a raw file written without error yields title, content    *)
(* and url, the fields buildForwardIndex reads (index.hpp:171).            *)
EveryLineHasThreeFields ==
    ppc = "done" /\ ~full =>
        \A i \in DOMAIN fileResults(disk) : Len(fileResults(disk)[i]) = 3
=============================================================================
