-------------------------- MODULE ConnectionProofs --------------------------
(***************************************************************************)
(* Proofs about one connection: how many responses it carries and which is *)
(* its last, that a range of the content is the one asked for, that a body *)
(* arrives as it was sent, that the k-th response answers the k-th         *)
(* request, and that a form arrives with the parts that were sent.         *)
(***************************************************************************)
EXTENDS Connection, MultipartProofs

BodyKinds == {"head", "blank", "junk", "zero", "size", "data"}
Kinds == {"request", "bad", "long"} \cup BodyKinds

BodySet(I) == [kind : BodyKinds, id : I, val : Chars, size : Int]
TokenSet(I) == [kind : Kinds, id : I, val : Chars, size : Int]

(* What the server needs to know of a request.                             *)
LEMMA RequestType ==
    ASSUME NEW r \in Request
    PROVE  /\ r.line \in {"ok", "bad", "long"}
           /\ r.method \in {"GET", "HEAD", "POST", "DELETE", "OPTIONS", "TRACE"}
           /\ r.framing \in {"none", "length", "chunked", "overlong", "garbled", "trailer"}
           /\ r.chunks \in Seq(Seq(STRING))
           /\ r.ranges \in Seq(Ranges)
           /\ r.parts \in Seq([name : Names, content : Seq(Chars)])
  BY DEF Request, Chunked

(* What a client writes for the parts of a form is a text.                 *)
LEMMA EncodeType ==
    ASSUME NEW parts \in Seq([name : Names, content : Seq(Chars)])
    PROVE  Encode(parts) \in Seq(Chars)
<1> DEFINE enc == [i \in DOMAIN parts |-> PartText(parts[i])]
<1>1. dash_ \in Seq(Chars) /\ crlf_ \in Seq(Chars)
  <2>1. "CR" \in Chars /\ "LF" \in Chars /\ "-" \in Chars
    BY DEF Chars
  <2> QED
    BY <2>1 DEF dash_, crlf_
<1>2. boundary_ \in Seq(Chars)
  BY MultipartAssumption
<1>3. \A s, t \in Seq(Chars) : s \o t \in Seq(Chars)
  OBVIOUS
<1>4. ASSUME NEW i \in 1..Len(parts) PROVE PartText(parts[i]) \in Seq(Chars)
  <2>1. parts[i] \in [name : Names, content : Seq(Chars)]
    BY ElementOfSeq, Zenon
  <2>2. PICK n \in Names, c \in Seq(Chars) : n = parts[i].name /\ c = parts[i].content
    BY <2>1
  <2>3. n \in Chars
    BY MultipartAssumption DEF Chars
  <2>4. <<n>> \in Seq(Chars)
    BY <2>3
  <2> QED
    BY <1>1, <1>2, <1>3, <2>2, <2>4, Zenon DEF PartText
<1>5. enc \in Pieces(Chars)
  <2>1. Len(parts) \in Nat /\ DOMAIN parts = 1..Len(parts)
    OBVIOUS
  <2>2. enc \in [1..Len(parts) -> Seq(Chars)]
    BY <1>4, <2>1
  <2> QED
    BY <2>1, <2>2 DEF Pieces
<1>6. FlattenSeq(enc) \in Seq(Chars)
  BY <1>5, FlattenType
<1>7. Encode(parts) = FlattenSeq(enc) \o Closing
  BY DEF Encode
<1>8. Closing \in Seq(Chars)
  BY <1>1, <1>2, <1>3, Zenon DEF Closing
<1> HIDE DEF enc
<1> QED
  BY <1>3, <1>6, <1>7, <1>8, Zenon

(* So is every body.                                                       *)
LEMMA BodyOfType ==
    ASSUME NEW r \in Request
    PROVE  BodyOf(r) \in Seq(Chars)
<1>1. r.chunks \in Pieces(STRING)
  BY RequestType DEF Pieces
<1>2. FlattenSeq(r.chunks) \in Seq(STRING)
  BY <1>1, FlattenType
<1>3. FlattenSeq(r.chunks) \in Seq(Chars)
  BY <1>2, SeqLarger DEF Chars
<1>4. Encode(r.parts) \in Seq(Chars)
  BY RequestType, EncodeType
<1> QED
  BY <1>3, <1>4 DEF BodyOf

(* The tokens of a text, one for each of its characters.                   *)
LEMMA BytesType ==
    ASSUME NEW I, NEW i \in I, NEW s \in Seq(Chars)
    PROVE  /\ Bytes(s, i) \in Seq(BodySet(I))
           /\ Len(Bytes(s, i)) = Len(s)
           /\ \A k \in 1..Len(s) : Bytes(s, i)[k] = Token("data", i, s[k], 0)
<1>1. Len(s) \in Nat /\ DOMAIN s = 1..Len(s)
  OBVIOUS
<1>2. ASSUME NEW k \in 1..Len(s) PROVE Token("data", i, s[k], 0) \in BodySet(I)
  BY DEF Token, BodySet, BodyKinds
<1>3. Bytes(s, i) \in [1..Len(s) -> BodySet(I)]
  BY <1>1, <1>2 DEF Bytes
<1> QED
  BY <1>1, <1>3 DEF Bytes

(* A line of one of the kinds is a token.                                  *)
LEMMA LineType ==
    ASSUME NEW I, NEW i \in I, NEW kind \in BodyKinds
    PROVE  <<Line(kind, i)>> \in Seq(BodySet(I))
<1>1. Line(kind, i) \in BodySet(I)
  BY DEF Line, Token, BodySet, Chars
<1> QED
  BY <1>1

(* The tokens of a chunk belong to its request.                            *)
LEMMA ChunkTokensType ==
    ASSUME NEW I, NEW i \in I, NEW chunk \in Seq(STRING), NEW k \in Int
    PROVE  ChunkTokens(chunk, i, k) \in Seq(BodySet(I))
<1>1. Token("size", i, "", k) \in BodySet(I)
  BY DEF Token, BodySet, BodyKinds, Chars
<1>2. <<Token("size", i, "", k)>> \in Seq(BodySet(I))
  <2>1. \A t \in BodySet(I) : <<t>> \in Seq(BodySet(I))
    OBVIOUS
  <2> QED
    BY <1>1, <2>1, Zenon
<1>3. Bytes(chunk, i) \in Seq(BodySet(I))
  <2>1. STRING \subseteq Chars
    BY DEF Chars
  <2>2. chunk \in Seq(Chars)
    BY <2>1, SeqLarger
  <2> QED
    BY <2>2, BytesType
<1>4. <<Line("blank", i)>> \in Seq(BodySet(I))
  BY LineType DEF BodyKinds
<1>5. \A s, t \in Seq(BodySet(I)) : s \o t \in Seq(BodySet(I))
  OBVIOUS
<1> QED
  BY <1>2, <1>3, <1>4, <1>5, Zenon DEF ChunkTokens

(* The pieces of a chunked body.                                           *)
ChunkPieces(r, i) ==
    [k \in DOMAIN r.chunks |->
        ChunkTokens(r.chunks[k], i, Len(r.chunks[k]) - (IF r.framing = "overlong" THEN 1 ELSE 0))]

(* So do those of all chunks of a request, chunk by chunk.                 *)
LEMMA ChunkPiecesType ==
    ASSUME NEW I, NEW i \in I, NEW r \in Request
    PROVE  /\ ChunkPieces(r, i) \in Pieces(BodySet(I))
           /\ Len(ChunkPieces(r, i)) = Len(r.chunks)
<1>1. r.chunks \in Pieces(STRING)
  BY RequestType DEF Pieces
<1>2. /\ Len(r.chunks) \in Nat
      /\ DOMAIN r.chunks = 1..Len(r.chunks)
      /\ \A k \in 1..Len(r.chunks) : r.chunks[k] \in Seq(STRING) /\ Len(r.chunks[k]) \in Nat
  BY <1>1, PiecesType
<1> DEFINE K(k) == Len(r.chunks[k]) - (IF r.framing = "overlong" THEN 1 ELSE 0)
<1>3. ASSUME NEW k \in 1..Len(r.chunks) PROVE ChunkTokens(r.chunks[k], i, K(k)) \in Seq(BodySet(I))
  <2>1. K(k) \in Int
    BY <1>2
  <2> HIDE DEF K
  <2> QED
    BY <1>2, <2>1, ChunkTokensType
<1>4. ChunkPieces(r, i) = [k \in 1..Len(r.chunks) |-> ChunkTokens(r.chunks[k], i, K(k))]
  BY <1>2 DEF ChunkPieces
<1> HIDE DEF K
<1>5. ChunkPieces(r, i) \in [1..Len(r.chunks) -> Seq(BodySet(I))]
  BY <1>3, <1>4
<1>6. PICK f : f = ChunkPieces(r, i)
  OBVIOUS
<1>7. f \in [1..Len(r.chunks) -> Seq(BodySet(I))]
  BY <1>5, <1>6
<1>8. PICK n \in Nat : n = Len(r.chunks)
  BY <1>2
<1>9. f \in Seq(Seq(BodySet(I))) /\ Len(f) = n
  BY <1>7, <1>8
<1> QED
  BY <1>6, <1>8, <1>9 DEF Pieces

(* The tokens of a body, however it is framed, hold no request line.       *)
LEMMA BodyTokensType ==
    ASSUME NEW I, NEW i \in I, NEW r \in Request
    PROVE  BodyTokens(r, i) \in Seq(BodySet(I))
<1>1. Bytes(BodyOf(r), i) \in Seq(BodySet(I))
  BY BodyOfType, BytesType
<1>2. FlattenSeq(ChunkPieces(r, i)) \in Seq(BodySet(I))
  BY ChunkPiecesType, FlattenType
<1>3. /\ <<Line("junk", i)>> \in Seq(BodySet(I))
      /\ <<Line("zero", i)>> \in Seq(BodySet(I))
      /\ <<Line("head", i)>> \in Seq(BodySet(I))
      /\ <<Line("blank", i)>> \in Seq(BodySet(I))
  BY LineType DEF BodyKinds
<1>4. <<>> \in Seq(BodySet(I))
  BY EmptySeq
<1>5. \A s, t \in Seq(BodySet(I)) : s \o t \in Seq(BodySet(I))
  OBVIOUS
<1>6. (IF r.framing = "garbled" THEN <<Line("junk", i)>> ELSE <<>>) \in Seq(BodySet(I))
  BY <1>3, <1>4
<1>7. (IF r.framing = "trailer" THEN <<Line("head", i)>> ELSE <<>>) \in Seq(BodySet(I))
  BY <1>3, <1>4
<1> QED
  BY <1>1, <1>2, <1>3, <1>5, <1>6, <1>7, Zenon DEF BodyTokens, ChunkPieces

(* The tokens of a request.                                                *)
LEMMA RequestTokensType ==
    ASSUME NEW I, NEW i \in I, NEW r \in Request
    PROVE  RequestTokens(r, i) \in Seq(TokenSet(I))
<1> DEFINE kind == IF r.line = "ok" THEN "request" ELSE r.line
<1>1. kind \in Kinds /\ "head" \in Kinds /\ "blank" \in Kinds
  BY RequestType DEF Kinds, BodyKinds
<1>2. /\ Line(kind, i) \in TokenSet(I)
      /\ Line("head", i) \in TokenSet(I)
      /\ Line("blank", i) \in TokenSet(I)
  BY <1>1 DEF Line, Token, TokenSet, Chars
<1>3. <<Line(kind, i), Line("head", i), Line("blank", i)>> \in Seq(TokenSet(I))
  BY <1>2
<1>4. BodyTokens(r, i) \in Seq(BodySet(I))
  BY BodyTokensType
<1>5. BodySet(I) \subseteq TokenSet(I)
  BY DEF BodySet, TokenSet, Kinds
<1>6. BodyTokens(r, i) \in Seq(TokenSet(I))
  BY <1>4, <1>5, SeqLarger
<1> QED
  BY <1>3, <1>6 DEF RequestTokens

(* The tokens of a client's stream belong to its requests.                 *)
LEMMA StreamType ==
    ASSUME NEW s \in Seq(Request)
    PROVE  /\ [i \in DOMAIN s |-> RequestTokens(s[i], i)] \in Pieces(TokenSet(DOMAIN s))
           /\ Stream(s) \in Seq(TokenSet(DOMAIN s))
<1> DEFINE enc == [i \in DOMAIN s |-> RequestTokens(s[i], i)]
<1>1. Len(s) \in Nat /\ DOMAIN s = 1..Len(s) /\ \A i \in 1..Len(s) : s[i] \in Request
  OBVIOUS
<1>2. ASSUME NEW i \in 1..Len(s) PROVE RequestTokens(s[i], i) \in Seq(TokenSet(DOMAIN s))
  BY <1>1, RequestTokensType
<1>3. enc \in [1..Len(s) -> Seq(TokenSet(DOMAIN s))]
  BY <1>1, <1>2
<1> HIDE DEF enc
<1>4. enc \in Pieces(TokenSet(DOMAIN s))
  BY <1>1, <1>3 DEF Pieces
<1>5. FlattenSeq(enc) \in Seq(TokenSet(DOMAIN s))
  BY <1>4, FlattenType
<1> QED
  BY <1>4, <1>5 DEF Stream, enc

-----------------------------------------------------------------------------
(* Ranges: what get_range_offset_and_length and substr make of one.        *)
LEMMA RangeSlice ==
    ASSUME NEW r \in Ranges
    PROVE  IF OutOfRange(r) THEN Wanted(r) = {} ELSE Slice(r) = Wanted(r)
<1>1. PICK a \in Nat \cup {-1}, b \in Nat \cup {-1} : r = <<a, b>> /\ r[1] = a /\ r[2] = b
  BY DEF Ranges
<1>2. PICK n \in Nat : n = ContentLength /\ n > 0
  BY ConnectionAssumption
<1>3. CASE a = -1 /\ b = -1
  <2>1. r = <<-1, -1>>
    BY <1>1, <1>3
  <2>2. get_range_offset_and_length(r) = <<0, n>>
    BY <1>2, <2>1 DEF get_range_offset_and_length
  <2>3. ~OutOfRange(r) /\ Slice(r) = 1..n
    BY <1>2, <2>2 DEF OutOfRange, Slice
  <2>4. Wanted(r) = 1..n
    BY <1>2, <2>1 DEF Wanted
  <2> QED
    BY <2>3, <2>4
<1>4. CASE a = -1 /\ b # -1
  <2>1. r # <<-1, -1>> /\ r[1] = -1 /\ r[2] # -1 /\ b \in Nat
    BY <1>1, <1>4
  <2>2. PICK f \in Nat : f = IF n > b THEN n - b ELSE 0
    BY <1>2, <2>1
  <2>3. get_range_offset_and_length(r) = <<f, n - f>>
    BY <1>1, <1>2, <2>1, <2>2 DEF get_range_offset_and_length
  <2>4. OutOfRange(r) <=> f >= n
    BY <1>2, <2>3 DEF OutOfRange
  <2>5. Slice(r) = f + 1..n
    BY <1>2, <2>2, <2>3 DEF Slice
  <2>6. Wanted(r) = {p \in 1..n : p > n - b}
    BY <1>1, <1>2, <2>1 DEF Wanted
  <2>7. \A p : p \in 1..n /\ p > n - b <=> p \in f + 1..n
    BY <1>2, <2>1, <2>2
  <2>8. f >= n => \A p : p \notin f + 1..n
    BY <1>2, <2>2
  <2> QED
    BY <2>4, <2>5, <2>6, <2>7, <2>8
<1>5. CASE a # -1
  <2>1. r # <<-1, -1>> /\ r[1] # -1 /\ a \in Nat
    BY <1>1, <1>5
  <2>2. PICK l \in Nat : l = IF b = -1 THEN n - 1 ELSE b
    BY <1>2
  <2>3. get_range_offset_and_length(r) = <<a, l - a + 1>>
    BY <1>1, <1>2, <2>1, <2>2 DEF get_range_offset_and_length
  <2>4. OutOfRange(r) <=> a >= n
    BY <1>2, <2>3 DEF OutOfRange
  <2>5. Slice(r) = a + 1..(IF a + (l - a + 1) < n THEN a + (l - a + 1) ELSE n)
    BY <1>2, <2>3 DEF Slice
  <2>6. Wanted(r) = {p \in 1..n : p > a /\ (b = -1 \/ p <= b + 1)}
    BY <1>1, <1>2, <2>1 DEF Wanted
  <2>7. \A p : p \in 1..n /\ p > a /\ (b = -1 \/ p <= b + 1)
               <=> p \in a + 1..(IF a + (l - a + 1) < n THEN a + (l - a + 1) ELSE n)
    BY <1>2, <2>1, <2>2
  <2>8. a >= n => \A p \in 1..n : ~(p > a)
    BY <1>2, <2>1
  <2> QED
    BY <2>4, <2>5, <2>6, <2>7, <2>8
<1> QED
  BY <1>3, <1>4, <1>5

(* The status and the slices that such ranges call for.                    *)
ExactSlices(status, slices, ranges) ==
    IF status = 416
    THEN \E i \in DOMAIN ranges : Wanted(ranges[i]) = {}
    ELSE slices = IF ranges = <<>> THEN <<1..ContentLength>>
                  ELSE [i \in DOMAIN ranges |-> Wanted(ranges[i])]

(* What routing answers to a request: to a GET the ranges asked for, to    *)
(* one with a body 404.                                                    *)
LEMMA RoutingExact ==
    ASSUME NEW r \in Request
    PROVE  /\ routing(r).status \in {200, 206, 400, 404, 416}
           /\ r.method = "GET" => ExactSlices(routing(r).status, routing(r).slices, r.ranges)
           /\ expect_content(r) => routing(r).status = 404
<1>1. r.method \in {"GET", "HEAD", "POST", "DELETE", "OPTIONS", "TRACE"}
  BY RequestType
<1>2. \A i \in DOMAIN r.ranges : r.ranges[i] \in Ranges
  <2>1. r.ranges \in Seq(Ranges)
    BY RequestType
  <2>2. PICK s : s = r.ranges
    OBVIOUS
  <2>3. \A i \in DOMAIN s : s[i] \in Ranges
    BY <2>1, <2>2
  <2> QED
    BY <2>2, <2>3
<1>3. \A i \in DOMAIN r.ranges :
         IF OutOfRange(r.ranges[i]) THEN Wanted(r.ranges[i]) = {}
         ELSE Slice(r.ranges[i]) = Wanted(r.ranges[i])
  BY <1>2, RangeSlice
<1>4. CASE r.method \in {"GET", "HEAD"} /\ \E i \in DOMAIN r.ranges : OutOfRange(r.ranges[i])
  <2>1. routing(r) = [status |-> 416, slices |-> <<>>]
    BY <1>4 DEF routing
  <2>2. \E i \in DOMAIN r.ranges : Wanted(r.ranges[i]) = {}
    BY <1>3, <1>4
  <2>3. ~expect_content(r)
    BY <1>4 DEF expect_content
  <2> QED
    BY <2>1, <2>2, <2>3 DEF ExactSlices
<1>5. CASE r.method \in {"GET", "HEAD"} /\ \A i \in DOMAIN r.ranges : ~OutOfRange(r.ranges[i])
  <2>1. routing(r) = [status |-> IF r.target = "page" \/ r.ranges = <<>> THEN 200 ELSE 206,
                      slices |-> IF r.method = "HEAD" THEN <<>> ELSE Slices(r)]
    BY <1>5 DEF routing
  <2>2. routing(r).status \in {200, 206}
    BY <2>1
  <2>3. r.method = "GET" => routing(r).slices = Slices(r)
    BY <2>1
  <2>4. [i \in DOMAIN r.ranges |-> Slice(r.ranges[i])] = [i \in DOMAIN r.ranges |-> Wanted(r.ranges[i])]
    BY <1>3, <1>5
  <2>5. ~expect_content(r)
    BY <1>5 DEF expect_content
  <2> QED
    BY <2>2, <2>3, <2>4, <2>5 DEF ExactSlices, Slices
<1>6. CASE r.method \in {"POST", "DELETE", "OPTIONS"}
  <2>1. routing(r) = [status |-> 404, slices |-> <<>>]
    BY <1>6 DEF routing
  <2> QED
    BY <1>6, <2>1
<1>7. CASE r.method = "TRACE"
  <2>1. routing(r) = [status |-> 400, slices |-> <<>>]
    BY <1>7 DEF routing
  <2> QED
    BY <1>7, <2>1 DEF expect_content
<1> QED
  BY <1>1, <1>4, <1>5, <1>6, <1>7

(* A header that parse_range_header refuses holds an empty range.          *)
LEMMA RefusedRange ==
    ASSUME NEW r \in Request, ~parse_range_header(r.ranges)
    PROVE  \E i \in DOMAIN r.ranges : Wanted(r.ranges[i]) = {}
<1>1. PICK i \in DOMAIN r.ranges :
         r.ranges[i][1] # -1 /\ r.ranges[i][2] # -1 /\ r.ranges[i][1] > r.ranges[i][2]
  BY DEF parse_range_header
<1>2. PICK s : s = r.ranges
  OBVIOUS
<1>3. s \in Seq(Ranges)
  BY <1>2, RequestType
<1>4. PICK q \in Ranges : q = s[i]
  BY <1>1, <1>2, <1>3
<1>5. q[1] \in Nat /\ q[2] \in Nat /\ q[1] > q[2] /\ q # <<-1, -1>> /\ q[1] # -1
  BY <1>1, <1>2, <1>4 DEF Ranges
<1>6. Wanted(q) = {p \in 1..ContentLength : p > q[1] /\ (q[2] = -1 \/ p <= q[2] + 1)}
  BY <1>5 DEF Wanted
<1>7. \A p \in 1..ContentLength : ~(p > q[1] /\ (q[2] = -1 \/ p <= q[2] + 1))
  BY <1>5, ConnectionAssumption
<1>8. Wanted(q) = {}
  BY <1>6, <1>7
<1> QED
  BY <1>1, <1>2, <1>4, <1>8

(* The parts of the state whose types the server relies on: the tokens are *)
(* of requests of this client, and so is the request that is being read.   *)
BodyStates == {"size", "data", "crlf", "last", "rest"}
Reading == {"head", "route"} \cup BodyStates

ConnType ==
    /\ requests \in Seq(Request)
    /\ unsent \in Seq(TokenSet(DOMAIN requests))
    /\ avail \in Seq(TokenSet(DOMAIN requests))
    /\ id \in {0} \cup DOMAIN requests
    /\ pc \in {"keepalive", "line", "dummy", "closed"} \cup Reading
    /\ pc \in Reading => id \in DOMAIN requests
    /\ pc \in BodyStates => expect_content(requests[id])

(* The tokens that have arrived.                                           *)
LEMMA AvailType ==
    ASSUME ConnType
    PROVE  /\ Len(avail) \in Nat
           /\ DOMAIN avail = 1..Len(avail)
           /\ \A k \in 1..Len(avail) : avail[k] \in TokenSet(DOMAIN requests)
  BY DEF ConnType

(* Where the next line ends.                                               *)
LEMMA LineEndLeast ==
    ASSUME ConnType, LineEnds # {}
    PROVE  LineEnd \in LineEnds /\ \A k \in LineEnds : LineEnd <= k
<1>1. LineEnds \in SUBSET Nat
  BY AvailType DEF LineEnds
<1>2. \E p \in LineEnds : \A q \in LineEnds : p <= q
  BY <1>1, LeastElement
<1> QED
  BY <1>2, Zenon DEF LineEnd

(* A line that getline returns has at least one token.                     *)
LEMMA LineLengthType ==
    ASSUME ConnType, HasLine
    PROVE  LineLength \in 1..Len(avail) /\ avail # <<>>
<1>1. CASE LineEnds # {}
  <2>1. LineEnd \in DOMAIN avail
    BY <1>1, LineEndLeast DEF LineEnds
  <2> QED
    BY <1>1, <2>1, AvailType DEF LineLength
<1>2. CASE LineEnds = {} /\ avail # <<>>
  <2>1. Len(avail) # 0
    BY <1>2 DEF ConnType
  <2> QED
    BY <1>2, <2>1, AvailType DEF LineLength
<1> QED
  BY <1>1, <1>2 DEF HasLine

(* The headers end within what has arrived.                                *)
LEMMA HeadEndType ==
    ASSUME ConnType, Blanks # {}
    PROVE  HeadEnd \in 1..Len(avail) /\ HeadEnd \in Blanks /\ \A k \in Blanks : HeadEnd <= k
<1>1. Blanks \in SUBSET Nat
  BY AvailType DEF Blanks
<1>2. \E p \in Blanks : \A q \in Blanks : p <= q
  BY <1>1, LeastElement
<1>3. HeadEnd \in Blanks /\ \A k \in Blanks : HeadEnd <= k
  BY <1>2, Zenon DEF HeadEnd
<1> QED
  BY <1>3, AvailType DEF Blanks

-----------------------------------------------------------------------------
(* Every step of the server is one of these: it says nothing, or a 100, or *)
(* it ends a request.  Busy: no response has said that the connection      *)
(* ends, unless a read has timed out.                                      *)
Busy == pc \notin {"closed", "keepalive"} /\ (pc = "line" => avail # <<>>)

Silent ==
    /\ count' = count
    /\ \/ /\ out' = out
          /\ pc' = "closed" \/ (pc = "keepalive" /\ pc' = "line" /\ avail' = avail)
       \/ Busy /\ out' = out
       \/ Busy /\ \E o : o.status = 100 /\ ~o.close /\ out' = Append(out, o)

Answer(st, slices, headers, closed) ==
    /\ Busy
    /\ Reply(st, slices, headers, closed)
    /\ st # 100
    /\ headers /\ requests[id'].connection = "close" =>
          closed \/ (~late' => fin /\ avail' = <<>>)
    /\ id' # 0 /\ requests[id'].method = "GET" /\ st \in {200, 206, 416} =>
          ExactSlices(st, slices, requests[id'].ranges)

Shape ==
    /\ pc # "closed"
    /\ late => late'
    /\ UNCHANGED clientVars
    /\ Silent \/ \E st, slices, headers, closed : Answer(st, slices, headers, closed)

(* The end of read_content is an answer.                                   *)
LEMMA ContentReadShape ==
    ASSUME ConnType, NEW ok, pc \in BodyStates, id' = id, late => late', UNCHANGED clientVars,
           ContentRead(ok)
    PROVE  Shape
<1> DEFINE r == requests[id]
           st == IF ok /\ (r.parts # <<>> => form'.valid) THEN routing(r).status ELSE 400
<1>1. r \in Request /\ expect_content(r)
  BY DEF ConnType, Reading
<1>2. st \in {400, 404}
  BY <1>1, RoutingExact
<1>3. Reply(st, <<>>, TRUE, ConnectionClosed(r))
  BY DEF ContentRead
<1>4. Busy
  BY DEF Busy, BodyStates
<1>5. requests[id'].connection = "close" => ConnectionClosed(r)
  BY DEF ConnectionClosed
<1> HIDE DEF st
<1>6. Answer(st, <<>>, TRUE, ConnectionClosed(r))
  <2>1. st # 100 /\ st \notin {200, 206, 416}
    BY <1>2
  <2> QED
    BY <1>3, <1>4, <1>5, <2>1, Zenon DEF Answer
<1>7. pc # "closed"
  BY DEF BodyStates
<1> QED
  BY <1>6, <1>7 DEF Shape

(* A step within a request that writes nothing.                            *)
LEMMA SilentShape ==
    ASSUME Busy, late => late', UNCHANGED clientVars, count' = count, out' = out
    PROVE  Shape
  BY DEF Busy, Shape, Silent

(* Every step of the server is of that shape.                              *)
LEMMA ServerShape ==
    ASSUME ConnType, Server
    PROVE  Shape
<1>1. CASE keep_alive
  BY <1>1 DEF keep_alive, Shape, Silent
<1>2. CASE ReadLine
  <2>1. Busy
    BY <1>2, LineLengthType DEF ReadLine, Busy
  <2>2. UNCHANGED clientVars /\ late' = late
    BY <1>2 DEF ReadLine
  <2>3. CASE Reply(400, <<>>, FALSE, FALSE)
    <3>1. Answer(400, <<>>, FALSE, FALSE)
      <4>1. 400 # 100 /\ 400 \notin {200, 206, 416}
        OBVIOUS
      <4> QED
        BY <2>1, <2>3, <4>1, Zenon DEF Answer
    <3> QED
      BY <2>1, <2>2, <3>1 DEF Shape, Busy
  <2>4. CASE UNCHANGED <<count, need, out>>
    BY <2>1, <2>2, <2>4, SilentShape
  <2> QED
    BY <1>2, <2>3, <2>4 DEF ReadLine
<1>3. CASE ReadLineFails
  BY <1>3 DEF ReadLineFails, Shape, Silent
<1>4. CASE SkipHeaders
  <2>1. Busy /\ pc # "closed"
    BY <1>4 DEF SkipHeaders, Busy
  <2>2. UNCHANGED clientVars /\ (late => late')
    <3>1. UNCHANGED clientVars
      BY <1>4 DEF SkipHeaders
    <3>2. late' = late \/ late' = (late \/ ~fin)
      BY <1>4, Zenon DEF SkipHeaders
    <3>3. late => late'
      BY <3>2
    <3> QED
      BY <3>1, <3>3
  <2>3. PICK st \in {500, 414} : Reply(st, <<>>, FALSE, FALSE)
    BY <1>4 DEF SkipHeaders
  <2>4. Answer(st, <<>>, FALSE, FALSE)
    <3>1. st # 100 /\ st \notin {200, 206, 416}
      OBVIOUS
    <3> QED
      BY <2>1, <2>3, <3>1, Zenon DEF Answer
  <2> QED
    BY <2>1, <2>2, <2>4 DEF Shape
<1>5. CASE ReadHeaders
  <2> DEFINE r == requests[id]
  <2>1. Busy /\ pc # "closed" /\ id \in DOMAIN requests
    BY <1>5 DEF ReadHeaders, Busy, ConnType, Reading
  <2>2. UNCHANGED clientVars /\ late' = late /\ id' = id
    BY <1>5 DEF ReadHeaders
  <2>3. r \in Request
    BY <2>1 DEF ConnType
  <2>4. CASE ~parse_range_header(r.ranges) /\ Reply(416, <<>>, TRUE, ConnectionClosed(r))
    <3>1. ExactSlices(416, <<>>, r.ranges)
      BY <2>3, <2>4, RefusedRange DEF ExactSlices
    <3>2. requests[id'].connection = "close" => ConnectionClosed(r)
      BY <2>2 DEF ConnectionClosed
    <3>3. Answer(416, <<>>, TRUE, ConnectionClosed(r))
      <4>1. 416 # 100 /\ ExactSlices(416, <<>>, requests[id'].ranges)
        BY <2>2, <3>1
      <4> QED
        BY <2>1, <2>4, <3>2, <4>1, Zenon DEF Answer
    <3> QED
      BY <2>1, <2>2, <3>3 DEF Shape
  <2>5. CASE out' = Continue(r) /\ UNCHANGED <<count, need>>
    <3> DEFINE o == [id |-> id, status |-> 100, slices |-> <<>>,
                     body |-> <<>>, parts |-> <<>>, close |-> FALSE]
    <3>1. out' = Append(out, o) \/ out' = out
      BY <2>5 DEF Continue
    <3>2. o.status = 100 /\ ~o.close
      OBVIOUS
    <3> HIDE DEF o
    <3>3. Silent
      BY <2>1, <2>5, <3>1, <3>2 DEF Silent
    <3> QED
      BY <2>1, <2>2, <3>3 DEF Shape
  <2> QED
    BY <1>5, <2>4, <2>5 DEF ReadHeaders
<1>6. CASE Route
  <2> DEFINE r == requests[id]
             plan == ContentPlan(r)
  <2>1. Busy /\ pc # "closed" /\ id \in DOMAIN requests
    BY <1>6 DEF Route, Busy, ConnType, Reading
  <2>2. UNCHANGED clientVars /\ late' = late /\ id' = id
    BY <1>6 DEF Route
  <2>3. r \in Request
    BY <2>1 DEF ConnType
  <2>4. requests[id'].connection = "close" => ConnectionClosed(r)
    BY <2>2 DEF ConnectionClosed
  <2>5. CASE UNCHANGED <<count, out>>
    BY <2>1, <2>2, <2>5, SilentShape
  <2>6. CASE Reply(routing(r).status, routing(r).slices, TRUE, ConnectionClosed(r))
    <3>1. /\ routing(r).status # 100
          /\ r.method = "GET" => ExactSlices(routing(r).status, routing(r).slices, r.ranges)
      BY <2>3, RoutingExact
    <3>2. Answer(routing(r).status, routing(r).slices, TRUE, ConnectionClosed(r))
      BY <2>1, <2>2, <2>4, <2>6, <3>1 DEF Answer
    <3> QED
      BY <2>1, <2>2, <3>2 DEF Shape
  <2>7. CASE \E st \in {400, 415} : Reply(st, <<>>, TRUE, ConnectionClosed(r))
    <3>1. PICK st \in {400, 415} : Reply(st, <<>>, TRUE, ConnectionClosed(r))
      BY <2>7
    <3>2. Answer(st, <<>>, TRUE, ConnectionClosed(r))
      <4>1. st # 100 /\ st \notin {200, 206, 416}
        OBVIOUS
      <4> QED
        BY <2>1, <2>4, <3>1, <4>1, Zenon DEF Answer
    <3> QED
      BY <2>1, <2>2, <3>2 DEF Shape
  <2> QED
    BY <1>6, <2>5, <2>6, <2>7 DEF Route
<1>7. CASE ReadHeadersFails
  <2>1. Busy /\ pc # "closed"
    BY <1>7 DEF ReadHeadersFails, Busy
  <2>2. /\ UNCHANGED clientVars
        /\ late' = (late \/ ~fin)
        /\ avail' = <<>>
    BY <1>7 DEF ReadHeadersFails
  <2>3. PICK headers : Reply(400, <<>>, headers, FALSE)
    BY <1>7 DEF ReadHeadersFails
  <2>4. ~late' => fin /\ avail' = <<>>
    BY <2>2
  <2>5. Answer(400, <<>>, headers, FALSE)
    <3>1. 400 # 100 /\ 400 \notin {200, 206, 416}
      OBVIOUS
    <3> QED
      BY <2>1, <2>3, <2>4, <3>1, Zenon DEF Answer
  <2> QED
    BY <2>1, <2>2, <2>5 DEF Shape
<1>8. CASE ContentFails
  <2>1. pc \in BodyStates /\ id' = id /\ late' = (late \/ ~fin) /\ UNCHANGED clientVars
    BY <1>8 DEF ContentFails, BodyStates
  <2>2. ContentRead(FALSE)
    BY <1>8 DEF ContentFails
  <2> QED
    BY <2>1, <2>2, ContentReadShape
<1>9. CASE ReadRest
  <2>1. pc \in BodyStates /\ id' = id /\ late' = late /\ UNCHANGED clientVars /\ ContentRead(TRUE)
    BY <1>9 DEF ReadRest, BodyStates
  <2> QED
    BY <2>1, ContentReadShape
<1>10. ASSUME NEW n \in 1..Len(avail), ReadData(n) PROVE Shape
  <2>1. pc \in BodyStates /\ Busy /\ id' = id /\ late' = late /\ UNCHANGED clientVars
    BY <1>10 DEF ReadData, BodyStates, Busy
  <2>2. ContentRead(TRUE) \/ ContentRead(FALSE) \/ UNCHANGED <<count, out>>
    BY <1>10 DEF ReadData
  <2> QED
    BY <2>1, <2>2, ContentReadShape, SilentShape
<1>11. CASE ReadSize
  <2>1. pc \in BodyStates /\ Busy /\ id' = id /\ late' = late /\ UNCHANGED clientVars
    BY <1>11 DEF ReadSize, BodyStates, Busy
  <2>2. ContentRead(FALSE) \/ UNCHANGED <<count, out>>
    BY <1>11 DEF ReadSize
  <2> QED
    BY <2>1, <2>2, ContentReadShape, SilentShape
<1>12. CASE ReadCrlf
  <2>1. pc \in BodyStates /\ Busy /\ id' = id /\ late' = late /\ UNCHANGED clientVars
    BY <1>12 DEF ReadCrlf, BodyStates, Busy
  <2>2. ContentRead(TRUE) \/ UNCHANGED <<count, out>>
    BY <1>12 DEF ReadCrlf
  <2> QED
    BY <2>1, <2>2, ContentReadShape, SilentShape
<1>13. CASE ReadLast
  <2>1. pc \in BodyStates /\ id' = id /\ late' = late /\ UNCHANGED clientVars
    BY <1>13 DEF ReadLast, BodyStates
  <2>2. \E ok : ContentRead(ok)
    BY <1>13 DEF ReadLast
  <2> QED
    BY <2>1, <2>2, ContentReadShape
<1> QED
  BY <1>1, <1>2, <1>3, <1>4, <1>5, <1>6, <1>7, <1>8, <1>9, <1>10, <1>11, <1>12, <1>13 DEF Server

-----------------------------------------------------------------------------
(* The types are kept.                                                     *)
LEMMA TypeStarts == ConnectionInit => ConnType
<1> SUFFICES ASSUME ConnectionInit PROVE ConnType
  OBVIOUS
<1>1. /\ requests \in Scripts
      /\ unsent = Stream(requests)
      /\ avail = <<>>
      /\ pc = "keepalive"
      /\ id = 0
  BY DEF ConnectionInit
<1>2. requests \in Seq(Request)
  BY <1>1, ScriptsAssumption
<1>3. Stream(requests) \in Seq(TokenSet(DOMAIN requests))
  BY <1>2, StreamType
<1>4. <<>> \in Seq(TokenSet(DOMAIN requests))
  BY EmptySeq
<1> QED
  BY <1>1, <1>2, <1>3, <1>4 DEF ConnType, Reading, BodyStates

(* The client's steps keep the types, and lose nothing of the stream.      *)
LEMMA SendTypes ==
    ASSUME ConnType, NEW n \in 1..Len(unsent), Send(n)
    PROVE  /\ ConnType'
           /\ avail' \o unsent' = avail \o unsent
<1>1. PICK S : S = TokenSet(DOMAIN requests)
  OBVIOUS
<1>2. unsent \in Seq(S) /\ avail \in Seq(S) /\ Len(unsent) \in Nat
  BY <1>1 DEF ConnType
<1>3. n \in 0..Len(unsent)
  BY <1>2
<1>4. Erase(unsent, n) \in Seq(S)
  BY <1>2, <1>3, EraseType
<1>5. SubSeq(unsent, 1, n) \in Seq(S)
  <2>1. \A i \in 1..n : unsent[i] \in S
    BY <1>2
  <2> QED
    BY <1>2, <2>1, SubSeqProperties
<1>6. avail \o SubSeq(unsent, 1, n) \in Seq(S)
  BY <1>2, <1>5
<1>7. /\ avail' = avail \o SubSeq(unsent, 1, n)
      /\ unsent' = Erase(unsent, n)
      /\ UNCHANGED <<requests, pc, id>>
  BY DEF Send
<1>8. ConnType'
  BY <1>1, <1>4, <1>6, <1>7 DEF ConnType
<1>9. SubSeq(unsent, 1, n) \o Erase(unsent, n) = unsent
  <2>1. SubSeq(unsent, 1, n) \o SubSeq(unsent, n + 1, Len(unsent)) = SubSeq(unsent, 1, Len(unsent))
    <3>1. 1 \in 1..Len(unsent) + 1 /\ n \in 1 - 1..Len(unsent) /\ Len(unsent) \in n..Len(unsent)
      BY <1>2
    <3> QED
      BY <1>2, <3>1, ConcatAdjacentSubSeq
  <2>2. SubSeq(unsent, 1, Len(unsent)) = unsent
    BY <1>2, SubSeqFull
  <2> QED
    BY <2>1, <2>2 DEF Erase
<1>10. (avail \o SubSeq(unsent, 1, n)) \o Erase(unsent, n) = avail \o unsent
  <2>1. PICK a \in Seq(S), b \in Seq(S) : a = SubSeq(unsent, 1, n) /\ b = Erase(unsent, n)
    BY <1>4, <1>5
  <2>2. (avail \o a) \o b = avail \o (a \o b)
    BY <1>2, ConcatAssociative, SMTT(30)
  <2> QED
    BY <1>9, <2>1, <2>2
<1> QED
  BY <1>7, <1>8, <1>10

(* What a step of the server leaves of the tokens that have arrived.       *)
Drop(n) == n \in 0..Len(avail) /\ avail' = Erase(avail, n)

(* A step of the server takes tokens from the front and no others.         *)
LEMMA ServerDrops ==
    ASSUME ConnType, Server
    PROVE  \E n \in 0..Len(avail) : Drop(n)
<1>1. Len(avail) \in Nat
  BY AvailType
<1>2. Erase(avail, 0) = avail
  <2>1. avail \in Seq(TokenSet(DOMAIN requests))
    BY DEF ConnType
  <2>2. SubSeq(avail, 1, Len(avail)) = avail
    BY <2>1, SubSeqFull
  <2> QED
    BY <2>2 DEF Erase
<1>3. Erase(avail, Len(avail)) = <<>>
  BY <1>1, SubSeqEmpty DEF Erase
<1>4. CASE avail' = avail
  <2>1. 0 \in 0..Len(avail)
    BY <1>1
  <2>2. Drop(0)
    BY <1>2, <1>4, <2>1 DEF Drop
  <2> QED
    BY <2>1, <2>2
<1>5. CASE avail' = <<>>
  <2>1. Len(avail) \in 0..Len(avail)
    BY <1>1
  <2>2. Drop(Len(avail))
    BY <1>3, <1>5, <2>1 DEF Drop
  <2> QED
    BY <2>1, <2>2
<1>6. CASE HasLine /\ avail' = AfterLine
  <2>1. LineLength \in 0..Len(avail)
    BY <1>1, <1>6, LineLengthType
  <2>2. Drop(LineLength)
    BY <1>6, <2>1 DEF Drop, AfterLine
  <2> QED
    BY <2>1, <2>2
<1>7. CASE Blanks # {} /\ avail' = Erase(avail, HeadEnd)
  <2>1. HeadEnd \in 0..Len(avail)
    BY <1>1, <1>7, HeadEndType
  <2>2. Drop(HeadEnd)
    BY <1>7, <2>1 DEF Drop
  <2> QED
    BY <2>1, <2>2
<1>8. ASSUME NEW n \in 1..Len(avail), ReadData(n) PROVE \E k \in 0..Len(avail) : Drop(k)
  <2>1. n \in 0..Len(avail)
    BY <1>1
  <2>2. Drop(n)
    BY <1>8, <2>1 DEF Drop, ReadData
  <2> QED
    BY <2>1, <2>2
<1>9. keep_alive => avail' = avail
  BY DEF keep_alive
<1>10. ReadLine \/ ReadSize \/ ReadCrlf \/ ReadLast => HasLine /\ avail' = AfterLine
  BY DEF ReadLine, ReadSize, ReadCrlf, ReadLast
<1>11. ReadLineFails \/ ReadHeadersFails \/ ContentFails \/ ReadRest => avail' = <<>>
  BY DEF ReadLineFails, ReadHeadersFails, ContentFails, ReadRest
<1>12. SkipHeaders => avail' = <<>> \/ (Blanks # {} /\ avail' = Erase(avail, HeadEnd))
  BY DEF SkipHeaders
<1>13. ReadHeaders => Blanks # {} /\ avail' = Erase(avail, HeadEnd)
  BY DEF ReadHeaders
<1>14. Route => avail' = avail
  BY DEF Route
<1> QED
  BY <1>4, <1>5, <1>6, <1>7, <1>8, <1>9, <1>10, <1>11, <1>12, <1>13, <1>14 DEF Server

(* A reply leaves the worker before the next request, or at the end.       *)
LEMMA ReplyPc ==
    ASSUME NEW st, NEW slices, NEW headers, NEW closed, Reply(st, slices, headers, closed)
    PROVE  pc' \in {"closed", "keepalive"}
  BY DEF Reply

(* So does the end of read_content.                                        *)
LEMMA ContentReadPc ==
    ASSUME NEW ok, ContentRead(ok)
    PROVE  pc' \in {"closed", "keepalive"}
  BY ReplyPc DEF ContentRead

(* While the worker reads a request, id is that of one; while it reads a   *)
(* body, that of one whose body is read.                                   *)
LEMMA ServerId ==
    ASSUME ConnType, Server
    PROVE  /\ id' \in {0} \cup DOMAIN requests
           /\ pc' \in {"keepalive", "line", "dummy", "closed"} \cup Reading
           /\ pc' \in Reading => id' \in DOMAIN requests
           /\ pc' \in BodyStates => expect_content(requests[id'])
<1> USE DEF Reading, BodyStates
<1>1. CASE keep_alive
  BY <1>1 DEF keep_alive, ConnType
<1>2. CASE ReadLine
  <2>1. LineLength \in 1..Len(avail)
    BY <1>2, LineLengthType DEF ReadLine
  <2>2. LineLength = 1 => TheLine[1] = avail[1] /\ avail[1] \in TokenSet(DOMAIN requests)
    <3>1. SUFFICES ASSUME LineLength = 1
                   PROVE  TheLine[1] = avail[1] /\ avail[1] \in TokenSet(DOMAIN requests)
      OBVIOUS
    <3>2. 1 \in 1..Len(avail) /\ avail[1] \in TokenSet(DOMAIN requests)
      BY <2>1, <3>1, AvailType
    <3>3. \A i \in 1..1 : avail[i] \in TokenSet(DOMAIN requests)
      BY <3>2
    <3>4. \A i \in 1..1 - 1 + 1 : SubSeq(avail, 1, 1)[i] = avail[1 + i - 1]
      BY <3>3, SubSeqProperties
    <3>5. SubSeq(avail, 1, 1)[1] = avail[1]
      BY <3>4
    <3> QED
      BY <3>1, <3>2, <3>5 DEF TheLine
  <2>3. id' = IF LineLength = 1 THEN TheLine[1].id ELSE 0
    BY <1>2 DEF ReadLine
  <2>4. id' \in {0} \cup DOMAIN requests /\ (LineLength = 1 => id' \in DOMAIN requests)
    BY <2>2, <2>3 DEF TokenSet
  <2>5. pc' \in {"closed", "keepalive", "dummy"} \/ (pc' = "head" /\ LineLength = 1)
    BY <1>2, ReplyPc DEF ReadLine, IsThe
  <2> QED
    BY <2>4, <2>5
<1>3. CASE ReadLineFails
  BY <1>3 DEF ReadLineFails, ConnType
<1>4. CASE SkipHeaders
  <2>1. id' = id /\ pc' \in {"closed", "keepalive"}
    BY <1>4, ReplyPc, ZenonT(40) DEF SkipHeaders
  <2> QED
    BY <2>1 DEF ConnType
<1>5. CASE ReadHeaders
  <2>1. id' = id /\ id \in DOMAIN requests
    BY <1>5 DEF ReadHeaders, ConnType
  <2>2. pc' \in {"closed", "keepalive", "route"}
    BY <1>5, ReplyPc DEF ReadHeaders
  <2> QED
    BY <2>1, <2>2
<1>6. CASE Route
  <2>1. id' = id /\ id \in DOMAIN requests
    BY <1>6 DEF Route, ConnType
  <2>2. \/ pc' \in {"closed", "keepalive"}
        \/ pc' = ContentPlan(requests[id]) /\ pc' \in {"size", "rest", "data"}
    BY <1>6, ReplyPc DEF Route
  <2>3. ContentPlan(requests[id]) # "none" => expect_content(requests[id])
    BY DEF ContentPlan
  <2> QED
    BY <2>1, <2>2, <2>3
<1>7. CASE ReadHeadersFails
  <2>1. id' = id
    BY <1>7 DEF ReadHeadersFails
  <2>2. \E headers : Reply(400, <<>>, headers, FALSE)
    BY <1>7 DEF ReadHeadersFails
  <2>3. pc' \in {"closed", "keepalive"}
    BY <2>2, ReplyPc
  <2> QED
    BY <2>1, <2>3 DEF ConnType
<1>8. CASE pc \in BodyStates /\ id' = id /\ (pc' \in {"closed", "keepalive"} \cup BodyStates)
  BY <1>8 DEF ConnType
<1>9. CASE ContentFails
  BY <1>8, <1>9, ContentReadPc DEF ContentFails
<1>10. CASE ReadRest
  BY <1>8, <1>10, ContentReadPc DEF ReadRest
<1>11. ASSUME NEW n \in 1..Len(avail), ReadData(n)
       PROVE  pc \in BodyStates /\ id' = id /\ (pc' \in {"closed", "keepalive"} \cup BodyStates)
  <2>1. pc = "data" /\ id' = id
    BY <1>11 DEF ReadData
  <2>2. \/ ContentRead(TRUE) \/ ContentRead(FALSE)
        \/ pc' = IF n < need THEN "data" ELSE "crlf"
    BY <1>11 DEF ReadData
  <2> QED
    BY <2>1, <2>2, ContentReadPc
<1>12. CASE ReadSize
  BY <1>8, <1>12, ContentReadPc DEF ReadSize
<1>13. CASE ReadCrlf
  BY <1>8, <1>13, ContentReadPc DEF ReadCrlf
<1>14. CASE ReadLast
  BY <1>8, <1>14, ContentReadPc DEF ReadLast
<1> QED
  BY <1>1, <1>2, <1>3, <1>4, <1>5, <1>6, <1>7, <1>8, <1>9, <1>10, <1>11, <1>12, <1>13, <1>14
  DEF Server

(* What is read does not depend on what is written: a step of the          *)
(* connection is one of the client or of the reading worker, or it leaves  *)
(* all that the worker has read and answered alone.                        *)
ReadNext == (\E n \in 1..Len(unsent) : Send(n)) \/ Finish \/ Server

LEMMA ReadsOnly == [ConnectionNext]_connectionVars => [ReadNext]_readVars
<1> SUFFICES ASSUME [ConnectionNext]_connectionVars PROVE [ReadNext]_readVars
  OBVIOUS
<1>1. CASE Client
  BY <1>1 DEF Client, ReadNext, Collect, Leave
<1>2. CASE Read
  BY <1>2 DEF Read, ReadNext
<1>3. CASE Write
  BY <1>3 DEF Write
<1>4. CASE UNCHANGED connectionVars
  BY <1>4 DEF connectionVars
<1> QED
  BY <1>1, <1>2, <1>3, <1>4 DEF ConnectionNext

(* Every step keeps the types.                                             *)
LEMMA TypeStep == ConnType /\ [ReadNext]_readVars => ConnType'
<1> SUFFICES ASSUME ConnType, [ReadNext]_readVars PROVE ConnType'
  OBVIOUS
<1>1. ASSUME NEW n \in 1..Len(unsent), Send(n) PROVE ConnType'
  BY <1>1, SendTypes
<1>2. CASE Finish
  BY <1>2 DEF Finish, ConnType
<1>3. CASE Server
  <2>1. UNCHANGED clientVars
    BY <1>3, ServerShape DEF Shape
  <2>2. PICK n \in 0..Len(avail) : avail' = Erase(avail, n)
    BY <1>3, ServerDrops DEF Drop
  <2>3. Erase(avail, n) \in Seq(TokenSet(DOMAIN requests))
    BY EraseType DEF ConnType
  <2>4. avail' \in Seq(TokenSet(DOMAIN requests))
    BY <2>2, <2>3
  <2> QED
    BY <1>3, <2>1, <2>4, ServerId DEF ConnType, clientVars
<1>4. CASE UNCHANGED readVars
  BY <1>4 DEF readVars, clientVars, ConnType
<1> QED
  BY <1>1, <1>2, <1>3, <1>4 DEF ReadNext

-----------------------------------------------------------------------------
(* The responses of a connection.  count tells how many may still follow;  *)
(* and, unless a read has timed out, one that says the connection ends is  *)
(* the last, and the worker is done, or will find the end of the stream.   *)
OutType == \E S : out \in Seq(S)

EndInSight == pc = "closed" \/ (fin /\ avail = <<>> /\ pc \in {"keepalive", "line"})

CloseInv ==
    /\ OutType
    /\ count \in 0..KeepAliveMax
    /\ pc # "closed" => count >= 1
    /\ Cardinality(Final) = KeepAliveMax - count
    /\ count = 0 => Len(out) \in Final /\ out[Len(out)].close
    /\ ~late => \A i \in DOMAIN out : out[i].close => i = Len(out) /\ EndInSight

RangesInv ==
    \A k \in DOMAIN out :
        out[k].id # 0 /\ requests[out[k].id].method = "GET" /\ out[k].status \in {200, 206, 416} =>
            ExactSlices(out[k].status, out[k].slices, requests[out[k].id].ranges)

(* The responses are finitely many.                                        *)
LEMMA FinalFinite ==
    ASSUME OutType
    PROVE  /\ Len(out) \in Nat
           /\ DOMAIN out = 1..Len(out)
           /\ IsFiniteSet(Final)
           /\ Cardinality(Final) \in Nat
<1>1. Len(out) \in Nat /\ DOMAIN out = 1..Len(out)
  BY DEF OutType
<1>2. IsFiniteSet(1..Len(out))
  BY <1>1, FS_Interval
<1>3. Final \subseteq 1..Len(out)
  BY <1>1 DEF Final
<1>4. IsFiniteSet(Final)
  BY <1>2, <1>3, FS_Subset
<1> QED
  BY <1>1, <1>4, FS_CardinalityType

(* One more response.                                                      *)
LEMMA OutGrows ==
    ASSUME OutType, NEW o, out' = Append(out, o)
    PROVE  /\ OutType'
           /\ Len(out') = Len(out) + 1
           /\ DOMAIN out' = 1..Len(out) + 1
           /\ \A k \in 1..Len(out) : out'[k] = out[k]
           /\ out'[Len(out) + 1] = o
<1>1. PICK S : out \in Seq(S)
  BY DEF OutType
<1>2. PICK T : T = S \cup {o}
  OBVIOUS
<1>3. out \in Seq(T) /\ o \in T
  <2>1. S \subseteq T
    BY <1>2
  <2> QED
    BY <1>1, <1>2, <2>1, SeqLarger
<1>4. /\ out' \in Seq(T)
      /\ Len(out') = Len(out) + 1
      /\ DOMAIN out' = 1..Len(out) + 1
      /\ \A k \in 1..Len(out) : out'[k] = out[k]
      /\ out'[Len(out) + 1] = o
  BY <1>3
<1> QED
  BY <1>4 DEF OutType

(* It counts as final unless it is a 100.                                  *)
LEMMA FinalGrows ==
    ASSUME OutType, NEW o, out' = Append(out, o)
    PROVE  /\ o.status = 100 => Final' = Final
           /\ o.status # 100 => /\ Final' = Final \cup {Len(out) + 1}
                                /\ Cardinality(Final') = Cardinality(Final) + 1
<1>1. /\ Len(out) \in Nat
      /\ DOMAIN out = 1..Len(out)
      /\ DOMAIN out' = 1..Len(out) + 1
      /\ \A k \in 1..Len(out) : out'[k] = out[k]
      /\ out'[Len(out) + 1] = o
  BY FinalFinite, OutGrows
<1>2. PICK n \in Nat : n = Len(out)
  BY <1>1
<1>3. 1..n + 1 = (1..n) \cup {n + 1} /\ n + 1 \notin 1..n
  OBVIOUS
<1>4. /\ DOMAIN out' = DOMAIN out \cup {n + 1}
      /\ n + 1 \notin DOMAIN out
      /\ \A k \in DOMAIN out : out'[k] = out[k]
      /\ out'[n + 1] = o
  BY <1>1, <1>2, <1>3
<1>5. Final' = {k \in DOMAIN out' : out'[k].status # 100}
  BY DEF Final
<1>6. o.status = 100 => Final' = Final
  BY <1>4, <1>5 DEF Final
<1>7. o.status # 100 => Final' = Final \cup {n + 1}
  BY <1>4, <1>5 DEF Final
<1>8. n + 1 \notin Final
  BY <1>4 DEF Final
<1>9. Cardinality(Final \cup {n + 1}) = Cardinality(Final) + 1
  BY <1>8, FinalFinite, FS_AddElement
<1> QED
  BY <1>2, <1>6, <1>7, <1>9

(* A step that ends no request keeps the invariants.                       *)
LEMMA SilentKeeps ==
    ASSUME CloseInv, RangesInv, pc # "closed", late => late', UNCHANGED clientVars, Silent
    PROVE  CloseInv' /\ RangesInv'
<1>1. fin' = fin /\ requests' = requests /\ count' = count
  BY DEF clientVars, Silent
<1>2. OutType /\ count \in 0..KeepAliveMax /\ count >= 1
  BY DEF CloseInv
<1>3. ASSUME Busy, ~late' PROVE \A i \in DOMAIN out : ~out[i].close
  BY <1>3 DEF CloseInv, EndInSight, Busy
<1>4. count' # 0
  BY <1>1, <1>2, ConnectionAssumption
<1>5. CASE out' = out /\ (pc' = "closed" \/ (pc = "keepalive" /\ pc' = "line" /\ avail' = avail))
  <2>1. Final' = Final /\ OutType' /\ RangesInv'
    BY <1>1, <1>2, <1>5 DEF Final, OutType, RangesInv
  <2>2. EndInSight => EndInSight'
    BY <1>1, <1>5 DEF EndInSight
  <2>3. ~late' => \A i \in DOMAIN out' : out'[i].close => i = Len(out)' /\ EndInSight'
    BY <1>5, <2>2 DEF CloseInv
  <2> QED
    BY <1>1, <1>2, <1>4, <2>1, <2>3 DEF CloseInv
<1>6. CASE Busy /\ out' = out
  <2>1. Final' = Final /\ OutType' /\ RangesInv'
    BY <1>1, <1>2, <1>6 DEF Final, OutType, RangesInv
  <2>2. ~late' => \A i \in DOMAIN out' : ~out'[i].close
    BY <1>3, <1>6
  <2> QED
    BY <1>1, <1>2, <1>4, <2>1, <2>2 DEF CloseInv
<1>7. ASSUME Busy, NEW o, o.status = 100, ~o.close, out' = Append(out, o)
      PROVE  CloseInv' /\ RangesInv'
  <2>1. /\ OutType' /\ Final' = Final
        /\ Len(out) \in Nat
        /\ DOMAIN out = 1..Len(out)
        /\ DOMAIN out' = 1..Len(out) + 1
        /\ \A k \in 1..Len(out) : out'[k] = out[k]
        /\ out'[Len(out) + 1] = o
    BY <1>2, <1>7, OutGrows, FinalGrows, FinalFinite
  <2>2. \A k \in 1..Len(out) + 1 : k \in 1..Len(out) \/ k = Len(out) + 1
    BY <2>1
  <2>3. ~late' => \A i \in DOMAIN out' : ~out'[i].close
    BY <1>3, <1>7, <2>1, <2>2
  <2>4. RangesInv'
    <3>1. ASSUME NEW k \in DOMAIN out'
          PROVE  (k \in DOMAIN out /\ out'[k] = out[k]) \/ out'[k] = o
      BY <2>1, <2>2
    <3>2. o.status \notin {200, 206, 416}
      BY <1>7
    <3> QED
      BY <1>1, <3>1, <3>2 DEF RangesInv
  <2> QED
    BY <1>1, <1>2, <1>4, <2>1, <2>3, <2>4 DEF CloseInv
<1> QED
  BY <1>5, <1>6, <1>7 DEF Silent

(* A step that ends one keeps them too: the last response allowed says so, *)
(* and one that says the connection ends leaves the worker closed or at    *)
(* the end of the stream.                                                  *)
LEMMA AnswerKeeps ==
    ASSUME CloseInv, RangesInv, pc # "closed", late => late', UNCHANGED clientVars,
           NEW st, NEW slices, NEW headers, NEW closed, Answer(st, slices, headers, closed)
    PROVE  CloseInv' /\ RangesInv'
<1> DEFINE close == \/ count = 1
                    \/ headers /\ requests[id'].connection = "close"
           o == [id |-> id', status |-> st, slices |-> slices, body |-> body',
                 parts |-> form'.parts, close |-> close]
<1>1. fin' = fin /\ requests' = requests
  BY DEF clientVars
<1>2. OutType /\ count \in 0..KeepAliveMax /\ count >= 1
  BY DEF CloseInv
<1>3. ~late' => \A i \in DOMAIN out : ~out[i].close
  BY DEF CloseInv, EndInSight, Busy, Answer
<1>4. /\ out' = Append(out, o)
      /\ count' = count - 1
      /\ pc' = IF closed \/ count = 1 THEN "closed" ELSE "keepalive"
  BY DEF Answer, Reply
<1>5. /\ o.status = st /\ o.id = id' /\ o.slices = slices
      /\ o.close <=> close
      /\ st # 100
  BY DEF Answer
<1>6. close => count = 1 \/ closed \/ (~late' => fin /\ avail' = <<>>)
  BY DEF Answer
<1>7. id' # 0 /\ requests[id'].method = "GET" /\ st \in {200, 206, 416} =>
         ExactSlices(st, slices, requests[id'].ranges)
  BY DEF Answer
<1> HIDE DEF o, close
<1>8. /\ OutType'
      /\ Final' = Final \cup {Len(out) + 1}
      /\ Cardinality(Final') = Cardinality(Final) + 1
      /\ Len(out) \in Nat
      /\ Len(out') = Len(out) + 1
      /\ DOMAIN out = 1..Len(out)
      /\ DOMAIN out' = 1..Len(out) + 1
      /\ \A k \in 1..Len(out) : out'[k] = out[k]
      /\ out'[Len(out) + 1] = o
  BY <1>2, <1>4, <1>5, OutGrows, FinalGrows, FinalFinite
<1>9. \A k \in 1..Len(out) + 1 : k \in 1..Len(out) \/ k = Len(out) + 1
  BY <1>8
<1>10. /\ count' \in 0..KeepAliveMax
       /\ pc' # "closed" => count' >= 1
       /\ Cardinality(Final)' = KeepAliveMax - count'
  <2>1. Cardinality(Final) = KeepAliveMax - count
    BY DEF CloseInv
  <2>2. PICK c \in Nat : c = count
    BY <1>2, ConnectionAssumption
  <2>3. PICK m \in Nat : m = KeepAliveMax
    BY ConnectionAssumption
  <2>4. c - 1 \in 0..m /\ m - (c - 1) = (m - c) + 1 /\ (c # 1 => c - 1 >= 1)
    BY <1>2, <2>2, <2>3
  <2> QED
    BY <1>4, <1>8, <2>1, <2>2, <2>3, <2>4
<1>11. count' = 0 => Len(out') \in Final' /\ out'[Len(out')].close
  <2>1. SUFFICES ASSUME count' = 0 PROVE Len(out') \in Final' /\ out'[Len(out')].close
    OBVIOUS
  <2>2. count = 1
    BY <1>2, <1>4, <2>1, ConnectionAssumption
  <2>3. close
    BY <2>2 DEF close
  <2> QED
    BY <1>5, <1>8, <2>3
<1>12. ~late' => \A i \in DOMAIN out' : out'[i].close => i = Len(out') /\ EndInSight'
  <2>1. SUFFICES ASSUME ~late', NEW i \in DOMAIN out', out'[i].close
                 PROVE  i = Len(out') /\ EndInSight'
    OBVIOUS
  <2>2. i = Len(out) + 1 /\ out'[i] = o
    BY <1>3, <1>8, <1>9, <2>1
  <2>3. close
    BY <1>5, <2>1, <2>2
  <2>4. count = 1 \/ closed \/ (fin' /\ avail' = <<>>)
    BY <1>1, <1>6, <2>1, <2>3
  <2>5. EndInSight'
    BY <1>4, <2>4 DEF EndInSight
  <2> QED
    BY <1>8, <2>2, <2>5
<1>13. RangesInv'
  <2>1. ASSUME NEW k \in DOMAIN out'
        PROVE  (k \in DOMAIN out /\ out'[k] = out[k]) \/ out'[k] = o
    BY <1>8, <1>9
  <2> QED
    BY <1>1, <1>5, <1>7, <2>1 DEF RangesInv
<1> QED
  BY <1>8, <1>10, <1>11, <1>12, <1>13 DEF CloseInv

ConnInv == ConnType /\ CloseInv /\ RangesInv

(* The invariants hold at the start ...                                    *)
LEMMA ConnStarts == ConnectionInit => ConnInv
<1> SUFFICES ASSUME ConnectionInit PROVE ConnInv
  OBVIOUS
<1>1. out = <<>> /\ count = KeepAliveMax
  BY DEF ConnectionInit
<1>2. out \in Seq({}) /\ DOMAIN out = {}
  BY <1>1
<1>3. Final = {}
  BY <1>2 DEF Final
<1>4. Cardinality(Final) = 0
  BY <1>3, FS_EmptySet
<1>5. CloseInv
  BY <1>1, <1>2, <1>4, ConnectionAssumption DEF CloseInv, OutType
<1>6. RangesInv
  BY <1>2 DEF RangesInv
<1> QED
  BY <1>5, <1>6, TypeStarts DEF ConnInv

(* ... and every step keeps them.                                          *)
LEMMA ConnStep == ConnInv /\ [ReadNext]_readVars => ConnInv'
<1> SUFFICES ASSUME ConnInv, [ReadNext]_readVars PROVE ConnInv'
  OBVIOUS
<1>0. ConnType /\ CloseInv /\ RangesInv
  BY DEF ConnInv
<1>1. ConnType'
  BY <1>0, TypeStep
<1>2. ASSUME UNCHANGED <<requests, late, pc, count, out>>, fin => fin' /\ avail' = avail
      PROVE  CloseInv' /\ RangesInv'
  <2>1. Final' = Final /\ OutType' /\ RangesInv'
    BY <1>0, <1>2 DEF Final, OutType, RangesInv, CloseInv
  <2>2. EndInSight => EndInSight'
    BY <1>2 DEF EndInSight
  <2>3. ~late' => \A i \in DOMAIN out' : out'[i].close => i = Len(out)' /\ EndInSight'
    BY <1>0, <1>2, <2>2 DEF CloseInv
  <2> QED
    BY <1>0, <1>2, <2>1, <2>3 DEF CloseInv
<1>3. ASSUME NEW n \in 1..Len(unsent), Send(n) PROVE CloseInv' /\ RangesInv'
  BY <1>2, <1>3 DEF Send
<1>4. ASSUME Finish PROVE CloseInv' /\ RangesInv'
  BY <1>2, <1>4 DEF Finish
<1>5. ASSUME Server PROVE CloseInv' /\ RangesInv'
  <2>1. Shape
    BY <1>0, <1>5, ServerShape
  <2>2. ASSUME Silent PROVE CloseInv' /\ RangesInv'
    BY <1>0, <2>1, <2>2, SilentKeeps DEF Shape
  <2>3. ASSUME NEW st, NEW slices, NEW headers, NEW closed, Answer(st, slices, headers, closed)
        PROVE  CloseInv' /\ RangesInv'
    BY <1>0, <2>1, <2>3, AnswerKeeps DEF Shape
  <2> QED
    BY <2>1, <2>2, <2>3 DEF Shape
<1>6. ASSUME UNCHANGED readVars PROVE CloseInv' /\ RangesInv'
  BY <1>2, <1>6 DEF readVars, clientVars
<1> QED
  BY <1>1, <1>3, <1>4, <1>5, <1>6 DEF ConnInv, ReadNext

(* A connection carries at most keep_alive_max_count_ responses, the last  *)
(* of those says that it ends, and after one that says so nothing follows, *)
(* unless a read has timed out (httplib.h:2603-2777, 4696-4787).           *)
THEOREM ConnectionCloses == ConnectionSpec => []CloseIsLast
<1>1. ConnInv => CloseIsLast
  <2> SUFFICES ASSUME CloseInv PROVE CloseIsLast
    BY DEF ConnInv
  <2>1. /\ OutType /\ count \in 0..KeepAliveMax
        /\ Cardinality(Final) = KeepAliveMax - count
        /\ count = 0 => Len(out) \in Final /\ out[Len(out)].close
    BY DEF CloseInv
  <2>2. Cardinality(Final) <= KeepAliveMax
    BY <2>1, ConnectionAssumption
  <2>3. ASSUME NEW k \in Final, Number(k) = KeepAliveMax PROVE out[k].close
    <3> DEFINE upto == {i \in Final : i <= k}
    <3>1. /\ upto \subseteq Final
          /\ Cardinality(upto) = KeepAliveMax
      BY <2>3 DEF Number
    <3>2. /\ IsFiniteSet(Final)
          /\ Cardinality(Final) \in Nat
          /\ Len(out) \in Nat
          /\ k \in 1..Len(out)
      BY <2>1, FinalFinite DEF Final
    <3> HIDE DEF upto
    <3>3. Cardinality(upto) <= Cardinality(Final)
      BY <3>1, <3>2, FS_Subset
    <3>4. count = 0
      BY <2>1, <3>1, <3>3, ConnectionAssumption
    <3>5. Cardinality(Final) = Cardinality(upto)
      BY <2>1, <3>1, <3>4, ConnectionAssumption
    <3>6. upto = Final
      BY <3>1, <3>2, <3>5, FS_Subset
    <3>7. Len(out) \in upto
      BY <2>1, <3>4, <3>6
    <3>8. Len(out) <= k
      BY <3>7 DEF upto
    <3>9. k = Len(out)
      BY <3>2, <3>8
    <3> QED
      BY <2>1, <3>4, <3>9
  <2>4. ~late => \A i \in DOMAIN out : out[i].close => i = Len(out)
    BY DEF CloseInv
  <2> QED
    BY <2>2, <2>3, <2>4 DEF CloseIsLast
<1> QED
  BY <1>1, ConnStarts, ConnStep, ReadsOnly, PTL DEF ConnectionSpec

(* The answer to a GET carries the ranges of the content that were asked   *)
(* for, and refuses them only where one of them is empty                   *)
(* (httplib.h:3273-3291).                                                  *)
THEOREM ConnectionRanges == ConnectionSpec => []RangesExact
<1>1. ConnInv => RangesExact
  <2> SUFFICES ASSUME RangesInv, NEW k \in Final,
                      out[k].id # 0, requests[out[k].id].method = "GET",
                      out[k].status \in {200, 206, 416}
               PROVE  ExactSlices(out[k].status, out[k].slices, requests[out[k].id].ranges)
    BY DEF ConnInv, RangesExact, ExactSlices
  <2>1. k \in DOMAIN out
    BY DEF Final
  <2> QED
    BY <2>1 DEF RangesInv
<1> QED
  BY <1>1, ConnStarts, ConnStep, ReadsOnly, PTL DEF ConnectionSpec

-----------------------------------------------------------------------------
(* Bodies.  The tokens not yet read are the end of the client's stream, so *)
(* how many have been read tells where in which request the worker is.     *)
Enc == [i \in DOMAIN requests |-> RequestTokens(requests[i], i)]
Place == CHOOSE P : Joins(P, Enc, TokenSet(DOMAIN requests))
Start(i) == End(Place, i - 1)

At == Len(Stream(requests)) - Len(avail) - Len(unsent)

Unread ==
    /\ At \in Nat
    /\ \A k \in 1..Len(avail) : avail[k] = Stream(requests)[At + k]
    /\ \A k \in 1..Len(unsent) : unsent[k] = Stream(requests)[At + Len(avail) + k]

(* The stream is made of the tokens of the requests.                       *)
LEMMA PlaceJoins ==
    ASSUME ConnType
    PROVE  /\ Enc \in Pieces(TokenSet(DOMAIN requests))
           /\ Joins(Place, Enc, TokenSet(DOMAIN requests))
           /\ Len(requests) \in Nat
           /\ DOMAIN requests = 1..Len(requests)
           /\ Len(Enc) = Len(requests)
           /\ Stream(requests) = FlattenSeq(Enc)
           /\ Stream(requests) \in Seq(TokenSet(DOMAIN requests))
<1>1. requests \in Seq(Request)
  BY DEF ConnType
<1>2. /\ Enc \in Pieces(TokenSet(DOMAIN requests))
      /\ Stream(requests) \in Seq(TokenSet(DOMAIN requests))
  BY <1>1, StreamType DEF Enc
<1>3. \E P : Joins(P, Enc, TokenSet(DOMAIN requests))
  BY <1>2, JoinsExists
<1>4. Joins(Place, Enc, TokenSet(DOMAIN requests))
  BY <1>3, Zenon DEF Place
<1>5. Len(requests) \in Nat /\ DOMAIN requests = 1..Len(requests)
  BY <1>1
<1>6. Len(Enc) = Len(requests)
  BY <1>5 DEF Enc
<1>7. Stream(requests) = FlattenSeq(Enc)
  BY DEF Stream, Enc
<1> QED
  BY <1>2, <1>4, <1>5, <1>6, <1>7

(* Where token j of request i is in the stream.                            *)
LEMMA StreamAt ==
    ASSUME ConnType, NEW i \in DOMAIN requests, NEW T, T = RequestTokens(requests[i], i)
    PROVE  /\ Start(i) \in Nat
           /\ T \in Seq(TokenSet(DOMAIN requests))
           /\ \A j \in 1..Len(T) : /\ Start(i) + j \in 1..Len(Stream(requests))
                                   /\ Stream(requests)[Start(i) + j] = T[j]
<1>1. PICK S : S = TokenSet(DOMAIN requests)
  OBVIOUS
<1>2. /\ Enc \in Pieces(S) /\ Joins(Place, Enc, S) /\ Len(requests) \in Nat
      /\ i \in 1..Len(Enc) /\ Stream(requests) = FlattenSeq(Enc) /\ Len(Enc) = Len(requests)
  BY <1>1, PlaceJoins
<1>3. PICK h \in 0..Len(Enc) : h = i - 1
  BY <1>2
<1>4. T = Enc[i]
  BY DEF Enc
<1>5. Start(i) = End(Place, h)
  BY <1>3 DEF Start
<1>6. End(Place, h) \in Nat /\ T \in Seq(S)
  BY <1>2, <1>3, <1>4, JoinsLen
<1>7. \A j \in 1..Len(T) : /\ End(Place, h) + j \in 1..Len(FlattenSeq(Enc))
                           /\ FlattenSeq(Enc)[End(Place, h) + j] = T[j]
  BY <1>2, <1>3, <1>4, FlattenAt
<1> QED
  BY <1>1, <1>2, <1>5, <1>6, <1>7

(* Every place of the stream is in the tokens of a request.                *)
LEMMA StreamFrom ==
    ASSUME ConnType, NEW p \in 1..Len(Stream(requests))
    PROVE  \E i \in DOMAIN requests : \E j \in 1..Len(RequestTokens(requests[i], i)) :
              p = Start(i) + j
<1>1. PICK S : S = TokenSet(DOMAIN requests)
  OBVIOUS
<1>2. /\ Enc \in Pieces(S) /\ Joins(Place, Enc, S) /\ Len(requests) \in Nat
      /\ DOMAIN requests = 1..Len(Enc)
      /\ Stream(requests) = FlattenSeq(Enc) /\ Len(Enc) = Len(requests)
  BY <1>1, PlaceJoins
<1>3. PICK i \in 1..Len(Enc), h \in 0..Len(Enc) :
         h = i - 1 /\ End(Place, h) < p /\ p <= End(Place, i)
  BY <1>2, FlattenFrom
<1>4. PICK T : T = Enc[i]
  OBVIOUS
<1>5. T = RequestTokens(requests[i], i)
  BY <1>2, <1>4 DEF Enc
<1>6. End(Place, h) \in Nat /\ T \in Seq(S) /\ End(Place, i) = End(Place, h) + Len(T)
  BY <1>2, <1>3, <1>4, JoinsLen
<1>7. PICK a \in Nat : a = End(Place, h) /\ a = Start(i)
  BY <1>3, <1>6 DEF Start
<1>8. PICK l \in Nat : l = Len(T)
  BY <1>6
<1>9. p \in Int
  BY <1>2, PlaceJoins
<1>10. p - a \in 1..l /\ p = a + (p - a)
  BY <1>3, <1>6, <1>7, <1>8, <1>9
<1> QED
  BY <1>2, <1>5, <1>7, <1>8, <1>10

(* The tokens of a request.                                                *)
LEMMA RequestTokenAt ==
    ASSUME NEW i, NEW r \in Request
    PROVE  /\ BodyTokens(r, i) \in Seq(BodySet({i}))
           /\ Len(RequestTokens(r, i)) = 3 + Len(BodyTokens(r, i))
           /\ RequestTokens(r, i)[1] = Line(IF r.line = "ok" THEN "request" ELSE r.line, i)
           /\ RequestTokens(r, i)[2] = Line("head", i)
           /\ RequestTokens(r, i)[3] = Line("blank", i)
           /\ \A k \in 1..Len(BodyTokens(r, i)) :
                 RequestTokens(r, i)[3 + k] = BodyTokens(r, i)[k]
<1>0. PICK T, B : T = RequestTokens(r, i) /\ B = BodyTokens(r, i)
  OBVIOUS
<1>1. B \in Seq(BodySet({i}))
  BY <1>0, BodyTokensType
<1>2. PICK a, b, c : /\ a = Line(IF r.line = "ok" THEN "request" ELSE r.line, i)
                     /\ b = Line("head", i)
                     /\ c = Line("blank", i)
  OBVIOUS
<1>3. T = <<a, b, c>> \o B
  BY <1>0, <1>2 DEF RequestTokens
<1>4. PICK V, U : V = BodySet({i}) /\ U = {a, b, c} \cup V
  OBVIOUS
<1>5. B \in Seq(U) /\ <<a, b, c>> \in Seq(U)
  <2>1. V \subseteq U /\ a \in U /\ b \in U /\ c \in U
    BY <1>4
  <2>2. B \in Seq(V)
    BY <1>1, <1>4
  <2>3. B \in Seq(U)
    BY <2>1, <2>2, SeqLarger
  <2>4. <<a, b, c>> \in Seq(U)
    BY <2>1
  <2> QED
    BY <2>3, <2>4
<1>6. /\ Len(T) = 3 + Len(B)
      /\ T[1] = a /\ T[2] = b /\ T[3] = c
      /\ \A k \in 1..Len(B) : T[3 + k] = B[k]
  BY <1>3, <1>5
<1> QED
  BY <1>0, <1>1, <1>2, <1>6, Zenon

(* Only the first of them is a request line, and it names the request.     *)
LEMMA OnlyFirst ==
    ASSUME NEW i, NEW r \in Request, NEW T, T = RequestTokens(r, i), NEW j \in 1..Len(T),
           T[j].kind = "request"
    PROVE  j = 1 /\ T[j].id = i
<1>1. PICK B : B = BodyTokens(r, i)
  OBVIOUS
<1>2. PICK I : I = BodySet({i})
  OBVIOUS
<1>3. PICK a : a = Line(IF r.line = "ok" THEN "request" ELSE r.line, i)
  OBVIOUS
<1>4. /\ B \in Seq(I)
      /\ Len(T) = 3 + Len(B)
      /\ T[1] = a
      /\ T[2] = Line("head", i)
      /\ T[3] = Line("blank", i)
      /\ \A k \in 1..Len(B) : T[3 + k] = B[k]
  BY <1>1, <1>2, <1>3, RequestTokenAt, Zenon
<1>5. Len(B) \in Nat /\ \A k \in 1..Len(B) : B[k] \in I
  BY <1>4
<1>6. j = 1 \/ j = 2 \/ j = 3 \/ (j - 3 \in 1..Len(B) /\ 3 + (j - 3) = j)
  BY <1>4, <1>5
<1>7. j # 2 /\ j # 3
  <2>1. Line("head", i).kind # "request" /\ Line("blank", i).kind # "request"
    BY DEF Line, Token
  <2> QED
    BY <1>4, <2>1
<1>8. ASSUME j - 3 \in 1..Len(B), 3 + (j - 3) = j PROVE FALSE
  <2>1. T[j] \in BodySet({i})
    BY <1>2, <1>4, <1>5, <1>8
  <2> QED
    BY <2>1 DEF BodySet, BodyKinds
<1>9. a.id = i
  BY <1>3 DEF Line, Token
<1> QED
  BY <1>4, <1>6, <1>7, <1>8, <1>9

(* A request line in the stream is where its request starts.               *)
LEMMA RequestStarts ==
    ASSUME ConnType, NEW p \in 1..Len(Stream(requests)), NEW t, t = Stream(requests)[p],
           t.kind = "request"
    PROVE  t.id \in DOMAIN requests /\ p = Start(t.id) + 1
<1>1. PICK i \in DOMAIN requests :
         \E j \in 1..Len(RequestTokens(requests[i], i)) : p = Start(i) + j
  BY StreamFrom
<1>2. PICK T : T = RequestTokens(requests[i], i)
  OBVIOUS
<1>3. PICK j \in 1..Len(T) : p = Start(i) + j
  BY <1>1, <1>2
<1>4. t = T[j]
  BY <1>2, <1>3, StreamAt
<1>5. requests[i] \in Request
  BY DEF ConnType
<1>6. j = 1 /\ t.id = i
  BY <1>2, <1>4, <1>5, OnlyFirst
<1> QED
  BY <1>3, <1>6

(* A step of the server reads tokens, the client sends them: neither loses *)
(* any.                                                                    *)
LEMMA ServerReads ==
    ASSUME ConnType, Unread, NEW n \in 0..Len(avail), avail' = Erase(avail, n),
           UNCHANGED <<requests, unsent>>
    PROVE  Unread' /\ At' = At + n /\ At \in Nat
<1>1. PICK s \in Nat, a \in Nat, u \in Nat :
         s = Len(Stream(requests)) /\ a = Len(avail) /\ u = Len(unsent)
  BY PlaceJoins DEF ConnType
<1>2. /\ Len(avail') = a - n
      /\ \A k \in 1..a - n : avail'[k] = avail[n + k]
  <2>1. avail \in Seq(TokenSet(DOMAIN requests))
    BY DEF ConnType
  <2> QED
    BY <1>1, <2>1, EraseType
<1>3. /\ At = s - a - u /\ At \in Nat
      /\ \A k \in 1..a : avail[k] = Stream(requests)[At + k]
      /\ \A k \in 1..u : unsent[k] = Stream(requests)[At + a + k]
  BY <1>1 DEF Unread, At
<1>4. At' = s - (a - n) - u
  BY <1>1, <1>2 DEF At
<1>5. At' = At + n /\ At' \in Nat
  BY <1>1, <1>3, <1>4
<1>6. ASSUME NEW k \in 1..a - n PROVE avail'[k] = Stream(requests)[At' + k]
  <2>1. n + k \in 1..a /\ At + (n + k) = At' + k
    BY <1>1, <1>3, <1>5
  <2> QED
    BY <1>2, <1>3, <2>1
<1>7. ASSUME NEW k \in 1..u PROVE unsent[k] = Stream(requests)[At' + (a - n) + k]
  <2>1. At' + (a - n) + k = At + a + k
    BY <1>1, <1>3, <1>5
  <2> QED
    BY <1>3, <2>1
<1> QED
  BY <1>1, <1>2, <1>3, <1>5, <1>6, <1>7 DEF Unread

(* A send moves tokens from unsent to avail, and the worker stays where it *)
(* is.                                                                     *)
LEMMA ClientSends ==
    ASSUME ConnType, Unread, NEW n \in 1..Len(unsent), Send(n)
    PROVE  Unread' /\ At' = At
<1>1. PICK s \in Nat, a \in Nat, u \in Nat :
         s = Len(Stream(requests)) /\ a = Len(avail) /\ u = Len(unsent)
  BY PlaceJoins DEF ConnType
<1>2. /\ avail' = avail \o SubSeq(unsent, 1, n)
      /\ unsent' = Erase(unsent, n)
      /\ requests' = requests
  BY DEF Send
<1>3. PICK S : S = TokenSet(DOMAIN requests)
  OBVIOUS
<1>4. avail \in Seq(S) /\ unsent \in Seq(S) /\ n \in 0..u /\ n \in 1..u
  BY <1>1, <1>3 DEF ConnType
<1>5. Len(unsent') = u - n /\ \A k \in 1..u - n : unsent'[k] = unsent[n + k]
  BY <1>1, <1>2, <1>4, EraseType
<1>6. PICK q : q = SubSeq(unsent, 1, n)
  OBVIOUS
<1>7. q \in Seq(S) /\ Len(q) = n /\ \A k \in 1..n : q[k] = unsent[k]
  <2>1. \A i \in 1..n : unsent[i] \in S
    BY <1>1, <1>4
  <2>2. /\ q \in Seq(S)
        /\ Len(q) = IF 1 <= n THEN n - 1 + 1 ELSE 0
        /\ \A i \in 1..n - 1 + 1 : q[i] = unsent[1 + i - 1]
    BY <1>1, <1>4, <1>6, <2>1, SubSeqProperties
  <2>3. n - 1 + 1 = n /\ 1 <= n /\ \A i \in 1..n : 1 + i - 1 = i
    BY <1>1, <1>4
  <2> QED
    BY <2>2, <2>3
<1>8. /\ Len(avail') = a + n
      /\ \A k \in 1..a : avail'[k] = avail[k]
      /\ \A k \in 1..n : avail'[a + k] = unsent[k]
  BY <1>1, <1>2, <1>4, <1>6, <1>7
<1>9. /\ At = s - a - u /\ At \in Nat
      /\ \A k \in 1..a : avail[k] = Stream(requests)[At + k]
      /\ \A k \in 1..u : unsent[k] = Stream(requests)[At + a + k]
  BY <1>1 DEF Unread, At
<1>10. At' = s - (a + n) - (u - n)
  BY <1>1, <1>2, <1>5, <1>8 DEF At
<1>11. At' = At
  BY <1>1, <1>4, <1>9, <1>10
<1>12. ASSUME NEW k \in 1..a + n PROVE avail'[k] = Stream(requests)[At + k]
  <2>1. CASE k \in 1..a
    BY <1>8, <1>9, <2>1
  <2>2. CASE k \notin 1..a
    <3>1. PICK m \in 1..n : m \in 1..u /\ a + m = k /\ At + a + m = At + k
      <4>1. k - a \in 1..n /\ k - a \in 1..u /\ a + (k - a) = k /\ At + a + (k - a) = At + k
        BY <1>1, <1>4, <1>9, <2>2
      <4> QED
        BY <4>1
    <3>2. avail'[a + m] = unsent[m] /\ unsent[m] = Stream(requests)[At + a + m]
      BY <1>8, <1>9, <3>1
    <3> QED
      BY <3>1, <3>2
  <2> QED
    BY <2>1, <2>2
<1>13. ASSUME NEW k \in 1..u - n PROVE unsent'[k] = Stream(requests)[At + (a + n) + k]
  <2>1. n + k \in 1..u /\ At + (a + n) + k = At + a + (n + k)
    BY <1>1, <1>4, <1>9
  <2> QED
    BY <1>5, <1>9, <2>1
<1> QED
  BY <1>2, <1>5, <1>8, <1>9, <1>11, <1>12, <1>13 DEF Unread

(* The tokens of a body of given length.                                   *)
LEMMA LengthBody ==
    ASSUME NEW i, NEW r \in Request, r.framing = "length", NEW B, B = BodyTokens(r, i),
           NEW s, s = BodyOf(r)
    PROVE  /\ s \in Seq(Chars)
           /\ Len(B) = Len(s)
           /\ \A k \in 1..Len(s) : B[k] = Token("data", i, s[k], 0)
<1>1. s \in Seq(Chars)
  BY BodyOfType
<1>2. B = Bytes(s, i)
  BY DEF BodyTokens, Chunked
<1>3. PICK I : i \in I
  <2>1. i \in {i}
    OBVIOUS
  <2> QED
    BY <2>1
<1> QED
  BY <1>1, <1>2, <1>3, BytesType

(* The tokens of one chunk q.                                              *)
LEMMA ChunkTokensAt ==
    ASSUME NEW i, NEW q \in Seq(STRING), NEW n \in Int
    PROVE  /\ ChunkTokens(q, i, n) \in Seq(BodySet({i}))
           /\ Len(ChunkTokens(q, i, n)) = Len(q) + 2
           /\ ChunkTokens(q, i, n)[1] = Token("size", i, "", n)
           /\ \A j \in 1..Len(q) : ChunkTokens(q, i, n)[1 + j] = Token("data", i, q[j], 0)
           /\ ChunkTokens(q, i, n)[Len(q) + 2] = Line("blank", i)
<1>0. PICK T : T = ChunkTokens(q, i, n)
  OBVIOUS
<1>1. PICK S : S = BodySet({i})
  OBVIOUS
<1>2. T \in Seq(S)
  BY <1>0, <1>1, ChunkTokensType
<1>3. PICK b : b = Bytes(q, i)
  OBVIOUS
<1>4. q \in Seq(Chars)
  BY SeqLarger DEF Chars
<1>5. b \in Seq(S) /\ Len(b) = Len(q) /\ \A j \in 1..Len(q) : b[j] = Token("data", i, q[j], 0)
  BY <1>1, <1>3, <1>4, BytesType
<1>6. PICK a, c : a = Token("size", i, "", n) /\ c = Line("blank", i)
  OBVIOUS
<1>7. T = (<<a>> \o b) \o <<c>>
  BY <1>0, <1>3, <1>6 DEF ChunkTokens
<1>8. a \in S /\ c \in S
  <2>1. Token("size", i, "", n) \in BodySet({i}) /\ Line("blank", i) \in BodySet({i})
    BY DEF BodySet, BodyKinds, Token, Line, Chars
  <2> QED
    BY <1>1, <1>6, <2>1
<1>9. /\ Len(T) = Len(b) + 2
      /\ T[1] = a
      /\ \A j \in 1..Len(b) : T[1 + j] = b[j]
      /\ T[Len(b) + 2] = c
  <2>1. PICK u : u = <<a>> \o b
    OBVIOUS
  <2>2. u \in Seq(S) /\ Len(u) = 1 + Len(b) /\ u[1] = a /\ \A j \in 1..Len(b) : u[1 + j] = b[j]
    BY <1>5, <1>8, <2>1
  <2>3. /\ Len(T) = Len(u) + 1
        /\ \A j \in 1..Len(u) : T[j] = u[j]
        /\ T[Len(u) + 1] = c
    BY <1>7, <1>8, <2>1, <2>2
  <2>4. PICK l \in Nat : l = Len(b)
    BY <1>5
  <2>5. 1 + l + 1 = l + 2 /\ 1 \in 1..1 + l /\ \A j \in 1..l : 1 + j \in 1..1 + l
    BY <2>4
  <2> QED
    BY <2>2, <2>3, <2>4, <2>5
<1> QED
  BY <1>0, <1>1, <1>2, <1>5, <1>6, <1>9

(* The tokens of a chunked body: those of its chunks, by where each ends,  *)
(* the zero line and a blank one.                                          *)
ChunkEnds(P, r, i) == Joins(P, ChunkPieces(r, i), BodySet({i}))

(* How a chunked body ends.                                                *)
LEMMA ChunkedBodyEnd ==
    ASSUME NEW i, NEW r \in Request, r.framing = "chunked", NEW P, ChunkEnds(P, r, i)
    PROVE  /\ Len(r.chunks) \in Nat
           /\ End(P, Len(r.chunks)) \in Nat
           /\ End(P, 0) = 0
           /\ Len(BodyTokens(r, i)) = End(P, Len(r.chunks)) + 2
           /\ \A k \in 1..End(P, Len(r.chunks)) :
                 BodyTokens(r, i)[k] = FlattenSeq(ChunkPieces(r, i))[k]
           /\ BodyTokens(r, i)[End(P, Len(r.chunks)) + 1] = Line("zero", i)
           /\ BodyTokens(r, i)[End(P, Len(r.chunks)) + 2] = Line("blank", i)
<1> SUFFICES ASSUME NEW B, B = BodyTokens(r, i), NEW n, n = Len(r.chunks)
    PROVE  /\ n \in Nat
           /\ End(P, n) \in Nat
           /\ End(P, 0) = 0
           /\ Len(B) = End(P, n) + 2
           /\ \A k \in 1..End(P, n) : B[k] = FlattenSeq(ChunkPieces(r, i))[k]
           /\ B[End(P, n) + 1] = Line("zero", i)
           /\ B[End(P, n) + 2] = Line("blank", i)
  BY Zenon
<1>1. PICK S : S = BodySet({i})
  OBVIOUS
<1>2. PICK enc : enc = ChunkPieces(r, i)
  OBVIOUS
<1>3. enc \in Pieces(S) /\ Len(enc) = n /\ Joins(P, enc, S)
  BY <1>1, <1>2, ChunkPiecesType DEF ChunkEnds
<1>4. n \in Nat /\ FlattenSeq(enc) = P[n]
  BY <1>3, FlattenJoins, PiecesType
<1>5. PICK F : F = FlattenSeq(enc)
  OBVIOUS
<1>6. F \in Seq(S) /\ Len(F) = End(P, n) /\ End(P, 0) = 0
  BY <1>3, <1>4, <1>5 DEF Joins, End
<1>7. PICK a, b : a = Line("zero", i) /\ b = Line("blank", i)
  OBVIOUS
<1>8. a \in S /\ b \in S
  <2>1. Line("zero", i) \in BodySet({i}) /\ Line("blank", i) \in BodySet({i})
    BY DEF BodySet, BodyKinds, Token, Line, Chars
  <2> QED
    BY <1>1, <1>7, <2>1
<1>9. B = (((<<>> \o F) \o <<a>>) \o <<>>) \o <<b>>
  BY <1>2, <1>5, <1>7 DEF BodyTokens, Chunked, ChunkPieces
<1>10. /\ Len(B) = Len(F) + 2
       /\ \A k \in 1..Len(F) : B[k] = F[k]
       /\ B[Len(F) + 1] = a
       /\ B[Len(F) + 2] = b
  <2>1. <<>> \o F = F
    BY <1>6
  <2>2. PICK u : u = F \o <<a>>
    OBVIOUS
  <2>3. /\ u \in Seq(S) /\ Len(u) = Len(F) + 1
        /\ \A k \in 1..Len(F) : u[k] = F[k]
        /\ u[Len(F) + 1] = a
    BY <1>6, <1>8, <2>2
  <2>4. u \o <<>> = u
    BY <2>3
  <2>5. B = u \o <<b>>
    BY <1>9, <2>1, <2>2, <2>4
  <2>6. /\ Len(B) = Len(u) + 1
        /\ \A j \in 1..Len(u) : B[j] = u[j]
        /\ B[Len(u) + 1] = b
    BY <1>8, <2>3, <2>5
  <2>7. PICK l \in Nat : l = Len(F)
    BY <1>6
  <2>8. l + 1 + 1 = l + 2 /\ l + 1 \in 1..l + 1 /\ \A j \in 1..l : j \in 1..l + 1
    BY <2>7
  <2> QED
    BY <2>3, <2>6, <2>7, <2>8
<1> QED
  BY <1>2, <1>4, <1>5, <1>6, <1>7, <1>10

(* Chunk c, of bytes q, lies in the tokens B after place e and up to f.     *)
ChunkLies(B, i, q, e, f) ==
    /\ q \in Seq(STRING)
    /\ e \in Nat
    /\ f = e + (Len(q) + 2)
    /\ B[e + 1] = Token("size", i, "", Len(q))
    /\ \A j \in 1..Len(q) : B[e + (1 + j)] = Token("data", i, q[j], 0)
    /\ B[e + (Len(q) + 2)] = Line("blank", i)

(* Chunk c of a chunked body lies between the places where chunks c - 1    *)
(* and c end.                                                              *)
LEMMA ChunkedBodyAt ==
    ASSUME NEW i, NEW r \in Request, r.framing = "chunked", NEW P, ChunkEnds(P, r, i),
           NEW c \in 1..Len(r.chunks), NEW h \in 0..Len(r.chunks), h = c - 1
    PROVE  /\ ChunkLies(BodyTokens(r, i), i, r.chunks[c], End(P, h), End(P, c))
           /\ End(P, c) <= End(P, Len(r.chunks))
<1> SUFFICES ASSUME NEW B, B = BodyTokens(r, i), NEW n, n = Len(r.chunks), NEW q, q = r.chunks[c]
    PROVE  ChunkLies(B, i, q, End(P, h), End(P, c)) /\ End(P, c) <= End(P, n)
  BY Zenon
<1>1. PICK S : S = BodySet({i})
  OBVIOUS
<1>2. PICK enc : enc = ChunkPieces(r, i)
  OBVIOUS
<1>3. enc \in Pieces(S) /\ Len(enc) = n /\ Joins(P, enc, S)
  BY <1>1, <1>2, ChunkPiecesType DEF ChunkEnds
<1>4. /\ n \in Nat /\ End(P, n) \in Nat /\ Len(B) = End(P, n) + 2
      /\ \A k \in 1..End(P, n) : B[k] = FlattenSeq(enc)[k]
  BY <1>2, ChunkedBodyEnd, Zenon
<1>5. r.chunks \in Pieces(STRING)
  BY RequestType DEF Pieces
<1>6. q \in Seq(STRING) /\ c \in DOMAIN r.chunks
  BY <1>5, PiecesType
<1>7. PICK T : T = enc[c]
  OBVIOUS
<1>8. T = ChunkTokens(q, i, Len(q))
  <2>1. Len(q) - 0 = Len(q)
    BY <1>6
  <2>2. T = ChunkTokens(q, i, Len(q) - (IF r.framing = "overlong" THEN 1 ELSE 0))
    BY <1>2, <1>6, <1>7 DEF ChunkPieces
  <2> QED
    BY <2>1, <2>2
<1>9. PICK l \in Nat : l = Len(q) /\ l \in Int
  BY <1>6
<1>10. /\ T \in Seq(S)
       /\ Len(T) = Len(q) + 2
       /\ T[1] = Token("size", i, "", Len(q))
       /\ \A j \in 1..Len(q) : T[1 + j] = Token("data", i, q[j], 0)
       /\ T[Len(q) + 2] = Line("blank", i)
  <2>1. T = ChunkTokens(q, i, l)
    BY <1>8, <1>9
  <2>2. /\ T \in Seq(BodySet({i}))
        /\ Len(T) = Len(q) + 2
        /\ T[1] = Token("size", i, "", l)
        /\ \A j \in 1..Len(q) : T[1 + j] = Token("data", i, q[j], 0)
        /\ T[Len(q) + 2] = Line("blank", i)
    BY <1>6, <1>9, <2>1, ChunkTokensAt, ZenonT(40)
  <2> QED
    BY <1>1, <1>9, <2>2
<1>11. /\ End(P, h) \in Nat
       /\ End(P, c) = End(P, h) + Len(T)
  BY <1>3, <1>7, JoinsLen
<1>12. End(P, c) <= End(P, n)
  <2>1. c \in 0..Len(enc) /\ n \in 0..Len(enc) /\ c <= n
    BY <1>3, <1>4
  <2> QED
    BY <1>3, <2>1, JoinsPrefix
<1>13. ASSUME NEW j \in 1..Len(T) PROVE B[End(P, h) + j] = T[j]
  <2>1. FlattenSeq(enc)[End(P, h) + j] = T[j]
    BY <1>3, <1>7, FlattenAt
  <2>2. End(P, h) + j \in 1..End(P, n)
    <3>1. PICK e \in Nat, d \in Nat : e = End(P, h) /\ d = End(P, n)
      BY <1>4, <1>11
    <3>2. j \in 1..l + 2 /\ e + (l + 2) <= d
      BY <1>9, <1>10, <1>11, <1>12, <3>1
    <3>3. e + j \in 1..d
      BY <3>2
    <3> QED
      BY <3>1, <3>3
  <2> QED
    BY <1>4, <2>1, <2>2
<1>14. 1 \in 1..Len(T) /\ Len(q) + 2 \in 1..Len(T) /\ \A j \in 1..Len(q) : 1 + j \in 1..Len(T)
  <2>1. Len(T) = l + 2
    BY <1>9, <1>10
  <2>2. 1 \in 1..l + 2 /\ l + 2 \in 1..l + 2 /\ \A j \in 1..l : 1 + j \in 1..l + 2
    OBVIOUS
  <2> QED
    BY <1>9, <2>1, <2>2
<1>15. \A j \in 1..Len(q) : B[End(P, h) + (1 + j)] = Token("data", i, q[j], 0)
  BY <1>10, <1>13, <1>14
<1> QED
  BY <1>6, <1>10, <1>11, <1>12, <1>13, <1>14, <1>15 DEF ChunkLies

-----------------------------------------------------------------------------
(* Where the worker is.  In a body of given length it has read the first m *)
(* bytes; in a chunked one, c chunks whole, or h and m bytes of the next.  *)
InBody(d) == At = Start(id) + 3 + d

InLength(r) ==
    \E m \in 0..Len(BodyOf(r)) :
        InBody(m) /\ need = Len(BodyOf(r)) - m /\ body = SubSeq(BodyOf(r), 1, m)

InData(P, Q, h, q) ==
    \E m \in 0..Len(q) :
        InBody(End(P, h) + (1 + m)) /\ need = Len(q) - m /\ body = Q[h] \o SubSeq(q, 1, m)

InChunks(r, P, Q, n) ==
    \/ pc = "size" /\ \E c \in 0..n : InBody(End(P, c)) /\ body = Q[c]
    \/ pc = "data" /\ \E c \in 1..n, h \in 0..n : h = c - 1 /\ InData(P, Q, h, r.chunks[c])
    \/ pc = "crlf" /\ \E c \in 1..n : InBody(End(P, c) - 1) /\ body = Q[c]
    \/ pc = "last" /\ InBody(End(P, n) + 1) /\ body = Q[n]

ChunkTexts(Q, r) == Joins(Q, r.chunks, STRING)

Sent(r) == r.framing \in {"length", "chunked"} /\ r.parts = <<>>

BodyState ==
    LET r == requests[id]
    IN  /\ pc = "head" => At = Start(id) + 1 /\ body = <<>>
        /\ pc = "route" => InBody(0) /\ body = <<>>
        /\ pc \in BodyStates /\ Sent(r) =>
              /\ r.framing = "length" => pc = "data" /\ InLength(r)
              /\ r.framing = "chunked" =>
                    \E P, Q : /\ ChunkEnds(P, r, id)
                              /\ ChunkTexts(Q, r)
                              /\ InChunks(r, P, Q, Len(r.chunks))

(* What BodyArrivesWhole says of a response.                               *)
Carries(i) ==
    i # 0 /\ Sent(requests[i]) /\ expect_content(requests[i]) /\ ContentPlan(requests[i]) # "none"

Arrived(o) == o.status = 404 /\ Carries(o.id) => o.body = BodyOf(requests[o.id])

Bodies == \A k \in DOMAIN out : Arrived(out[k])

BodyInv == Unread /\ BodyState /\ Bodies

(* The next tokens that the worker finds in the body of request i.         *)
LEMMA TokenRead ==
    ASSUME ConnType, Unread, NEW i \in DOMAIN requests, NEW d \in Nat,
           At = Start(i) + 3 + d, NEW k \in 1..Len(avail),
           d + k <= Len(BodyTokens(requests[i], i))
    PROVE  avail[k] = BodyTokens(requests[i], i)[d + k]
<1>1. requests[i] \in Request
  BY DEF ConnType
<1>2. PICK T, B : T = RequestTokens(requests[i], i) /\ B = BodyTokens(requests[i], i)
  OBVIOUS
<1>3. Len(T) = 3 + Len(B) /\ (\A j \in 1..Len(B) : T[3 + j] = B[j]) /\ B \in Seq(BodySet({i}))
  BY <1>1, <1>2, RequestTokenAt, Zenon
<1>4. Start(i) \in Nat /\ \A j \in 1..Len(T) : Stream(requests)[Start(i) + j] = T[j]
  BY <1>2, StreamAt
<1>5. PICK l \in Nat : l = Len(B)
  BY <1>3
<1>6. k \in Nat /\ k >= 1
  BY AvailType
<1>7. d + k <= l
  BY <1>2, <1>5
<1>8. d + k \in 1..l /\ 3 + (d + k) \in 1..3 + l
  BY <1>6, <1>7
<1>9. T[3 + (d + k)] = B[d + k] /\ Stream(requests)[Start(i) + (3 + (d + k))] = T[3 + (d + k)]
  BY <1>3, <1>4, <1>5, <1>8
<1>10. Start(i) + (3 + (d + k)) = At + k
  BY <1>4, <1>6
<1>11. avail[k] = Stream(requests)[At + k]
  BY DEF Unread
<1> QED
  BY <1>2, <1>9, <1>10, <1>11

(* A line of one token is read as that.                                    *)
LEMMA LineRead ==
    ASSUME ConnType, HasLine, IsLine(avail[1])
    PROVE  LineLength = 1
<1>1. LineLength \in 1..Len(avail) /\ Len(avail) \in Nat /\ DOMAIN avail = 1..Len(avail)
  BY LineLengthType, AvailType
<1>2. 1 \in DOMAIN avail
  BY <1>1
<1>3. 1 \in LineEnds
  BY <1>2 DEF LineEnds
<1>4. LineEnd \in LineEnds /\ LineEnd <= 1
  BY <1>3, LineEndLeast
<1>5. LineEnd \in 1..Len(avail)
  BY <1>1, <1>4 DEF LineEnds
<1>6. LineEnd = 1
  BY <1>1, <1>4, <1>5
<1> QED
  BY <1>3, <1>6 DEF LineLength

(* The headers of a request end with its third token.                      *)
LEMMA HeadRead ==
    ASSUME ConnType, Unread, id \in DOMAIN requests, At = Start(id) + 1, Blanks # {}
    PROVE  HeadEnd = 2
<1>1. PICK T : T = RequestTokens(requests[id], id)
  OBVIOUS
<1>2. requests[id] \in Request
  BY DEF ConnType
<1>3. T[2] = Line("head", id) /\ T[3] = Line("blank", id)
  BY <1>1, <1>2, RequestTokenAt, Zenon
<1>4. Len(T) >= 3 /\ Len(T) \in Nat
  <2>1. /\ Len(T) = 3 + Len(BodyTokens(requests[id], id))
        /\ BodyTokens(requests[id], id) \in Seq(BodySet({id}))
    BY <1>1, <1>2, RequestTokenAt, Zenon
  <2>2. PICK B : B = BodyTokens(requests[id], id)
    OBVIOUS
  <2>3. Len(B) \in Nat
    BY <2>1, <2>2
  <2> QED
    BY <2>1, <2>2, <2>3
<1>5. Start(id) \in Nat /\ \A j \in 1..Len(T) : Stream(requests)[Start(id) + j] = T[j]
  BY <1>1, StreamAt
<1>6. 2 \in 1..Len(T) /\ 3 \in 1..Len(T)
  BY <1>4
<1>7. At + 1 = Start(id) + 2 /\ At + 2 = Start(id) + 3
  BY <1>5
<1>8. \A k \in 1..Len(avail) : avail[k] = Stream(requests)[At + k]
  BY DEF Unread
<1>9. /\ 1 \in 1..Len(avail) => avail[1] = Line("head", id)
      /\ 2 \in 1..Len(avail) => avail[2] = Line("blank", id)
  BY <1>3, <1>5, <1>6, <1>7, <1>8
<1>10. HeadEnd \in 1..Len(avail) /\ HeadEnd \in Blanks /\ \A k \in Blanks : HeadEnd <= k
  BY HeadEndType
<1>11. Len(avail) \in Nat /\ DOMAIN avail = 1..Len(avail)
  BY AvailType
<1>12. Line("head", id).kind = "head" /\ Line("blank", id).kind = "blank"
  BY DEF Line, Token
<1>13. HeadEnd # 1
  <2> SUFFICES ASSUME HeadEnd = 1 PROVE FALSE
    OBVIOUS
  <2>1. avail[1].kind = "blank" /\ avail[1] = Line("head", id)
    BY <1>9, <1>10 DEF Blanks
  <2> QED
    BY <1>12, <2>1
<1>14. 1 \in 1..Len(avail) /\ 2 \in 1..Len(avail) /\ HeadEnd >= 2
  BY <1>10, <1>11, <1>13
<1>15. 2 \in Blanks
  <2>1. IsLine(avail[2 - 1])
    BY <1>9, <1>12, <1>14 DEF IsLine
  <2>2. avail[2].kind = "blank"
    BY <1>9, <1>12, <1>14
  <2> QED
    BY <1>11, <1>14, <2>1, <2>2 DEF Blanks
<1>16. HeadEnd <= 2
  BY <1>10, <1>15
<1> QED
  BY <1>10, <1>11, <1>14, <1>16

(* The first m elements of s and the next n are the first m + n.           *)
LEMMA PrefixGrows ==
    ASSUME NEW S, NEW s \in Seq(S), NEW m \in Nat, NEW n \in Nat, m + n <= Len(s),
           NEW f, f = [k \in 1..n |-> s[m + k]]
    PROVE  /\ SubSeq(s, 1, m) \in Seq(S)
           /\ f \in Seq(S)
           /\ SubSeq(s, 1, m) \o f = SubSeq(s, 1, m + n)
<1>1. PICK l \in Nat : l = Len(s) /\ m + n <= l
  OBVIOUS
<1>2. \A k \in 1..m + n : k \in 1..l /\ s[k] \in S
  BY <1>1
<1>3. ASSUME NEW p \in Nat, p <= m + n
      PROVE  /\ SubSeq(s, 1, p) \in Seq(S)
             /\ Len(SubSeq(s, 1, p)) = p
             /\ \A k \in 1..p : SubSeq(s, 1, p)[k] = s[k]
  <2>1. \A k \in 1..p : s[k] \in S
    BY <1>2, <1>3
  <2>2. /\ SubSeq(s, 1, p) \in Seq(S)
        /\ Len(SubSeq(s, 1, p)) = IF 1 <= p THEN p - 1 + 1 ELSE 0
        /\ \A k \in 1..p - 1 + 1 : SubSeq(s, 1, p)[k] = s[1 + k - 1]
    BY <2>1, SubSeqProperties
  <2>3. (IF 1 <= p THEN p - 1 + 1 ELSE 0) = p /\ p - 1 + 1 = p /\ \A k \in 1..p : 1 + k - 1 = k
    BY <1>3
  <2> QED
    BY <2>2, <2>3
<1>4. PICK a, b : a = SubSeq(s, 1, m) /\ b = SubSeq(s, 1, m + n)
  OBVIOUS
<1>5. /\ a \in Seq(S) /\ Len(a) = m /\ \A k \in 1..m : a[k] = s[k]
      /\ b \in Seq(S) /\ Len(b) = m + n /\ \A k \in 1..m + n : b[k] = s[k]
  <2>1. m <= m + n /\ m + n \in Nat /\ m + n <= m + n
    OBVIOUS
  <2> QED
    BY <1>3, <1>4, <2>1
<1>6. f \in Seq(S) /\ Len(f) = n /\ \A k \in 1..n : f[k] = s[m + k]
  <2>1. \A k \in 1..n : m + k \in 1..m + n
    OBVIOUS
  <2>2. \A k \in 1..n : s[m + k] \in S
    BY <1>2, <2>1
  <2> QED
    BY <2>2
<1>7. a \o f = b
  <2>1. PICK c : c = a \o f
    OBVIOUS
  <2>2. /\ c \in Seq(S) /\ Len(c) = m + n
        /\ \A k \in 1..m : c[k] = a[k]
        /\ \A k \in 1..n : c[m + k] = f[k]
    BY <1>5, <1>6, <2>1
  <2>3. ASSUME NEW k \in 1..m + n PROVE c[k] = b[k]
    <3>1. CASE k \in 1..m
      BY <1>5, <2>2, <3>1
    <3>2. CASE k \notin 1..m
      <4>1. PICK j \in 1..n : m + j = k
        <5>1. k - m \in 1..n /\ m + (k - m) = k
          BY <3>2
        <5> QED
          BY <5>1
      <4> QED
        BY <1>5, <1>6, <2>2, <4>1
    <3> QED
      BY <3>1, <3>2
  <2> QED
    BY <1>5, <2>1, <2>2, <2>3, SeqEqual
<1> QED
  BY <1>4, <1>5, <1>6, <1>7

(* After the first d tokens of the body of request i come n bytes of text   *)
(* s, those after the first m; and the same of what a read of n bytes      *)
(* hands to the receiver.                                                  *)
BytesLie(i, d, s, m, n) ==
    /\ d + n <= Len(BodyTokens(requests[i], i))
    /\ \A k \in 1..n : BodyTokens(requests[i], i)[d + k] = Token("data", i, s[m + k], 0)

PieceIs(s, m, n) == [k \in 1..n |-> avail[k].val] = [k \in 1..n |-> s[m + k]]

(* A read takes the bytes that lie there.                                  *)
LEMMA DataRead ==
    ASSUME ConnType, Unread, NEW i \in DOMAIN requests, NEW d \in Nat, At = Start(i) + 3 + d,
           NEW s, NEW m, NEW n \in 1..Len(avail), BytesLie(i, d, s, m, n)
    PROVE  PieceIs(s, m, n)
<1>0. /\ d + n <= Len(BodyTokens(requests[i], i))
      /\ \A k \in 1..n : BodyTokens(requests[i], i)[d + k] = Token("data", i, s[m + k], 0)
  BY DEF BytesLie
<1>1. ASSUME NEW k \in 1..n PROVE avail[k].val = s[m + k]
  <2>1. Len(avail) \in Nat
    BY AvailType
  <2>2. PICK l \in Nat : l = Len(BodyTokens(requests[i], i))
    <3>1. BodyTokens(requests[i], i) \in Seq(BodySet({i}))
      <4>1. requests[i] \in Request
        BY DEF ConnType
      <4> QED
        BY <4>1, RequestTokenAt, Zenon
    <3>2. PICK B : B = BodyTokens(requests[i], i)
      OBVIOUS
    <3>3. Len(B) \in Nat
      BY <3>1, <3>2
    <3> QED
      BY <3>2, <3>3
  <2>3. k \in 1..Len(avail) /\ d + k <= l
    BY <1>0, <2>1, <2>2
  <2>4. avail[k] = BodyTokens(requests[i], i)[d + k]
    BY <2>2, <2>3, TokenRead
  <2>5. Token("data", i, s[m + k], 0).val = s[m + k]
    BY DEF Token
  <2> QED
    BY <1>0, <2>4, <2>5
<1> QED
  BY <1>1 DEF PieceIs

(* The responses keep their bodies.                                        *)
LEMMA BodiesKept ==
    ASSUME OutType, Bodies, requests' = requests, NEW o, out' = Append(out, o), Arrived(o)
    PROVE  Bodies'
<1>1. /\ Len(out) \in Nat
      /\ DOMAIN out = 1..Len(out)
      /\ DOMAIN out' = 1..Len(out) + 1
      /\ \A k \in 1..Len(out) : out'[k] = out[k]
      /\ out'[Len(out) + 1] = o
  BY FinalFinite, OutGrows
<1>2. \A k \in 1..Len(out) + 1 : k \in 1..Len(out) \/ k = Len(out) + 1
  BY <1>1
<1>3. ASSUME NEW k \in DOMAIN out' PROVE Arrived(out'[k])
  BY <1>1, <1>2 DEF Bodies
<1>4. ASSUME NEW x, Arrived(x) PROVE Arrived(x)'
  BY <1>4 DEF Arrived, Carries
<1> QED
  BY <1>3, <1>4 DEF Bodies, Arrived, Carries

(* Steps of the server, by what they do to the responses: none, one that   *)
(* ends the request, or a 100.                                             *)
LEMMA UnreadKept ==
    ASSUME ConnType, Unread, Server
    PROVE  Unread' /\ requests' = requests /\ unsent' = unsent
<1>1. requests' = requests /\ unsent' = unsent
  BY ServerShape DEF Shape, clientVars
<1>2. PICK n \in 0..Len(avail) : avail' = Erase(avail, n)
  BY ServerDrops DEF Drop
<1> QED
  BY <1>1, <1>2, ServerReads

(* A step that writes no response.                                         *)
LEMMA BodyQuiet ==
    ASSUME ConnType, BodyInv, Server, out' = out, BodyState'
    PROVE  BodyInv'
<1>1. Unread' /\ requests' = requests
  BY UnreadKept DEF BodyInv
<1>2. Bodies'
  BY <1>1 DEF BodyInv, Bodies, Arrived, Carries
<1> QED
  BY <1>1, <1>2 DEF BodyInv

(* A step that ends a request with a response.                             *)
LEMMA BodyReply ==
    ASSUME ConnType, OutType, BodyInv, Server,
           NEW st, NEW slices, NEW headers, NEW closed, Reply(st, slices, headers, closed),
           st = 404 /\ Carries(id') => body' = BodyOf(requests[id'])
    PROVE  BodyInv'
<1>1. Unread' /\ requests' = requests
  BY UnreadKept DEF BodyInv
<1>2. BodyState'
  BY ReplyPc DEF BodyState, BodyStates
<1>3. PICK o : /\ out' = Append(out, o)
               /\ o.id = id' /\ o.status = st /\ o.body = body'
  BY DEF Reply
<1>4. Arrived(o)
  BY <1>3 DEF Arrived
<1>5. Bodies'
  BY <1>1, <1>3, <1>4, BodiesKept DEF BodyInv
<1> QED
  BY <1>1, <1>2, <1>5 DEF BodyInv

(* read_content returns with the body whole, or fails.                     *)
LEMMA BodyContent ==
    ASSUME ConnType, OutType, BodyInv, Server, pc \in BodyStates, id' = id, NEW ok, ContentRead(ok),
           ok /\ Sent(requests[id]) => body' = BodyOf(requests[id])
    PROVE  BodyInv'
<1> DEFINE r == requests[id]
           st == IF ok /\ (r.parts # <<>> => form'.valid) THEN routing(r).status ELSE 400
<1>1. Reply(st, <<>>, TRUE, ConnectionClosed(r))
  BY DEF ContentRead
<1>2. st = 404 /\ Carries(id') => body' = BodyOf(requests[id'])
  BY DEF Carries
<1> HIDE DEF st
<1> QED
  BY <1>1, <1>2, BodyReply

(* The request line, the headers and the routing of a request.             *)
LEMMA BodyLine ==
    ASSUME ConnType, OutType, BodyInv, Server, ReadLine
    PROVE  BodyInv'
<1>1. CASE Reply(400, <<>>, FALSE, FALSE)
  <2>1. PICK st : st = 400
    OBVIOUS
  <2>2. Reply(st, <<>>, FALSE, FALSE)
    BY <1>1, <2>1, Zenon
  <2>3. st # 404
    BY <2>1
  <2> QED
    BY <2>2, <2>3, BodyReply
<1>2. CASE out' = out /\ pc' = "dummy"
  <2>1. BodyState'
    BY <1>2 DEF BodyState, BodyStates
  <2> QED
    BY <1>2, <2>1, BodyQuiet
<1>3. CASE IsThe("request") /\ pc' = "head" /\ out' = out
  <2>1. LineLength = 1 /\ avail[1].kind = "request" /\ Len(avail) \in Nat /\ 1 \in 1..Len(avail)
    BY <1>3, LineLengthType, AvailType DEF IsThe, ReadLine
  <2>2. avail' = Erase(avail, 1) /\ body' = <<>> /\ 1 \in 0..Len(avail)
    BY <2>1 DEF ReadLine, AfterLine, NothingRead
  <2>3. requests' = requests /\ unsent' = unsent
    BY UnreadKept DEF BodyInv
  <2>4. At' = At + 1 /\ At \in Nat
    BY <2>2, <2>3, ServerReads DEF BodyInv
  <2>5. TheLine[1] = avail[1]
    <3>1. avail \in Seq(TokenSet(DOMAIN requests))
      BY DEF ConnType
    <3>2. \A i \in 1..1 : avail[i] \in TokenSet(DOMAIN requests)
      BY <2>1, <3>1
    <3>3. \A i \in 1..1 - 1 + 1 : SubSeq(avail, 1, 1)[i] = avail[1 + i - 1]
      BY <3>2, SubSeqProperties
    <3>4. SubSeq(avail, 1, 1)[1] = avail[1]
      BY <3>3
    <3> QED
      BY <2>1, <3>4 DEF TheLine
  <2>6. id' = avail[1].id
    BY <2>1, <2>5 DEF ReadLine
  <2>7. avail[1] = Stream(requests)[At + 1]
    BY <2>1 DEF BodyInv, Unread
  <2>8. At + 1 \in 1..Len(Stream(requests))
    <3>1. PICK s \in Nat, a \in Nat, u \in Nat :
             s = Len(Stream(requests)) /\ a = Len(avail) /\ u = Len(unsent)
      BY PlaceJoins DEF ConnType
    <3>2. At = s - a - u
      BY <3>1 DEF At
    <3> QED
      BY <2>1, <2>4, <3>1, <3>2
  <2>9. At + 1 = Start(id') + 1
    BY <2>1, <2>6, <2>7, <2>8, RequestStarts
  <2>10. Start(id)' = Start(id')
    BY <2>3 DEF Start, Place, Enc
  <2>11. BodyState'
    BY <1>3, <2>2, <2>4, <2>9, <2>10 DEF BodyState, BodyStates
  <2> QED
    BY <1>3, <2>11, BodyQuiet
<1> QED
  BY <1>1, <1>2, <1>3 DEF ReadLine

(* The headers end where the body starts.                                  *)
LEMMA BodyHeaders ==
    ASSUME ConnType, OutType, BodyInv, Server, ReadHeaders
    PROVE  BodyInv'
<1> DEFINE r == requests[id]
<1>1. CASE Reply(416, <<>>, TRUE, ConnectionClosed(r))
  <2>1. PICK st : st = 416
    OBVIOUS
  <2>2. Reply(st, <<>>, TRUE, ConnectionClosed(r))
    BY <1>1, <2>1, Zenon
  <2>3. st # 404
    BY <2>1
  <2> QED
    BY <2>2, <2>3, BodyReply
<1>2. CASE out' = Continue(r) /\ pc' = "route"
  <2>1. id \in DOMAIN requests /\ At = Start(id) + 1 /\ body = <<>>
    BY DEF ReadHeaders, ConnType, Reading, BodyInv, BodyState
  <2>2. HeadEnd = 2 /\ HeadEnd \in 1..Len(avail) /\ Len(avail) \in Nat
    BY <2>1, HeadRead, HeadEndType, AvailType DEF ReadHeaders, BodyInv
  <2>3. avail' = Erase(avail, 2) /\ body' = body /\ id' = id /\ 2 \in 0..Len(avail)
    BY <2>2 DEF ReadHeaders
  <2>4. requests' = requests /\ unsent' = unsent /\ Unread'
    BY UnreadKept DEF BodyInv
  <2>5. At' = At + 2 /\ At \in Nat
    BY <2>3, <2>4, ServerReads DEF BodyInv
  <2>6. Start(id)' = Start(id) /\ Start(id) \in Nat
    <3>1. Start(id)' = Start(id)
      BY <2>3, <2>4 DEF Start, Place, Enc
    <3>2. Start(id) \in Nat
      BY <2>1, StreamAt
    <3> QED
      BY <3>1, <3>2
  <2>7. InBody(0)'
    BY <2>1, <2>5, <2>6 DEF InBody
  <2>8. BodyState'
    BY <1>2, <2>1, <2>3, <2>7 DEF BodyState, BodyStates
  <2>9. CASE out' = out
    BY <2>8, <2>9, BodyQuiet
  <2>10. ASSUME NEW o, o.status = 100, out' = Append(out, o) PROVE BodyInv'
    <3>1. Arrived(o)
      BY <2>10 DEF Arrived
    <3>2. Bodies'
      BY <2>4, <2>10, <3>1, BodiesKept DEF BodyInv
    <3> QED
      BY <2>4, <2>8, <3>2 DEF BodyInv
  <2>11. out' = out \/ \E o : o.status = 100 /\ out' = Append(out, o)
    <3> DEFINE o == [id |-> id, status |-> 100, slices |-> <<>>,
                     body |-> <<>>, parts |-> <<>>, close |-> FALSE]
    <3>1. o.status = 100
      OBVIOUS
    <3>2. out' = out \/ out' = Append(out, o)
      BY <1>2 DEF Continue
    <3> HIDE DEF o
    <3> QED
      BY <3>1, <3>2
  <2> QED
    BY <2>9, <2>10, <2>11
<1> QED
  BY <1>1, <1>2 DEF ReadHeaders

(* The joint texts of the chunks are the body.                             *)
LEMMA TextsJoin ==
    ASSUME NEW r \in Request, r.parts = <<>>, NEW Q, ChunkTexts(Q, r)
    PROVE  /\ Len(r.chunks) \in Nat
           /\ Q[0] = <<>>
           /\ BodyOf(r) = Q[Len(r.chunks)]
           /\ \A c \in 0..Len(r.chunks) : Q[c] \in Seq(STRING)
           /\ \A c \in 1..Len(r.chunks) : Q[c] = Q[c - 1] \o r.chunks[c]
<1> SUFFICES ASSUME NEW n, n = Len(r.chunks)
    PROVE  /\ n \in Nat
           /\ Q[0] = <<>>
           /\ BodyOf(r) = Q[n]
           /\ \A c \in 0..n : Q[c] \in Seq(STRING)
           /\ \A c \in 1..n : Q[c] = Q[c - 1] \o r.chunks[c]
  BY Zenon
<1>1. r.chunks \in Pieces(STRING) /\ Joins(Q, r.chunks, STRING)
  BY RequestType DEF Pieces, ChunkTexts
<1>2. n \in Nat /\ \A c \in 1..n : r.chunks[c] \in Seq(STRING)
  BY <1>1, PiecesType
<1>3. FlattenSeq(r.chunks) = Q[n]
  BY <1>1, FlattenJoins
<1> QED
  BY <1>1, <1>2, <1>3 DEF Joins, BodyOf

(* A step of the worker that reads n tokens, within one request.           *)
Reads(n) ==
    /\ n \in 0..Len(avail)
    /\ avail' = Erase(avail, n)
    /\ UNCHANGED <<requests, unsent, id>>

(* It moves the worker on by n tokens.                                     *)
LEMMA ReadsOn ==
    ASSUME ConnType, Unread, id \in DOMAIN requests, NEW n, Reads(n), NEW d \in Int, InBody(d)
    PROVE  InBody(d + n)' /\ Start(id) \in Nat
<1>1. At' = At + n /\ At \in Nat /\ n \in Nat
  BY ServerReads, AvailType DEF Reads
<1>2. Start(id)' = Start(id)
  BY DEF Reads, Start, Place, Enc
<1>3. Start(id) \in Nat
  BY StreamAt
<1>4. At = Start(id) + 3 + d
  BY DEF InBody
<1>5. At' = Start(id) + 3 + (d + n)
  BY <1>1, <1>3, <1>4
<1> QED
  BY <1>2, <1>3, <1>5 DEF InBody

(* Routing starts to read the body, or answers at once.                    *)
LEMMA BodyRoute ==
    ASSUME ConnType, OutType, BodyInv, Server, Route
    PROVE  BodyInv'
<1>0. id \in DOMAIN requests /\ InBody(0) /\ body = <<>> /\ pc = "route"
  BY DEF Route, ConnType, Reading, BodyInv, BodyState
<1>1. requests' = requests /\ unsent' = unsent /\ avail' = avail /\ id' = id /\ body' = body
  BY UnreadKept DEF BodyInv, Route
<1>2. PICK r \in Request : r = requests[id] /\ r = requests'[id']
  BY <1>0, <1>1 DEF ConnType
<1>3. PICK plan : plan = ContentPlan(r)
  OBVIOUS
<1>4. InBody(0)'
  BY <1>0, <1>1 DEF InBody, At, Start, Place, Enc
<1>5. CASE /\ plan \in {"size", "rest", "data"}
           /\ pc' = plan
           /\ need' = IF plan = "data" THEN Len(BodyOf(r)) ELSE 0
           /\ out' = out
  <2>1. /\ r.framing = "length" => plan = "data"
        /\ r.framing = "chunked" => plan = "size"
    BY <1>3, <1>5 DEF ContentPlan, Chunked
  <2>2. ASSUME r.framing = "length" PROVE InLength(r)'
    <3>1. PICK s : s = BodyOf(r)
      OBVIOUS
    <3>2. s \in Seq(Chars)
      BY <3>1, BodyOfType
    <3>3. Len(s) \in Nat /\ SubSeq(s, 1, 0) = <<>>
      BY <3>2
    <3>4. 0 \in 0..Len(s) /\ need' = Len(s) - 0 /\ body' = SubSeq(s, 1, 0)
      BY <1>0, <1>1, <1>5, <2>1, <2>2, <3>1, <3>3
    <3> QED
      BY <1>4, <3>1, <3>4 DEF InLength
  <2>3. ASSUME r.framing = "chunked", r.parts = <<>>
        PROVE  \E P, Q : ChunkEnds(P, r, id) /\ ChunkTexts(Q, r) /\ InChunks(r, P, Q, Len(r.chunks))'
    <3>1. PICK P : ChunkEnds(P, r, id)
      <4>1. id \in {id}
        OBVIOUS
      <4>2. ChunkPieces(r, id) \in Pieces(BodySet({id}))
        BY <4>1, ChunkPiecesType, Zenon
      <4> QED
        BY <4>2, JoinsExists DEF ChunkEnds
    <3>2. PICK Q : ChunkTexts(Q, r)
      <4>1. r.chunks \in Pieces(STRING)
        BY RequestType DEF Pieces
      <4> QED
        BY <4>1, JoinsExists DEF ChunkTexts
    <3>3. PICK n : n = Len(r.chunks)
      OBVIOUS
    <3>4. n \in Nat /\ Q[0] = <<>>
      BY <2>3, <3>2, <3>3, TextsJoin, Zenon
    <3>5. End(P, 0) = 0
      BY <3>1 DEF ChunkEnds, Joins, End
    <3>6. 0 \in 0..n /\ InBody(End(P, 0))' /\ body' = Q[0]
      BY <1>0, <1>1, <1>4, <3>4, <3>5
    <3>7. InChunks(r, P, Q, n)'
      BY <1>5, <2>1, <2>3, <3>6 DEF InChunks
    <3> QED
      BY <3>1, <3>2, <3>3, <3>7
  <2>4. BodyState'
    BY <1>1, <1>2, <1>5, <2>1, <2>2, <2>3 DEF BodyState, Sent
  <2> QED
    BY <1>5, <2>4, BodyQuiet
<1>6. ASSUME plan = "none" \/ (plan = "data" /\ BodyOf(r) = <<>>),
             NEW st, NEW slices, NEW closed, Reply(st, slices, TRUE, closed)
      PROVE  BodyInv'
  <2>1. Carries(id') => body' = BodyOf(requests[id'])
    BY <1>0, <1>1, <1>2, <1>3, <1>6 DEF Carries
  <2> QED
    BY <1>6, <2>1, BodyReply
<1>7. ASSUME NEW st, st # 404, NEW closed, Reply(st, <<>>, TRUE, closed) PROVE BodyInv'
  BY <1>7, BodyReply
<1>8. /\ ContentPlan(requests[id]) = plan
      /\ BodyOf(requests[id]) = BodyOf(r)
  BY <1>2, <1>3
<1>9. \/ /\ ContentPlan(requests[id]) \in {"size", "rest", "data"}
         /\ pc' = ContentPlan(requests[id])
         /\ need' = IF ContentPlan(requests[id]) = "data" THEN Len(BodyOf(requests[id])) ELSE 0
         /\ out' = out
      \/ /\ \/ ContentPlan(requests[id]) = "none"
            \/ ContentPlan(requests[id]) = "data" /\ BodyOf(requests[id]) = <<>>
         /\ \E st, slices, closed : Reply(st, slices, TRUE, closed)
      \/ \E st, closed : st # 404 /\ Reply(st, <<>>, TRUE, closed)
  <2> DEFINE q == requests[id]
  <2>1. CASE /\ ContentPlan(q) = "none" \/ (ContentPlan(q) = "data" /\ BodyOf(q) = <<>>)
             /\ Reply(routing(q).status, routing(q).slices, TRUE, ConnectionClosed(q))
    <3>1. \E st, slices, closed : Reply(st, slices, TRUE, closed)
      BY <2>1
    <3> QED
      BY <2>1, <3>1
  <2>2. ASSUME NEW st, st \in {400, 415}, Reply(st, <<>>, TRUE, ConnectionClosed(q))
        PROVE  \E x, closed : x # 404 /\ Reply(x, <<>>, TRUE, closed)
    <3>1. st # 404
      BY <2>2
    <3>2. \E closed : Reply(st, <<>>, TRUE, closed)
      BY <2>2, Zenon
    <3> QED
      BY <3>1, <3>2
  <2> QED
    BY <2>1, <2>2 DEF Route
<1>10. \/ /\ plan \in {"size", "rest", "data"}
          /\ pc' = plan
          /\ need' = IF plan = "data" THEN Len(BodyOf(r)) ELSE 0
          /\ out' = out
       \/ /\ plan = "none" \/ (plan = "data" /\ BodyOf(r) = <<>>)
          /\ \E st, slices, closed : Reply(st, slices, TRUE, closed)
       \/ \E st, closed : st # 404 /\ Reply(st, <<>>, TRUE, closed)
  BY <1>8, <1>9
<1> QED
  BY <1>5, <1>6, <1>7, <1>10

(* Within a body: a read of n bytes.                                       *)
ReadsBytes(n) ==
    /\ n \in 1..Len(avail)
    /\ n <= need
    /\ Reads(n)
    /\ body' = body \o [k \in 1..n |-> avail[k].val]
    /\ n < need => need' = need - n

(* In a body of given length: the next bytes, or the whole of it.          *)
LEMMA LengthRead ==
    ASSUME NEW r \in Request, r.framing = "length", NEW n,
           ConnType, Unread, id \in DOMAIN requests, InLength(r), ReadsBytes(n)
    PROVE  r = requests[id] => /\ n < need => InLength(r)'
                               /\ n = need => body' = BodyOf(r)
<1>0. SUFFICES ASSUME r = requests[id]
               PROVE  /\ n < need => InLength(r)'
                      /\ n = need => body' = BodyOf(r)
  OBVIOUS
<1>r. /\ n \in 1..Len(avail)
      /\ n <= need
      /\ Reads(n)
      /\ body' = body \o [k \in 1..n |-> avail[k].val]
      /\ n < need => need' = need - n
  BY DEF ReadsBytes
<1>1. PICK s, B : s = BodyOf(r) /\ B = BodyTokens(r, id)
  OBVIOUS
<1>2. s \in Seq(Chars) /\ Len(B) = Len(s)
  BY <1>1, LengthBody
<1>3. \A k \in 1..Len(s) : B[k] = Token("data", id, s[k], 0)
  BY <1>1, LengthBody
<1>4. PICK l \in Nat : l = Len(s)
  BY <1>2
<1>5. PICK m \in 0..l : InBody(m) /\ need = l - m /\ body = SubSeq(s, 1, m)
  BY <1>1, <1>4 DEF InLength
<1>6. n \in Nat /\ m \in Nat /\ m \in Int /\ m + n \in 0..l /\ m + n <= l
  BY <1>r, <1>4, <1>5, AvailType
<1>7. InBody(m + n)'
  BY <1>r, <1>5, <1>6, ReadsOn
<1>8. [k \in 1..n |-> avail[k].val] = [k \in 1..n |-> s[m + k]]
  <2>1. ASSUME NEW k \in 1..n PROVE B[m + k] = Token("data", id, s[m + k], 0)
    <3>1. m + k \in 1..l
      BY <1>6
    <3> QED
      BY <1>3, <1>4, <3>1
  <2>2. At = Start(id) + 3 + m
    BY <1>5 DEF InBody
  <2>3. B = BodyTokens(requests[id], id) /\ m + n <= Len(s) /\ m + n <= Len(B)
    BY <1>0, <1>1, <1>2, <1>4, <1>6
  <2>4. \A k \in 1..n : BodyTokens(requests[id], id)[m + k] = Token("data", id, s[m + k], 0)
    BY <2>1, <2>3
  <2>5. m + n <= Len(BodyTokens(requests[id], id))
    BY <2>3
  <2>6. n \in 1..Len(avail) /\ m \in Nat
    BY <1>r, <1>6
  <2>7. BytesLie(id, m, s, m, n)
    BY <2>4, <2>5 DEF BytesLie
  <2>8. PieceIs(s, m, n)
    BY <2>2, <2>6, <2>7, DataRead, Zenon
  <2> QED
    BY <2>8 DEF PieceIs
<1>9. SubSeq(s, 1, m) \o [k \in 1..n |-> s[m + k]] = SubSeq(s, 1, m + n)
  BY <1>2, <1>4, <1>6, PrefixGrows
<1>10. body' = SubSeq(s, 1, m + n)
  BY <1>r, <1>5, <1>8, <1>9
<1>11. ASSUME n < need PROVE InLength(r)'
  <2>1. need' = l - (m + n)
    BY <1>r, <1>5, <1>6, <1>11
  <2> QED
    BY <1>1, <1>4, <1>6, <1>7, <1>10, <2>1 DEF InLength
<1>12. ASSUME n = need PROVE body' = BodyOf(r)
  <2>1. m + n = l
    BY <1>5, <1>6, <1>12
  <2>2. SubSeq(s, 1, l) = s
    BY <1>2, <1>4, SubSeqFull
  <2> QED
    BY <1>1, <1>10, <2>1, <2>2
<1> QED
  BY <1>11, <1>12

(* In a chunk: the next bytes, or the line break after the chunk.          *)
LEMMA ChunkRead ==
    ASSUME NEW r \in Request, r.framing = "chunked", r.parts = <<>>,
           NEW P, ChunkEnds(P, r, id), NEW Q, ChunkTexts(Q, r),
           NEW c \in 1..Len(r.chunks), NEW h \in 0..Len(r.chunks), h = c - 1, NEW n,
           ConnType, Unread, id \in DOMAIN requests, InData(P, Q, h, r.chunks[c]), ReadsBytes(n)
    PROVE  r = requests[id] => /\ n < need => InData(P, Q, h, r.chunks[c])'
                               /\ n = need => InBody(End(P, c) - 1)' /\ body' = Q[c]
<1>0. SUFFICES ASSUME r = requests[id]
               PROVE  /\ n < need => InData(P, Q, h, r.chunks[c])'
                      /\ n = need => InBody(End(P, c) - 1)' /\ body' = Q[c]
  OBVIOUS
<1>r. /\ n \in 1..Len(avail)
      /\ n <= need
      /\ Reads(n)
      /\ body' = body \o [k \in 1..n |-> avail[k].val]
      /\ n < need => need' = need - n
  BY DEF ReadsBytes
<1>1. PICK q, B : q = r.chunks[c] /\ B = BodyTokens(r, id)
  OBVIOUS
<1>2. ChunkLies(B, id, q, End(P, h), End(P, c)) /\ End(P, c) <= End(P, Len(r.chunks))
  <2>1. /\ ChunkLies(BodyTokens(r, id), id, r.chunks[c], End(P, h), End(P, c))
        /\ End(P, c) <= End(P, Len(r.chunks))
    BY ChunkedBodyAt, Zenon
  <2> QED
    BY <1>1, <2>1, Zenon
<1>3. /\ q \in Seq(STRING)
      /\ End(P, h) \in Nat
      /\ End(P, c) = End(P, h) + (Len(q) + 2)
      /\ \A j \in 1..Len(q) : B[End(P, h) + (1 + j)] = Token("data", id, q[j], 0)
  BY <1>2 DEF ChunkLies
<1>4. Len(B) = End(P, Len(r.chunks)) + 2 /\ End(P, Len(r.chunks)) \in Nat
  BY <1>1, ChunkedBodyEnd, Zenon
<1>5. PICK l \in Nat, e \in Nat : l = Len(q) /\ e = End(P, h)
  BY <1>3
<1>6. PICK m \in 0..l : InBody(e + (1 + m)) /\ need = l - m /\ body = Q[h] \o SubSeq(q, 1, m)
  BY <1>1, <1>5 DEF InData
<1>7. PICK d \in Nat : d = e + (1 + m)
  BY <1>5, <1>6
<1>8. n \in Nat /\ m \in Nat /\ d \in Int /\ m + n \in 0..l /\ m + n <= l
  <2>1. n \in Nat
    BY <1>r, AvailType
  <2>2. m \in Nat /\ n <= l - m /\ m <= l
    BY <1>r, <1>5, <1>6
  <2> QED
    BY <1>5, <1>7, <2>1, <2>2
<1>9. InBody(d + n)'
  BY <1>r, <1>6, <1>7, <1>8, ReadsOn
<1>10. d + n = e + (1 + (m + n))
  BY <1>7, <1>8
<1>11. [k \in 1..n |-> avail[k].val] = [k \in 1..n |-> q[m + k]]
  <2>1. ASSUME NEW k \in 1..n PROVE B[d + k] = Token("data", id, q[m + k], 0)
    <3>1. m + k \in 1..l /\ d + k = e + (1 + (m + k))
      BY <1>7, <1>8
    <3>2. B[e + (1 + (m + k))] = Token("data", id, q[m + k], 0)
      BY <1>3, <1>5, <3>1
    <3> QED
      BY <3>1, <3>2
  <2>2. At = Start(id) + 3 + d
    BY <1>6, <1>7 DEF InBody
  <2>3. PICK f \in Nat : f = End(P, Len(r.chunks))
    BY <1>4
  <2>4. e + (l + 2) <= f
    BY <1>2, <1>3, <1>5, <2>3
  <2>5. d + n <= f + 2
    BY <1>8, <1>10, <2>4
  <2>6. d + n <= Len(B) /\ m + n <= Len(q)
    BY <1>4, <1>5, <1>8, <2>3, <2>5
  <2>7. B = BodyTokens(requests[id], id)
    BY <1>0, <1>1
  <2>8. \A k \in 1..n : BodyTokens(requests[id], id)[d + k] = Token("data", id, q[m + k], 0)
    BY <2>1, <2>7
  <2>9. d + n <= Len(BodyTokens(requests[id], id))
    BY <2>6, <2>7
  <2>10. n \in 1..Len(avail)
    BY <1>r
  <2>11. BytesLie(id, d, q, m, n)
    BY <2>8, <2>9 DEF BytesLie
  <2>12. PieceIs(q, m, n)
    BY <2>2, <2>10, <2>11, DataRead, Zenon
  <2> QED
    BY <2>12 DEF PieceIs
<1>12. PICK f : f = [k \in 1..n |-> q[m + k]]
  OBVIOUS
<1>13. /\ SubSeq(q, 1, m) \in Seq(STRING)
       /\ f \in Seq(STRING)
       /\ SubSeq(q, 1, m) \o f = SubSeq(q, 1, m + n)
  <2>1. m + n <= Len(q)
    BY <1>5, <1>8
  <2>2. m \in Nat /\ n \in Nat /\ q \in Seq(STRING)
    BY <1>3, <1>8
  <2> QED
    BY <1>12, <2>1, <2>2, PrefixGrows
<1>14. /\ \A x \in 0..Len(r.chunks) : Q[x] \in Seq(STRING)
       /\ \A x \in 1..Len(r.chunks) : Q[x] = Q[x - 1] \o r.chunks[x]
  BY TextsJoin, Zenon
<1>15. Q[h] \in Seq(STRING) /\ Q[c] = Q[h] \o q
  BY <1>1, <1>14
<1>16. body' = Q[h] \o SubSeq(q, 1, m + n)
  <2>1. body' = (Q[h] \o SubSeq(q, 1, m)) \o f
    BY <1>r, <1>6, <1>11, <1>12
  <2>2. PICK t, u : t = Q[h] /\ u = SubSeq(q, 1, m)
    OBVIOUS
  <2>3. t \in Seq(STRING) /\ u \in Seq(STRING)
    BY <1>13, <1>15, <2>2
  <2>4. (t \o u) \o f = t \o (u \o f)
    BY <1>13, <2>3, ConcatAssociative, SMTT(30)
  <2> QED
    BY <1>13, <2>1, <2>2, <2>4
<1>17. ASSUME n < need PROVE InData(P, Q, h, r.chunks[c])'
  <2>1. need' = l - (m + n)
    BY <1>r, <1>6, <1>8, <1>17
  <2>2. InBody(e + (1 + (m + n)))'
    BY <1>9, <1>10
  <2> QED
    BY <1>1, <1>5, <1>8, <1>16, <2>1, <2>2 DEF InData
<1>18. ASSUME n = need PROVE InBody(End(P, c) - 1)' /\ body' = Q[c]
  <2>1. m + n = l
    BY <1>6, <1>8, <1>18
  <2>2. SubSeq(q, 1, l) = q
    BY <1>3, <1>5, SubSeqFull
  <2>3. End(P, c) - 1 = d + n
    <3>1. End(P, c) = e + (l + 2)
      BY <1>3, <1>5
    <3>2. e + (l + 2) - 1 = e + (1 + l)
      OBVIOUS
    <3> QED
      BY <1>10, <2>1, <3>1, <3>2
  <2> QED
    BY <1>9, <1>15, <1>16, <2>1, <2>2, <2>3
<1> QED
  BY <1>17, <1>18

(* A read of a line, in a body whose next token is one.                    *)
LEMMA LineStep ==
    ASSUME ConnType, Unread, id \in DOMAIN requests, HasLine, avail' = AfterLine,
           UNCHANGED <<requests, unsent, id>>,
           NEW d \in Nat, InBody(d), d + 1 <= Len(BodyTokens(requests[id], id)),
           IsLine(BodyTokens(requests[id], id)[d + 1])
    PROVE  /\ avail[1] = BodyTokens(requests[id], id)[d + 1]
           /\ LineLength = 1
           /\ InBody(d + 1)'
<1>1. LineLength \in 1..Len(avail) /\ Len(avail) \in Nat
  BY LineLengthType, AvailType
<1>2. 1 \in 1..Len(avail) /\ 1 \in 0..Len(avail)
  BY <1>1
<1>3. At = Start(id) + 3 + d
  BY DEF InBody
<1>4. avail[1] = BodyTokens(requests[id], id)[d + 1]
  BY <1>2, <1>3, TokenRead
<1>5. LineLength = 1
  <2>1. IsLine(avail[1])
    BY <1>4
  <2> QED
    BY <2>1, LineRead
<1>6. Reads(1)
  BY <1>2, <1>5 DEF Reads, AfterLine
<1>7. d \in Int
  OBVIOUS
<1>8. InBody(d + 1)'
  BY <1>6, <1>7, ReadsOn
<1> QED
  BY <1>4, <1>5, <1>8

(* Where the worker is in a chunked body, if it is in one.                 *)
LEMMA ChunkPlace ==
    ASSUME ConnType, BodyInv, NEW r \in Request, r = requests[id], Sent(r),
           pc \in {"size", "crlf", "last"}
    PROVE  /\ r.framing = "chunked" /\ r.parts = <<>>
           /\ id \in DOMAIN requests
           /\ \E P, Q : /\ ChunkEnds(P, r, id)
                        /\ ChunkTexts(Q, r)
                        /\ InChunks(r, P, Q, Len(r.chunks))
<1>1. pc \in BodyStates /\ pc # "data"
  BY DEF BodyStates
<1>2. id \in DOMAIN requests
  BY <1>1 DEF ConnType, Reading
<1>3. r.framing = "chunked" /\ r.parts = <<>>
  BY <1>1 DEF BodyInv, BodyState, Sent
<1> QED
  BY <1>1, <1>2, <1>3 DEF BodyInv, BodyState

(* The end of a chunked body.                                              *)
LEMMA BodyLast ==
    ASSUME ConnType, OutType, BodyInv, Server, ReadLast
    PROVE  BodyInv'
<1>1. pc = "last" /\ pc \in BodyStates /\ body' = body /\ id' = id
  BY DEF ReadLast, BodyStates
<1>2. id \in DOMAIN requests
  BY <1>1 DEF ConnType, Reading
<1>3. PICK r \in Request : r = requests[id]
  BY <1>2 DEF ConnType
<1>4. ASSUME Sent(r) PROVE body' = BodyOf(r)
  <2>1. PICK P, Q : /\ ChunkEnds(P, r, id)
                    /\ ChunkTexts(Q, r)
                    /\ InChunks(r, P, Q, Len(r.chunks))
    BY <1>1, <1>3, <1>4, ChunkPlace
  <2>2. PICK n : n = Len(r.chunks)
    OBVIOUS
  <2>3. body = Q[n]
    BY <1>1, <2>1, <2>2 DEF InChunks
  <2>4. BodyOf(r) = Q[Len(r.chunks)]
    <3>1. r.parts = <<>>
      BY <1>4 DEF Sent
    <3> QED
      BY <2>1, <3>1, TextsJoin, Zenon
  <2> QED
    BY <1>1, <2>2, <2>3, <2>4
<1>5. Sent(requests[id]) => body' = BodyOf(requests[id])
  BY <1>3, <1>4
<1>6. \E ok : ContentRead(ok)
  BY Zenon DEF ReadLast
<1> QED
  BY <1>1, <1>5, <1>6, BodyContent

(* The line break after a chunk.                                           *)
LEMMA CrlfRead ==
    ASSUME ConnType, BodyInv, Server, ReadCrlf, NEW r \in Request, r = requests[id], Sent(r)
    PROVE  /\ IsThe("blank")
           /\ r.framing = "chunked"
           /\ pc' = "size" => \E P, Q : /\ ChunkEnds(P, r, id)
                                        /\ ChunkTexts(Q, r)
                                        /\ InChunks(r, P, Q, Len(r.chunks))'
<1>1. pc = "crlf" /\ pc \in BodyStates /\ body' = body /\ id' = id /\ avail' = AfterLine /\ HasLine
  BY DEF ReadCrlf, BodyStates
<1>2. id \in DOMAIN requests
  BY <1>1 DEF ConnType, Reading
<1>3. requests' = requests /\ unsent' = unsent /\ Unread
  BY UnreadKept DEF BodyInv
<1>4. PICK P, Q : /\ ChunkEnds(P, r, id)
                  /\ ChunkTexts(Q, r)
                  /\ InChunks(r, P, Q, Len(r.chunks))
  BY <1>1, ChunkPlace
<1>5. r.framing = "chunked" /\ r.parts = <<>>
  BY <1>1, ChunkPlace
<1>6. PICK c \in 1..Len(r.chunks) : InBody(End(P, c) - 1) /\ body = Q[c]
  BY <1>1, <1>4 DEF InChunks
<1>7. PICK n \in Nat : n = Len(r.chunks)
  BY <1>4, <1>5, TextsJoin, Zenon
<1>8. PICK h \in 0..Len(r.chunks) : h = c - 1
  BY <1>7
<1>9. PICK q, B, e, f : q = r.chunks[c] /\ B = BodyTokens(r, id) /\ e = End(P, h) /\ f = End(P, c)
  OBVIOUS
<1>10. ChunkLies(B, id, q, e, f) /\ f <= End(P, Len(r.chunks))
  <2>1. /\ ChunkLies(BodyTokens(r, id), id, r.chunks[c], End(P, h), End(P, c))
        /\ End(P, c) <= End(P, Len(r.chunks))
    BY <1>4, <1>5, <1>8, ChunkedBodyAt, Zenon
  <2> QED
    BY <1>9, <2>1, Zenon
<1>11. /\ q \in Seq(STRING) /\ e \in Nat /\ f = e + (Len(q) + 2)
      /\ B[e + (Len(q) + 2)] = Line("blank", id)
  BY <1>10 DEF ChunkLies
<1>12. PICK l \in Nat : l = Len(q)
  BY <1>11
<1>13. PICK d \in Nat : d = f - 1 /\ d + 1 = f
  <2>1. f = e + (l + 2) /\ e \in Nat
    BY <1>11, <1>12
  <2>2. f - 1 \in Nat /\ (f - 1) + 1 = f
    BY <2>1
  <2> QED
    BY <2>2
<1>14. B[d + 1] = Line("blank", id)
  BY <1>11, <1>13
<1>15. Len(B) = End(P, Len(r.chunks)) + 2 /\ End(P, Len(r.chunks)) \in Nat
  BY <1>4, <1>5, <1>9, ChunkedBodyEnd, SMTT(30)
<1>16. d + 1 <= Len(B)
  BY <1>10, <1>13, <1>15
<1>17. Line("blank", id).kind = "blank" /\ IsLine(Line("blank", id))
  BY DEF Line, Token, IsLine
<1>18. InBody(d)
  BY <1>6, <1>9, <1>13
<1>19. avail[1] = B[d + 1] /\ LineLength = 1 /\ InBody(d + 1)'
  <2>1. B = BodyTokens(requests[id], id)
    BY <1>9
  <2>2. IsLine(B[d + 1])
    BY <1>14, <1>17
  <2> QED
    BY <1>1, <1>2, <1>3, <1>16, <1>18, <2>1, <2>2, LineStep
<1>20. IsThe("blank")
  BY <1>14, <1>17, <1>19 DEF IsThe
<1>21. ASSUME pc' = "size" PROVE InChunks(r, P, Q, Len(r.chunks))'
  <2>1. c \in 0..n /\ InBody(End(P, c))' /\ body' = Q[c]
    BY <1>1, <1>6, <1>7, <1>9, <1>13, <1>19
  <2>2. InChunks(r, P, Q, n)'
    BY <1>21, <2>1 DEF InChunks
  <2> QED
    BY <1>7, <2>2
<1> QED
  BY <1>4, <1>5, <1>20, <1>21

(* The step that reads it.                                                 *)
LEMMA BodyCrlf ==
    ASSUME ConnType, OutType, BodyInv, Server, ReadCrlf
    PROVE  BodyInv'
<1>1. pc = "crlf" /\ pc \in BodyStates /\ body' = body /\ id' = id /\ avail' = AfterLine /\ HasLine
  BY DEF ReadCrlf, BodyStates
<1>2. id \in DOMAIN requests
  BY <1>1 DEF ConnType, Reading
<1>3. PICK r \in Request : r = requests[id]
  BY <1>2 DEF ConnType
<1>4. requests' = requests /\ unsent' = unsent /\ Unread
  BY UnreadKept DEF BodyInv
<1>5. ASSUME Sent(r)
      PROVE  /\ IsThe("blank")
             /\ r.framing = "chunked"
             /\ pc' = "size" => \E P, Q : /\ ChunkEnds(P, r, id)
                                          /\ ChunkTexts(Q, r)
                                          /\ InChunks(r, P, Q, Len(r.chunks))'
  BY <1>3, <1>5, CrlfRead
<1>6. CASE pc' = "size" /\ out' = out
  <2>1. BodyState'
    BY <1>1, <1>3, <1>4, <1>5, <1>6 DEF BodyState, Sent
  <2> QED
    BY <1>6, <2>1, BodyQuiet
<1>7. CASE ~IsThe("blank") /\ ContentRead(TRUE)
  <2>1. ~Sent(requests[id])
    BY <1>3, <1>5, <1>7
  <2>2. \E ok : ContentRead(ok)
    BY <1>7, Zenon
  <2> QED
    BY <1>1, <2>1, <2>2, BodyContent
<1> QED
  BY <1>6, <1>7 DEF ReadCrlf

(* A failed read of the body.                                              *)
LEMMA BodyFails ==
    ASSUME ConnType, OutType, BodyInv, Server, pc \in BodyStates, id' = id, ContentRead(FALSE)
    PROVE  BodyInv'
<1>1. \E ok : ~ok /\ ContentRead(ok)
  BY Zenon
<1> QED
  BY <1>1, BodyContent

(* The size line of a chunk, or the zero after the last one.               *)
LEMMA SizeRead ==
    ASSUME ConnType, BodyInv, Server, ReadSize, NEW r \in Request, r = requests[id], Sent(r),
           NEW P, ChunkEnds(P, r, id), NEW Q, ChunkTexts(Q, r),
           NEW c \in 0..Len(r.chunks), InBody(End(P, c)), body = Q[c]
    PROVE  /\ IsThe("size") \/ IsThe("zero")
           /\ pc' \in {"data", "last"} => InChunks(r, P, Q, Len(r.chunks))'
<1>1. pc = "size" /\ body' = body /\ id' = id /\ avail' = AfterLine /\ HasLine
  BY DEF ReadSize
<1>2. r.framing = "chunked" /\ r.parts = <<>> /\ id \in DOMAIN requests
  BY <1>1, ChunkPlace
<1>3. requests' = requests /\ unsent' = unsent /\ Unread
  BY UnreadKept DEF BodyInv
<1>4. /\ IsThe("size") => need' = avail[1].size /\ pc' = "data"
      /\ IsThe("zero") => pc' = "last"
  <2>1. ~(IsThe("size") /\ IsThe("zero"))
    BY DEF IsThe
  <2> QED
    BY <2>1 DEF ReadSize
<1>5. PICK B, n : B = BodyTokens(r, id) /\ n = Len(r.chunks)
  OBVIOUS
<1>6. PICK g : g = End(P, n)
  OBVIOUS
<1>7. n \in Nat /\ g \in Nat /\ Len(B) = g + 2 /\ B[g + 1] = Line("zero", id)
  BY <1>2, <1>5, <1>6, ChunkedBodyEnd, SMTT(30)
<1>8. B = BodyTokens(requests[id], id)
  BY <1>5
<1>9. CASE c = n
  <2>1. Line("zero", id).kind = "zero" /\ IsLine(Line("zero", id))
    BY DEF Line, Token, IsLine
  <2>2. g + 1 <= Len(B) /\ IsLine(B[g + 1]) /\ InBody(g)
    BY <1>6, <1>7, <1>9, <2>1
  <2>3. avail[1] = B[g + 1] /\ LineLength = 1 /\ InBody(g + 1)'
    BY <1>1, <1>2, <1>3, <1>7, <1>8, <2>2, LineStep
  <2>4. IsThe("zero")
    BY <1>7, <2>1, <2>3 DEF IsThe
  <2>5. InBody(End(P, n) + 1)' /\ body' = Q[n] /\ pc' = "last"
    BY <1>1, <1>4, <1>6, <1>9, <2>3, <2>4
  <2>6. InChunks(r, P, Q, n)'
    BY <2>5 DEF InChunks
  <2> QED
    BY <1>5, <2>4, <2>6
<1>10. CASE c # n
  <2>1. PICK x \in 1..Len(r.chunks) : c = x - 1
    <3>1. c + 1 \in 1..n /\ c = (c + 1) - 1
      BY <1>5, <1>7, <1>10
    <3> QED
      BY <1>5, <3>1
  <2>2. PICK q, e, f : q = r.chunks[x] /\ e = End(P, c) /\ f = End(P, x)
    OBVIOUS
  <2>3. ChunkLies(B, id, q, e, f) /\ f <= g
    <3>1. /\ ChunkLies(BodyTokens(r, id), id, r.chunks[x], End(P, c), End(P, x))
          /\ End(P, x) <= End(P, Len(r.chunks))
      BY <1>2, <2>1, ChunkedBodyAt, Zenon
    <3> QED
      BY <1>5, <1>6, <2>2, <3>1, Zenon
  <2>0. q \in Seq(STRING) /\ e \in Nat /\ f = e + (Len(q) + 2)
    BY <2>3 DEF ChunkLies
  <2>4. B[e + 1] = Token("size", id, "", Len(q))
    BY <2>3 DEF ChunkLies
  <2>5. PICK l \in Nat : l = Len(q)
    BY <2>0
  <2>6. /\ Token("size", id, "", l).kind = "size"
        /\ Token("size", id, "", l).size = l
        /\ IsLine(Token("size", id, "", l))
    BY DEF Token, IsLine
  <2>7. e + 1 <= Len(B) /\ IsLine(B[e + 1]) /\ InBody(e)
    <3>1. e + 1 <= Len(B)
      BY <1>7, <2>0, <2>3, <2>5
    <3> QED
      BY <2>2, <2>4, <2>5, <2>6, <3>1
  <2>8. avail[1] = B[e + 1] /\ LineLength = 1 /\ InBody(e + 1)'
    BY <1>1, <1>2, <1>3, <1>8, <2>0, <2>7, LineStep
  <2>9. IsThe("size") /\ avail[1].size = l
    BY <2>4, <2>5, <2>6, <2>8 DEF IsThe
  <2>10. InData(P, Q, c, q)'
    <3>1. Q[c] \in Seq(STRING)
      <4>1. \A y \in 0..Len(r.chunks) : Q[y] \in Seq(STRING)
        BY <1>2, TextsJoin, Zenon
      <4> QED
        BY <4>1
    <3>2. PICK t : t = Q[c]
      OBVIOUS
    <3>3. t \o SubSeq(q, 1, 0) = t
      <4>1. SubSeq(q, 1, 0) = <<>>
        BY <2>0
      <4>2. t \o <<>> = t
        BY <3>1, <3>2
      <4> QED
        BY <4>1, <4>2
    <3>4. body' = Q[c] \o SubSeq(q, 1, 0)
      BY <1>1, <3>2, <3>3
    <3>5. 0 \in 0..Len(q) /\ need' = Len(q) - 0 /\ e + (1 + 0) = e + 1
      BY <1>4, <2>0, <2>5, <2>9
    <3> QED
      BY <2>2, <2>8, <3>4, <3>5 DEF InData
  <2>11. InChunks(r, P, Q, n)'
    <3>1. x \in 1..n /\ c \in 0..n /\ pc' = "data"
      BY <1>4, <1>5, <2>9
    <3> QED
      BY <2>1, <2>2, <2>10, <3>1 DEF InChunks
  <2> QED
    BY <1>5, <2>9, <2>11
<1> QED
  BY <1>9, <1>10

(* The step that reads it.                                                 *)
LEMMA BodySize ==
    ASSUME ConnType, OutType, BodyInv, Server, ReadSize
    PROVE  BodyInv'
<1>1. pc = "size" /\ pc \in BodyStates /\ body' = body /\ id' = id
  BY DEF ReadSize, BodyStates
<1>2. id \in DOMAIN requests
  BY <1>1 DEF ConnType, Reading
<1>3. PICK r \in Request : r = requests[id]
  BY <1>2 DEF ConnType
<1>4. requests' = requests
  BY UnreadKept DEF BodyInv
<1>5. CASE pc' \in {"data", "last"} /\ out' = out
  <2>1. ASSUME Sent(r)
        PROVE  /\ r.framing = "chunked"
               /\ \E P, Q : /\ ChunkEnds(P, r, id)
                            /\ ChunkTexts(Q, r)
                            /\ InChunks(r, P, Q, Len(r.chunks))'
    <3>1. r.framing = "chunked"
      BY <1>1, <1>3, <2>1, ChunkPlace
    <3>2. PICK P, Q : /\ ChunkEnds(P, r, id)
                      /\ ChunkTexts(Q, r)
                      /\ InChunks(r, P, Q, Len(r.chunks))
      BY <1>1, <1>3, <2>1, ChunkPlace
    <3>3. PICK c \in 0..Len(r.chunks) : InBody(End(P, c)) /\ body = Q[c]
      BY <1>1, <3>2 DEF InChunks
    <3>4. InChunks(r, P, Q, Len(r.chunks))'
      BY <1>3, <1>5, <2>1, <3>2, <3>3, SizeRead
    <3> QED
      BY <3>1, <3>2, <3>4
  <2>2. BodyState'
    BY <1>1, <1>3, <1>4, <1>5, <2>1 DEF BodyState, Sent
  <2> QED
    BY <1>5, <2>2, BodyQuiet
<1>6. CASE ContentRead(FALSE)
  BY <1>1, <1>6, BodyFails
<1> QED
  BY <1>5, <1>6 DEF ReadSize

(* Bytes of a body.                                                        *)
LEMMA BodyData ==
    ASSUME ConnType, OutType, BodyInv, Server, NEW n \in 1..Len(avail), ReadData(n)
    PROVE  BodyInv'
<1>1. pc = "data" /\ pc \in BodyStates /\ id' = id /\ n <= need
  BY DEF ReadData, BodyStates
<1>2. id \in DOMAIN requests
  BY <1>1 DEF ConnType, Reading
<1>3. PICK r \in Request : r = requests[id]
  BY <1>2 DEF ConnType
<1>4. requests' = requests /\ unsent' = unsent /\ Unread
  BY UnreadKept DEF BodyInv
<1>5. Reads(n)
  <2>1. n \in 0..Len(avail)
    BY AvailType
  <2>2. avail' = Erase(avail, n)
    BY DEF ReadData
  <2> QED
    BY <1>1, <1>4, <2>1, <2>2 DEF Reads
<1>6. ASSUME Sent(r), n < need => need' = need - n PROVE ReadsBytes(n)
  <2>1. body' = body \o [k \in 1..n |-> avail[k].val]
    BY <1>3, <1>6 DEF ReadData, Receive, Sent
  <2> QED
    BY <1>1, <1>5, <1>6, <2>1 DEF ReadsBytes
<1>7. ASSUME Sent(r), r.framing = "length" PROVE InLength(r)
  BY <1>1, <1>3, <1>7 DEF BodyInv, BodyState, Sent
<1>8. CASE ContentRead(FALSE)
  BY <1>1, <1>8, BodyFails
<1>9. CASE n = need /\ r.framing = "length" /\ ContentRead(TRUE)
  <2>1. ASSUME Sent(r) PROVE body' = BodyOf(r)
    <3>1. ReadsBytes(n)
      <4>1. n \in Int
        BY AvailType
      <4>2. ~(n < need)
        BY <1>9, <4>1
      <4> QED
        BY <1>6, <2>1, <4>2
    <3> QED
      BY <1>2, <1>3, <1>4, <1>7, <1>9, <2>1, <3>1, LengthRead
  <2>2. Sent(requests[id]) => body' = BodyOf(requests[id])
    BY <1>3, <2>1
  <2>3. \E ok : ContentRead(ok)
    BY <1>9, Zenon
  <2> QED
    BY <1>1, <2>2, <2>3, BodyContent
<1>10. CASE /\ n < need \/ r.framing \in Chunked
            /\ need' = need - n
            /\ pc' = IF n < need THEN "data" ELSE "crlf"
            /\ out' = out
  <2>1. ASSUME Sent(r), r.framing = "length" PROVE pc' = "data" /\ InLength(r)'
    <3>1. n < need
      BY <1>10, <2>1 DEF Chunked
    <3>2. ReadsBytes(n)
      BY <1>6, <1>10, <2>1
    <3> QED
      BY <1>2, <1>3, <1>4, <1>7, <1>10, <2>1, <3>1, <3>2, LengthRead
  <2>2. ASSUME Sent(r), r.framing = "chunked"
        PROVE  \E P, Q : /\ ChunkEnds(P, r, id)
                         /\ ChunkTexts(Q, r)
                         /\ InChunks(r, P, Q, Len(r.chunks))'
    <3>1. PICK P, Q : /\ ChunkEnds(P, r, id)
                      /\ ChunkTexts(Q, r)
                      /\ InChunks(r, P, Q, Len(r.chunks))
      BY <1>1, <1>3, <2>2 DEF BodyInv, BodyState
    <3>2. PICK c \in 1..Len(r.chunks), h \in 0..Len(r.chunks) :
             h = c - 1 /\ InData(P, Q, h, r.chunks[c])
      BY <1>1, <3>1 DEF InChunks
    <3>3. ReadsBytes(n) /\ r.parts = <<>>
      BY <1>6, <1>10, <2>2 DEF Sent
    <3>4. /\ n < need => InData(P, Q, h, r.chunks[c])'
          /\ n = need => InBody(End(P, c) - 1)' /\ body' = Q[c]
      BY <1>2, <1>3, <1>4, <2>2, <3>1, <3>2, <3>3, ChunkRead
    <3>5. CASE n < need
      <4>1. InData(P, Q, h, r.chunks[c])' /\ pc' = "data"
        BY <1>10, <3>4, <3>5
      <4>2. InChunks(r, P, Q, Len(r.chunks))'
        BY <3>2, <4>1 DEF InChunks
      <4> QED
        BY <3>1, <4>2
    <3>6. CASE ~(n < need)
      <4>1. n = need
        <5>1. PICK q : q = r.chunks[c]
          OBVIOUS
        <5>2. q \in Seq(STRING)
          BY <5>1, RequestType, PiecesType DEF Pieces
        <5>3. PICK l \in Nat : l = Len(q)
          BY <5>2
        <5>4. PICK m \in 0..l : need = l - m
          BY <3>2, <5>1, <5>3 DEF InData
        <5>5. n \in Int
          BY AvailType
        <5> QED
          BY <1>1, <3>6, <5>4, <5>5
      <4>2. InBody(End(P, c) - 1)' /\ body' = Q[c] /\ pc' = "crlf"
        BY <1>10, <3>4, <3>6, <4>1
      <4>3. InChunks(r, P, Q, Len(r.chunks))'
        BY <4>2 DEF InChunks
      <4> QED
        BY <3>1, <4>3
    <3> QED
      BY <3>5, <3>6
  <2>3. BodyState'
    BY <1>1, <1>3, <1>4, <1>10, <2>1, <2>2 DEF BodyState, Sent
  <2> QED
    BY <1>10, <2>3, BodyQuiet
<1> QED
  BY <1>3, <1>8, <1>9, <1>10 DEF ReadData

(* Steps that are not within a body, or that end one.                      *)
LEMMA BodyOther ==
    ASSUME ConnType, OutType, BodyInv, Server,
           \/ keep_alive \/ ReadLineFails \/ SkipHeaders
           \/ ReadHeadersFails \/ ContentFails \/ ReadRest
    PROVE  BodyInv'
<1>1. ASSUME out' = out, pc' \in {"line", "closed"} PROVE BodyInv'
  <2>1. BodyState'
    BY <1>1 DEF BodyState, BodyStates
  <2> QED
    BY <1>1, <2>1, BodyQuiet
<1>2. ASSUME NEW st, st # 404, NEW headers, Reply(st, <<>>, headers, FALSE) PROVE BodyInv'
  BY <1>2, BodyReply
<1>3. CASE keep_alive \/ ReadLineFails
  BY <1>1, <1>3 DEF keep_alive, ReadLineFails
<1>4. CASE SkipHeaders
  <2>1. PICK st : st = IF high THEN 500 ELSE 414
    OBVIOUS
  <2>2. Reply(st, <<>>, FALSE, FALSE)
    BY <1>4, <2>1, Zenon DEF SkipHeaders
  <2>3. st # 404
    BY <2>1
  <2> QED
    BY <1>2, <2>2, <2>3
<1>5. CASE ReadHeadersFails
  <2>1. PICK st : st = 400
    OBVIOUS
  <2>2. \E headers : Reply(st, <<>>, headers, FALSE)
    BY <1>5, <2>1, Zenon DEF ReadHeadersFails
  <2>3. st # 404
    BY <2>1
  <2> QED
    BY <1>2, <2>2, <2>3
<1>6. CASE ContentFails
  <2>1. pc \in BodyStates /\ id' = id /\ ContentRead(FALSE)
    BY <1>6 DEF ContentFails, BodyStates
  <2> QED
    BY <2>1, BodyFails
<1>7. CASE ReadRest
  <2>1. pc \in BodyStates /\ pc = "rest" /\ id' = id
    BY <1>7 DEF ReadRest, BodyStates
  <2>2. id \in DOMAIN requests
    BY <2>1 DEF ConnType, Reading
  <2>3. PICK r \in Request : r = requests[id]
    BY <2>2 DEF ConnType
  <2>4. ~Sent(r)
    <3>1. SUFFICES ASSUME Sent(r) PROVE FALSE
      OBVIOUS
    <3>2. r.framing = "chunked"
      BY <2>1, <2>3, <3>1 DEF BodyInv, BodyState, Sent
    <3>3. \E P, Q : InChunks(r, P, Q, Len(r.chunks))
      BY <2>1, <2>3, <3>1, <3>2 DEF BodyInv, BodyState
    <3> QED
      BY <2>1, <3>3 DEF InChunks
  <2>5. \E ok : ContentRead(ok)
    BY <1>7, Zenon DEF ReadRest
  <2> QED
    BY <2>1, <2>3, <2>4, <2>5, BodyContent
<1> QED
  BY <1>3, <1>4, <1>5, <1>6, <1>7

(* At the start nothing has been read ...                                  *)
LEMMA BodyStarts == ConnInv /\ ConnectionInit => BodyInv
<1> SUFFICES ASSUME ConnType, ConnectionInit PROVE BodyInv
  BY DEF ConnInv
<1>1. unsent = Stream(requests) /\ avail = <<>> /\ out = <<>> /\ pc = "keepalive"
  BY DEF ConnectionInit
<1>2. PICK s \in Nat : s = Len(Stream(requests))
  BY PlaceJoins
<1>3. Len(avail) = 0 /\ DOMAIN out = {}
  BY <1>1
<1>4. At = 0
  BY <1>1, <1>2, <1>3 DEF At
<1>5. \A k \in 1..s : At + Len(avail) + k = k
  BY <1>3, <1>4
<1>6. Unread
  BY <1>1, <1>2, <1>3, <1>4, <1>5 DEF Unread
<1>7. BodyState
  BY <1>1 DEF BodyState, BodyStates
<1>8. Bodies
  BY <1>3 DEF Bodies
<1> QED
  BY <1>6, <1>7, <1>8 DEF BodyInv

(* A step that leaves the worker where it is in the stream.                *)
LEMMA BodyStays ==
    ASSUME BodyInv, Unread', At' = At, UNCHANGED <<requests, pc, id, need, body, out>>
    PROVE  BodyInv'
<1>1. \A i : Start(i)' = Start(i)
  BY DEF Start, Place, Enc
<1>2. \A d : InBody(d)' = InBody(d)
  BY <1>1 DEF InBody
<1>3. \A r : InLength(r)' = InLength(r)
  BY <1>2 DEF InLength
<1>4. \A P, Q, h, q : InData(P, Q, h, q)' = InData(P, Q, h, q)
  BY <1>2 DEF InData
<1>5. \A r, P, Q, n : InChunks(r, P, Q, n)' = InChunks(r, P, Q, n)
  BY <1>2, <1>4 DEF InChunks
<1>6. BodyState'
  BY <1>1, <1>2, <1>3, <1>5 DEF BodyInv, BodyState
<1>7. Bodies'
  BY DEF BodyInv, Bodies, Arrived, Carries
<1> QED
  BY <1>6, <1>7 DEF BodyInv

(* ... and every step keeps the place of the worker and the bodies of the  *)
(* responses.                                                              *)
LEMMA BodyStep == ConnInv /\ BodyInv /\ [ReadNext]_readVars => BodyInv'
<1> SUFFICES ASSUME ConnInv, BodyInv, [ReadNext]_readVars PROVE BodyInv'
  OBVIOUS
<1>0. ConnType /\ OutType
  BY DEF ConnInv, CloseInv
<1>1. ASSUME NEW n \in 1..Len(unsent), Send(n) PROVE BodyInv'
  <2>1. Unread' /\ At' = At
    BY <1>0, <1>1, ClientSends DEF BodyInv
  <2>2. UNCHANGED <<requests, pc, id, need, body, out>>
    BY <1>1 DEF Send
  <2> QED
    BY <2>1, <2>2, BodyStays
<1>2. CASE Finish \/ UNCHANGED readVars
  <2>1. UNCHANGED <<requests, unsent, avail, pc, id, need, body, out>>
    BY <1>2 DEF Finish, readVars, clientVars
  <2>2. Unread' /\ At' = At
    BY <2>1 DEF BodyInv, Unread, At
  <2> QED
    BY <2>1, <2>2, BodyStays
<1>3. CASE Server
  <2>1. ASSUME NEW n \in 1..Len(avail), ReadData(n) PROVE BodyInv'
    BY <1>0, <1>3, <2>1, BodyData
  <2>2. CASE ReadLine
    BY <1>0, <1>3, <2>2, BodyLine
  <2>3. CASE ReadHeaders
    BY <1>0, <1>3, <2>3, BodyHeaders
  <2>4. CASE Route
    BY <1>0, <1>3, <2>4, BodyRoute
  <2>5. CASE ReadSize
    BY <1>0, <1>3, <2>5, BodySize
  <2>6. CASE ReadCrlf
    BY <1>0, <1>3, <2>6, BodyCrlf
  <2>7. CASE ReadLast
    BY <1>0, <1>3, <2>7, BodyLast
  <2>8. CASE \/ keep_alive \/ ReadLineFails \/ SkipHeaders
             \/ ReadHeadersFails \/ ContentFails \/ ReadRest
    BY <1>0, <1>3, <2>8, BodyOther
  <2> QED
    BY <1>3, <2>1, <2>2, <2>3, <2>4, <2>5, <2>6, <2>7, <2>8 DEF Server
<1> QED
  BY <1>1, <1>2, <1>3 DEF ReadNext

(* A request that is routed with a body is routed with the body that was   *)
(* sent, for every division of the stream into reads and of the body into  *)
(* chunks (httplib.h:2603-2777).                                           *)
THEOREM ConnectionBodies == ConnectionSpec => []BodyArrivesWhole
<1>1. BodyInv => BodyArrivesWhole
  <2> SUFFICES ASSUME Bodies, NEW k \in Final,
                      out[k].status = 404, out[k].id # 0,
                      requests[out[k].id].framing \in {"length", "chunked"},
                      expect_content(requests[out[k].id]), requests[out[k].id].parts = <<>>,
                      ContentPlan(requests[out[k].id]) # "none"
               PROVE  out[k].body = BodyOf(requests[out[k].id])
    BY DEF BodyInv, BodyArrivesWhole
  <2>1. k \in DOMAIN out
    BY DEF Final
  <2> QED
    BY <2>1 DEF Bodies, Arrived, Carries, Sent
<1>2. ConnectionInit => BodyInv
  BY ConnStarts, BodyStarts
<1> QED
  BY <1>1, <1>2, ConnStarts, ConnStep, BodyStep, ReadsOnly, PTL DEF ConnectionSpec

-----------------------------------------------------------------------------
(* Pairing.  Unless a read has timed out or the socket is a high one, the  *)
(* worker is between requests where one starts, as long as every request   *)
(* so far is one whose bytes the server delimits.                          *)
Ahead(i) == \A j \in 1..i : j \in DOMAIN requests /\ Delimited(requests[j])

Over(i) == At = Start(i + 1) \/ (fin /\ avail = <<>>)

Answered == Cardinality(Final)

(* A form whose parts arrive whole, and what its response says of it.      *)
Asked(r) ==
    /\ r.parts # <<>>
    /\ Delimited(r)
    /\ \A i \in DOMAIN r.parts : Separable(r.parts[i].content)

Told(o) ==
    Asked(requests[o.id]) =>
        (o.status = 404 /\ o.parts = requests[o.id].parts) \/ (fin /\ ~FullySent(o.id))

Pairs ==
    \A k \in Final : \A f \in Nat :
        f + 1 = Number(k) /\ Ahead(f) => out[k].id = f + 1 /\ Told(out[k])

Track ==
    \A f \in Nat : f = Answered /\ Ahead(f) =>
        /\ pc \in {"keepalive", "line"} => Over(f)
        /\ pc \in Reading \cup {"dummy"} => id = f + 1 /\ id \in DOMAIN requests
        /\ pc = "dummy" => requests[id].line = "long" /\ At = Start(id) + 1

(* A body whose end only the stream tells.                                 *)
RestState == pc \in BodyStates /\ requests[id].framing = "none" => pc = "rest"

(* A form of which the first m characters have been read.                  *)
InForm(q, r, m) ==
    \E o, n, d : FormAt(q, o, r.parts, Encode(r.parts), n, d, m)

FormState ==
    LET r == requests[id]
    IN  /\ pc \in {"head", "route"} => form = NoParser
        /\ pc \in BodyStates /\ r.parts = <<>> => form = NoParser
        /\ pc \in BodyStates /\ r.parts # <<>> /\ WellFormed(r) =>
              /\ pc = "data"
              /\ \E m \in 0..Len(BodyOf(r)) :
                    /\ m < Len(BodyOf(r)) /\ need = Len(BodyOf(r)) - m
                    /\ InBody(m) /\ InForm(form, r, m)

PairInv == RestState /\ FormState /\ (~late /\ ~high => Pairs /\ Track)

(* Where a request ends the next one starts, or the stream ends.           *)
LEMMA StartNext ==
    ASSUME ConnType, NEW i \in DOMAIN requests
    PROVE  /\ Start(i) \in Nat
           /\ Len(BodyTokens(requests[i], i)) \in Nat
           /\ Start(i + 1) = Start(i) + 3 + Len(BodyTokens(requests[i], i))
           /\ Start(i + 1) <= Len(Stream(requests))
           /\ Len(Stream(requests)) \in Nat
<1>1. PICK S : S = TokenSet(DOMAIN requests)
  OBVIOUS
<1>2. /\ Enc \in Pieces(S) /\ Joins(Place, Enc, S) /\ Len(requests) \in Nat
      /\ i \in 1..Len(Enc) /\ Stream(requests) = FlattenSeq(Enc) /\ Len(Enc) = Len(requests)
      /\ Stream(requests) \in Seq(S)
  BY <1>1, PlaceJoins
<1>3. PICK h \in 0..Len(Enc) : h = i - 1
  BY <1>2
<1>4. PICK T : T = Enc[i]
  OBVIOUS
<1>5. T = RequestTokens(requests[i], i)
  BY <1>4 DEF Enc
<1>6. End(Place, h) \in Nat /\ T \in Seq(S) /\ End(Place, i) = End(Place, h) + Len(T)
  BY <1>2, <1>3, <1>4, JoinsLen
<1>7. PICK B : B = BodyTokens(requests[i], i)
  OBVIOUS
<1>8. Len(B) \in Nat /\ Len(T) = 3 + Len(B)
  <2>1. requests[i] \in Request
    BY DEF ConnType
  <2>2. B \in Seq(BodySet({i})) /\ Len(T) = 3 + Len(B)
    BY <1>5, <1>7, <2>1, RequestTokenAt, Zenon
  <2> QED
    BY <2>2
<1>9. End(Place, i) <= Len(Stream(requests))
  <2>1. PICK n : n = Len(Enc)
    OBVIOUS
  <2>2. i \in 0..n /\ n \in 0..n /\ i <= n
    BY <1>2, <2>1
  <2>3. End(Place, i) <= End(Place, n)
    BY <1>2, <2>1, <2>2, JoinsPrefix
  <2>4. Len(FlattenSeq(Enc)) = End(Place, n)
    BY <1>2, <2>1, FlattenJoins, Zenon DEF End
  <2> QED
    BY <1>2, <2>3, <2>4
<1>10. i \in Nat
  BY <1>2
<1>11. Start(i) = End(Place, h)
  BY <1>3 DEF Start
<1>12. Start(i + 1) = End(Place, i)
  <2>1. PICK j : j = i + 1
    OBVIOUS
  <2>2. j - 1 = i
    BY <1>10, <2>1
  <2>3. Start(j) = End(Place, j - 1)
    BY DEF Start
  <2>4. End(Place, j - 1) = End(Place, i)
    BY <2>2, Zenon
  <2> QED
    BY <2>1, <2>3, <2>4, Zenon
<1>13. PICK a \in Nat, b \in Nat, t \in Nat : a = End(Place, h) /\ b = Len(B) /\ t = Len(T)
  BY <1>6, <1>8
<1>14. a + t = a + 3 + b
  BY <1>8, <1>13
<1>15. Len(Stream(requests)) \in Nat
  BY <1>2
<1> QED
  BY <1>6, <1>7, <1>8, <1>9, <1>11, <1>12, <1>13, <1>14, <1>15

(* After the last request comes nothing.                                   *)
LEMMA StreamEnd ==
    ASSUME ConnType
    PROVE  /\ Len(requests) \in Nat
           /\ Start(Len(requests) + 1) = Len(Stream(requests))
           /\ Start(1) = 0
<1>1. PICK S : S = TokenSet(DOMAIN requests)
  OBVIOUS
<1>2. /\ Enc \in Pieces(S) /\ Joins(Place, Enc, S) /\ Len(requests) \in Nat
      /\ Stream(requests) = FlattenSeq(Enc) /\ Len(Enc) = Len(requests)
  BY <1>1, PlaceJoins
<1>3. PICK n \in Nat : n = Len(requests) /\ n + 1 - 1 = n
  BY <1>2
<1>4. Len(FlattenSeq(Enc)) = End(Place, n)
  BY <1>2, <1>3, FlattenJoins, Zenon DEF End
<1>5. End(Place, 0) = 0
  BY <1>2 DEF Joins, End
<1> QED
  BY <1>2, <1>3, <1>4, <1>5 DEF Start

(* At the start of a request the next line is its request line.            *)
LineKind(r) == IF r.line = "ok" THEN "request" ELSE r.line

(* A server that is at the start of a request reads its request line.      *)
LEMMA FirstRead ==
    ASSUME ConnType, Unread, HasLine, NEW f \in Nat, f <= Len(requests), At = Start(f + 1)
    PROVE  /\ f + 1 \in DOMAIN requests
           /\ LineLength = 1
           /\ avail[1] = Line(LineKind(requests[f + 1]), f + 1)
<1>1. LineLength \in 1..Len(avail) /\ Len(avail) \in Nat
  BY LineLengthType, AvailType
<1>2. PICK s \in Nat, a \in Nat, u \in Nat :
         s = Len(Stream(requests)) /\ a = Len(avail) /\ u = Len(unsent)
  BY PlaceJoins DEF ConnType
<1>3. At = s - a - u /\ a >= 1
  <2>1. At = s - a - u
    BY <1>2 DEF At
  <2>2. a >= 1
    BY <1>1, <1>2
  <2> QED
    BY <2>1, <2>2
<1>4. f # Len(requests)
  BY <1>2, <1>3, StreamEnd
<1>5. f + 1 \in DOMAIN requests
  <2>1. PICK l \in Nat : l = Len(requests) /\ DOMAIN requests = 1..l
    BY PlaceJoins
  <2>2. f <= l /\ f # l
    BY <1>4, <2>1
  <2>3. f + 1 \in 1..l
    BY <2>2
  <2> QED
    BY <2>1, <2>3
<1>6. PICK i \in DOMAIN requests : i = f + 1
  BY <1>5
<1>7. PICK T : T = RequestTokens(requests[i], i)
  OBVIOUS
<1>8. T[1] = Line(LineKind(requests[i]), i) /\ 1 \in 1..Len(T)
  <2>1. requests[i] \in Request
    BY DEF ConnType
  <2>2. PICK B : B = BodyTokens(requests[i], i)
    OBVIOUS
  <2>3. B \in Seq(BodySet({i})) /\ Len(T) = 3 + Len(B)
    BY <1>7, <2>1, <2>2, RequestTokenAt, Zenon
  <2>4. T[1] = Line(LineKind(requests[i]), i)
    BY <1>7, <2>1, RequestTokenAt, Zenon DEF LineKind
  <2>5. Len(B) \in Nat
    BY <2>3
  <2> QED
    BY <2>3, <2>4, <2>5
<1>9. Stream(requests)[Start(i) + 1] = T[1]
  BY <1>7, <1>8, StreamAt
<1>10. avail[1] = Stream(requests)[At + 1]
  BY <1>1 DEF Unread
<1>11. avail[1] = Line(LineKind(requests[i]), i)
  BY <1>6, <1>8, <1>9, <1>10
<1>12. LineLength = 1
  <2>1. PICK r \in Request : r = requests[i]
    BY DEF ConnType
  <2>2. PICK kind : kind = LineKind(r) /\ kind # "data"
    <3>1. r.line \in {"ok", "bad", "long"}
      BY <2>1 DEF Request
    <3>2. LineKind(r) # "data"
      BY <3>1 DEF LineKind
    <3> QED
      BY <3>2
  <2>3. Line(kind, i).kind # "data"
    BY <2>2 DEF Line, Token
  <2>4. IsLine(avail[1])
    BY <1>11, <2>1, <2>2, <2>3 DEF IsLine
  <2> QED
    BY <2>4, LineRead
<1> QED
  BY <1>5, <1>6, <1>11, <1>12

(* A request whose tokens have not all arrived has not been sent.          *)
LEMMA Unfinished ==
    ASSUME ConnType, Unread, NEW i \in DOMAIN requests,
           Start(i) <= At + Len(avail), At + Len(avail) < Start(i + 1)
    PROVE  ~FullySent(i)
<1>1. PICK s \in Nat, a \in Nat, u \in Nat :
         s = Len(Stream(requests)) /\ a = Len(avail) /\ u = Len(unsent) /\ DOMAIN unsent = 1..u
  BY PlaceJoins DEF ConnType
<1>2. At = s - a - u
  BY <1>1 DEF At
<1>3. PICK T, B : T = RequestTokens(requests[i], i) /\ B = BodyTokens(requests[i], i)
  OBVIOUS
<1>4. PICK b \in Nat, h \in Nat : b = Len(B) /\ h = Start(i)
  BY <1>3, StartNext
<1>5. Start(i + 1) = h + 3 + b /\ Start(i + 1) <= s
  BY <1>1, <1>3, <1>4, StartNext
<1>6. PICK c \in Int : c = At + a
  BY <1>1, <1>2
<1>7. h <= c /\ c < h + 3 + b /\ u = s - c /\ h + 3 + b <= s
  BY <1>1, <1>2, <1>4, <1>5, <1>6
<1>8. 1 \in 1..u /\ c + 1 - h \in 1..3 + b /\ h + (c + 1 - h) = c + 1
  BY <1>7
<1>9. PICK j \in 1..3 + b : h + j = c + 1
  BY <1>8
<1>10. unsent[1] = Stream(requests)[c + 1]
  BY <1>1, <1>6, <1>8 DEF Unread
<1>11. /\ B \in Seq(BodySet({i})) /\ Len(T) = 3 + b
       /\ T[1] = Line(LineKind(requests[i]), i) /\ T[2] = Line("head", i) /\ T[3] = Line("blank", i)
       /\ \A k \in 1..b : T[3 + k] = B[k]
  <2>1. requests[i] \in Request
    BY DEF ConnType
  <2> QED
    BY <1>3, <1>4, <2>1, RequestTokenAt, Zenon DEF LineKind
<1>12. Stream(requests)[h + j] = T[j]
  BY <1>3, <1>4, <1>9, <1>11, StreamAt
<1>13. \A kind : Line(kind, i).id = i
  BY DEF Line, Token
<1>14. T[j].id = i
  <2>1. CASE j \in 1..3
    BY <1>11, <1>13, <2>1
  <2>2. CASE j \notin 1..3
    <3>1. PICK k \in 1..b : j = 3 + k
      <4>1. j - 3 \in 1..b /\ j = 3 + (j - 3)
        BY <2>2
      <4> QED
        BY <4>1
    <3>2. B[k] \in BodySet({i})
      BY <1>4, <1>11, <3>1
    <3> QED
      BY <1>11, <3>1, <3>2 DEF BodySet
  <2> QED
    BY <2>1, <2>2
<1>15. unsent[1].id = i
  BY <1>9, <1>10, <1>12, <1>14
<1>16. ~(i > i)
  <2>1. i \in Nat
    BY PlaceJoins
  <2> QED
    BY <2>1
<1> QED
  BY <1>1, <1>8, <1>15, <1>16 DEF FullySent

(* Headers that do not end have not all arrived.                           *)
LEMMA HeadShort ==
    ASSUME ConnType, Unread, id \in DOMAIN requests, At = Start(id) + 1, Blanks = {}
    PROVE  ~FullySent(id)
<1>1. PICK T : T = RequestTokens(requests[id], id)
  OBVIOUS
<1>2. requests[id] \in Request
  BY DEF ConnType
<1>3. PICK b \in Nat, h \in Nat : b = Len(BodyTokens(requests[id], id)) /\ h = Start(id)
  BY StartNext
<1>4. T[2] = Line("head", id) /\ T[3] = Line("blank", id) /\ Len(T) = 3 + b
  BY <1>1, <1>2, <1>3, RequestTokenAt, Zenon
<1>5. 2 \in 1..Len(T) /\ 3 \in 1..Len(T)
  BY <1>4
<1>6. Stream(requests)[h + 2] = T[2] /\ Stream(requests)[h + 3] = T[3]
  BY <1>1, <1>3, <1>5, StreamAt
<1>7. PICK a \in Nat : a = Len(avail) /\ DOMAIN avail = 1..a
  BY AvailType
<1>8. \A k \in 1..a : avail[k] = Stream(requests)[At + k]
  BY <1>7 DEF Unread
<1>9. At + 1 = h + 2 /\ At + 2 = h + 3 /\ At + a = h + 1 + a
  BY <1>3, <1>7
<1>10. a < 2
  <2> SUFFICES ASSUME ~(a < 2) PROVE FALSE
    OBVIOUS
  <2>1. 1 \in 1..a /\ 2 \in 1..a
    OBVIOUS
  <2>2. avail[1] = Line("head", id) /\ avail[2] = Line("blank", id)
    BY <1>4, <1>6, <1>8, <1>9, <2>1
  <2>3. IsLine(Line("head", id)) /\ Line("blank", id).kind = "blank"
    BY DEF IsLine, Line, Token
  <2>4. IsLine(avail[2 - 1])
    BY <2>2, <2>3
  <2>5. 2 \in Blanks
    BY <1>7, <2>1, <2>2, <2>3, <2>4 DEF Blanks
  <2> QED
    BY <2>5
<1>11. Start(id + 1) = h + 3 + b
  BY <1>3, StartNext
<1>12. Start(id) <= At + Len(avail) /\ At + Len(avail) < Start(id + 1)
  BY <1>3, <1>7, <1>9, <1>10, <1>11
<1> QED
  BY <1>12, Unfinished

(* The requests stay where they are in the stream.                         *)
LEMMA StartKept ==
    ASSUME requests' = requests
    PROVE  \A i : Start(i)' = Start(i)
  BY DEF Start, Place, Enc

(* How many responses end a request by the time of the last one.           *)
LEMMA NumberGrows ==
    ASSUME OutType, NEW o, out' = Append(out, o), o.status # 100, NEW l, l = Len(out) + 1
    PROVE  /\ Answered \in Nat
           /\ Answered' = Answered + 1
           /\ Len(out) \in Nat
           /\ Final' = Final \cup {l}
           /\ \A k \in Final : k \in 1..Len(out) /\ out'[k] = out[k] /\ Number(k)' = Number(k)
           /\ out'[l] = o
           /\ Number(l)' = Answered + 1
<1>1. /\ Len(out) \in Nat
      /\ DOMAIN out = 1..Len(out)
      /\ \A k \in 1..Len(out) : out'[k] = out[k]
      /\ out'[Len(out) + 1] = o
      /\ Final' = Final \cup {Len(out) + 1}
      /\ Cardinality(Final') = Cardinality(Final) + 1
      /\ Cardinality(Final) \in Nat
  BY FinalFinite, OutGrows, FinalGrows
<1>2. PICK n \in Nat : n = Len(out)
  BY <1>1
<1>3. Final \subseteq 1..n
  BY <1>1, <1>2 DEF Final
<1>4. ASSUME NEW k \in Final PROVE Number(k)' = Number(k)
  <2>1. k \in 1..n /\ ~(n + 1 <= k)
    BY <1>3
  <2>2. {i \in Final' : i <= k} = {i \in Final : i <= k}
    BY <1>1, <1>2, <2>1
  <2> QED
    BY <2>2 DEF Number
<1>5. Number(l)' = Cardinality(Final')
  <2>1. l = n + 1 /\ \A i \in Final' : i <= l
    BY <1>1, <1>2, <1>3
  <2>2. {i \in Final' : i <= l} = Final'
    BY <2>1
  <2> QED
    BY <2>2 DEF Number
<1> QED
  BY <1>1, <1>2, <1>3, <1>4, <1>5 DEF Answered

(* Where the worker is after a response.                                   *)
Ends(st) ==
    \A f \in Nat : ~late' /\ ~high /\ f = Answered /\ Ahead(f) =>
        /\ id' = f + 1
        /\ id' \in DOMAIN requests /\ Delimited(requests[id']) =>
              At' = Start(f + 2) \/ (fin /\ avail' = <<>>)
        /\ id' \in DOMAIN requests /\ Asked(requests[id']) =>
              (st = 404 /\ form'.parts = requests[id'].parts) \/ (fin /\ ~FullySent(id'))

(* A step that ends a request.                                             *)
LEMMA PairReply ==
    ASSUME ConnInv, BodyInv, PairInv, Server,
           NEW st, NEW slices, NEW headers, NEW closed, Reply(st, slices, headers, closed),
           st # 100, Ends(st)
    PROVE  PairInv'
<1>1. pc' \in {"closed", "keepalive"}
  BY ReplyPc
<1>2. RestState' /\ FormState'
  BY <1>1 DEF RestState, FormState, BodyStates
<1>3. /\ requests' = requests /\ unsent' = unsent /\ fin' = fin /\ high' = high
      /\ late => late'
  BY ServerShape DEF Shape, clientVars, ConnInv
<1> SUFFICES ASSUME ~late', ~high PROVE Pairs' /\ Track'
  BY <1>2, <1>3 DEF PairInv
<1>4. Pairs /\ Track
  BY <1>3 DEF PairInv
<1>5. PICK o : out' = Append(out, o) /\ o.id = id' /\ o.status = st /\ o.parts = form'.parts
  BY DEF Reply
<1>6. PICK l : l = Len(out) + 1
  OBVIOUS
<1>7. OutType
  BY DEF ConnInv, CloseInv
<1>8. /\ Answered \in Nat
      /\ Answered' = Answered + 1
      /\ Final' = Final \cup {l}
      /\ \A k \in Final : out'[k] = out[k] /\ Number(k)' = Number(k)
      /\ out'[l] = o
      /\ Number(l)' = Answered + 1
  BY <1>5, <1>6, <1>7, NumberGrows
<1>9. \A f : Ahead(f)' = Ahead(f)
  BY <1>3 DEF Ahead
<1>10. ASSUME NEW x PROVE Told(x)' = Told(x)
  BY <1>3 DEF Told, Asked, FullySent
<1>11. PICK c \in Nat : c = Answered
  BY <1>8
<1>12. ASSUME Ahead(c)
       PROVE  /\ id' = c + 1 /\ c + 1 \in DOMAIN requests
              /\ c + 1 \in DOMAIN requests /\ Delimited(requests[c + 1]) =>
                    At' = Start(c + 2) \/ (fin /\ avail' = <<>>)
              /\ c + 1 \in DOMAIN requests /\ Asked(requests[c + 1]) =>
                    \/ st = 404 /\ form'.parts = requests[c + 1].parts
                    \/ fin /\ ~FullySent(c + 1)
  <2>1. id' = c + 1
    BY <1>11, <1>12 DEF Ends
  <2>2. /\ id' \in DOMAIN requests /\ Delimited(requests[id']) =>
              At' = Start(c + 2) \/ (fin /\ avail' = <<>>)
        /\ id' \in DOMAIN requests /\ Asked(requests[id']) =>
              (st = 404 /\ form'.parts = requests[id'].parts) \/ (fin /\ ~FullySent(id'))
    BY <1>11, <1>12 DEF Ends
  <2>3. id' \in {0} \cup DOMAIN requests
    BY ServerId DEF ConnInv
  <2>4. c + 1 # 0
    OBVIOUS
  <2>5. c + 1 \in DOMAIN requests
    BY <2>1, <2>3, <2>4
  <2> QED
    BY <2>1, <2>2, <2>5, Zenon
<1>13. ASSUME NEW k \in Final', NEW f \in Nat, f + 1 = Number(k)', Ahead(f)
       PROVE  out'[k].id = f + 1 /\ Told(out'[k])
  <2>1. CASE k \in Final
    BY <1>4, <1>8, <1>13, <2>1 DEF Pairs
  <2>2. CASE k = l
    <3>1. f = c
      BY <1>8, <1>11, <1>13, <2>2
    <3>2. out'[k] = o /\ o.id = c + 1
      BY <1>5, <1>8, <1>12, <1>13, <2>2, <3>1
    <3>3. c + 1 \in DOMAIN requests
      BY <1>12, <1>13, <3>1
    <3>4. Asked(requests[c + 1]) => \/ st = 404 /\ form'.parts = requests[c + 1].parts
                                    \/ fin /\ ~FullySent(c + 1)
      BY <1>12, <1>13, <3>1
    <3>5. Told(o)
      BY <1>5, <3>2, <3>4 DEF Told
    <3> QED
      BY <3>1, <3>2, <3>5
  <2> QED
    BY <1>8, <1>13, <2>1, <2>2
<1>14. Pairs'
  BY <1>9, <1>10, <1>13 DEF Pairs
<1>15. ASSUME NEW f \in Nat, f = Answered', Ahead(f), pc' \in {"keepalive", "line"}
       PROVE  At' = Start(f + 1) \/ (fin' /\ avail' = <<>>)
  <2>1. f = c + 1 /\ f + 1 = c + 2
    BY <1>8, <1>11, <1>15
  <2>2. Ahead(c) /\ c + 1 \in DOMAIN requests /\ Delimited(requests[c + 1])
    <3>1. c + 1 \in 1..c + 1 /\ \A j \in 1..c : j \in 1..c + 1
      OBVIOUS
    <3> QED
      BY <1>15, <2>1, <3>1 DEF Ahead
  <2>3. At' = Start(c + 2) \/ (fin /\ avail' = <<>>)
    BY <1>12, <2>2
  <2> QED
    BY <1>3, <2>1, <2>3
<1>16. Track'
  <2>1. \A i : Start(i)' = Start(i)
    BY <1>3, StartKept
  <2>2. ASSUME NEW f \in Nat, f = Answered', Ahead(f), pc' \in {"keepalive", "line"}
        PROVE  Over(f)'
    BY <1>15, <2>1, <2>2 DEF Over
  <2>3. pc' \notin Reading \cup {"dummy"}
    BY <1>1 DEF Reading, BodyStates
  <2> QED
    BY <1>9, <2>2, <2>3 DEF Track
<1> QED
  BY <1>14, <1>16

(* A step that ends no request.                                            *)
LEMMA PairQuiet ==
    ASSUME ConnInv, PairInv, Server, RestState', FormState', ~late' /\ ~high => Track',
           out' = out \/ \E o : o.status = 100 /\ out' = Append(out, o)
    PROVE  PairInv'
<1>1. /\ requests' = requests /\ unsent' = unsent /\ fin' = fin /\ high' = high
      /\ late => late'
  BY ServerShape DEF Shape, clientVars, ConnInv
<1> SUFFICES ASSUME ~late', ~high PROVE Pairs'
  BY <1>1 DEF PairInv
<1>2. Pairs
  BY <1>1 DEF PairInv
<1>3. \A f : Ahead(f)' = Ahead(f)
  BY <1>1 DEF Ahead
<1>4. ASSUME NEW x PROVE Told(x)' = Told(x)
  BY <1>1 DEF Told, Asked, FullySent
<1>5. OutType
  BY DEF ConnInv, CloseInv
<1>6. Final' = Final /\ \A k \in Final : out'[k] = out[k]
  <2>1. CASE out' = out
    BY <2>1 DEF Final
  <2>2. ASSUME NEW o, o.status = 100, out' = Append(out, o)
        PROVE  Final' = Final /\ \A k \in Final : out'[k] = out[k]
    <3>1. Final' = Final
      BY <1>5, <2>2, FinalGrows
    <3>2. \A k \in 1..Len(out) : out'[k] = out[k]
      BY <1>5, <2>2, OutGrows
    <3>3. DOMAIN out = 1..Len(out)
      BY <1>5, FinalFinite
    <3>4. Final \subseteq DOMAIN out
      BY DEF Final
    <3> QED
      BY <3>1, <3>2, <3>3, <3>4
  <2> QED
    BY <2>1, <2>2
<1>7. \A k : Number(k)' = Number(k)
  BY <1>6 DEF Number
<1>8. ASSUME NEW k \in Final', NEW f \in Nat, f + 1 = Number(k)', Ahead(f)
      PROVE  out'[k].id = f + 1 /\ Told(out'[k])
  BY <1>2, <1>6, <1>7, <1>8 DEF Pairs
<1> QED
  BY <1>3, <1>4, <1>8 DEF Pairs

(* Nothing is answered by a step without a response.                       *)
LEMMA AnsweredStays ==
    ASSUME OutType, out' = out \/ \E o : o.status = 100 /\ out' = Append(out, o)
    PROVE  Answered' = Answered
<1>1. CASE out' = out
  BY <1>1 DEF Answered, Final
<1>2. ASSUME NEW o, o.status = 100, out' = Append(out, o) PROVE Answered' = Answered
  <2>1. Final' = Final
    BY <1>2, FinalGrows
  <2> QED
    BY <2>1 DEF Answered
<1> QED
  BY <1>1, <1>2

(* There are no more requests than that.                                   *)
LEMMA AheadLen ==
    ASSUME ConnType, NEW f \in Nat, Ahead(f)
    PROVE  f <= Len(requests)
<1>1. PICK l \in Nat : l = Len(requests) /\ DOMAIN requests = 1..l
  BY PlaceJoins
<1>2. \A j \in 1..f : j \in 1..l
  BY <1>1 DEF Ahead
<1>3. CASE f = 0
  BY <1>1, <1>3
<1>4. CASE f # 0
  <2>1. f \in 1..f
    BY <1>4
  <2>2. f \in 1..l
    BY <1>2, <2>1
  <2> QED
    BY <1>1, <2>2
<1> QED
  BY <1>3, <1>4

(* The first token of a line.                                              *)
LEMMA LineFirst ==
    ASSUME ConnType, HasLine, LineLength = 1
    PROVE  /\ TheLine[1] = avail[1]
           /\ AfterLine = Erase(avail, 1)
           /\ 1 \in 1..Len(avail) /\ 1 \in 0..Len(avail) /\ avail # <<>>
<1>1. Len(avail) \in Nat /\ 1 \in 1..Len(avail) /\ avail # <<>>
  BY LineLengthType, AvailType
<1>2. \A i \in 1..1 : avail[i] \in TokenSet(DOMAIN requests)
  BY <1>1, AvailType
<1>3. \A i \in 1..1 - 1 + 1 : SubSeq(avail, 1, 1)[i] = avail[1 + i - 1]
  BY <1>2, SubSeqProperties
<1>4. SubSeq(avail, 1, 1)[1] = avail[1]
  BY <1>3
<1>5. 1 \in 0..Len(avail)
  BY <1>1
<1> QED
  BY <1>1, <1>4, <1>5 DEF TheLine, AfterLine

(* Between requests the next line is a request line.                       *)
LEMMA PairFirst ==
    ASSUME ConnInv, BodyInv, PairInv, Server, ReadLine, ~late, ~high,
           NEW f \in Nat, f = Answered, Ahead(f)
    PROVE  /\ id' = f + 1 /\ f + 1 \in DOMAIN requests
           /\ At = Start(f + 1) /\ LineLength = 1
           /\ avail[1].kind = LineKind(requests[f + 1])
<1>1. ConnType /\ Unread /\ Track
  BY DEF ConnInv, BodyInv, PairInv
<1>2. pc = "line" /\ HasLine
  BY DEF ReadLine
<1>3. avail # <<>>
  BY <1>1, <1>2, LineLengthType
<1>4. At = Start(f + 1)
  BY <1>1, <1>2, <1>3 DEF Track, Over
<1>5. f <= Len(requests)
  BY <1>1, AheadLen
<1>6. /\ f + 1 \in DOMAIN requests
      /\ LineLength = 1
      /\ avail[1] = Line(LineKind(requests[f + 1]), f + 1)
  BY <1>1, <1>2, <1>4, <1>5, FirstRead
<1>7. avail[1].id = f + 1 /\ avail[1].kind = LineKind(requests[f + 1])
  <2>1. \A kind, i : Line(kind, i).id = i /\ Line(kind, i).kind = kind
    BY DEF Line, Token
  <2> QED
    BY <1>6, <2>1
<1>8. id' = avail[1].id
  BY <1>1, <1>2, <1>6, LineFirst DEF ReadLine
<1> QED
  BY <1>4, <1>6, <1>7, <1>8

(* The request line.                                                       *)
LEMMA PairLine ==
    ASSUME ConnInv, BodyInv, PairInv, Server, ReadLine
    PROVE  PairInv'
<1>0. ConnType /\ OutType /\ Unread
  BY DEF ConnInv, CloseInv, BodyInv
<1>1. requests' = requests /\ unsent' = unsent /\ late' = late
  BY <1>0, UnreadKept DEF ReadLine
<1>2. CASE Reply(400, <<>>, FALSE, FALSE) /\ ~IsThe("long") /\ ~IsThe("request")
  <2>1. ASSUME NEW f \in Nat, ~late', ~high, f = Answered, Ahead(f)
        PROVE  id' = f + 1 /\ ~Delimited(requests[id'])
    <3>1. /\ id' = f + 1 /\ f + 1 \in DOMAIN requests /\ LineLength = 1
          /\ avail[1].kind = LineKind(requests[f + 1])
      BY <1>1, <2>1, PairFirst
    <3>2. PICK r \in Request : r = requests[id']
      BY <1>0, <3>1 DEF ConnType
    <3>3. LineKind(r) # "long" /\ LineKind(r) # "request"
      BY <1>2, <3>1, <3>2 DEF IsThe
    <3>4. r.line = "bad"
      <4>1. r.line \in {"ok", "bad", "long"}
        BY <3>2 DEF Request
      <4> QED
        BY <3>3, <4>1 DEF LineKind
    <3> QED
      BY <3>1, <3>2, <3>4 DEF Delimited
  <2>2. PICK st : st = 400
    OBVIOUS
  <2>3. Ends(st)
    BY <2>1 DEF Ends, Asked
  <2>4. Reply(st, <<>>, FALSE, FALSE) /\ st # 100
    <3>1. st # 100
      BY <2>2
    <3> QED
      BY <1>2, <2>2, <3>1, Zenon
  <2> QED
    BY <2>3, <2>4, PairReply
<1>3. CASE (high \/ IsThe("long")) /\ pc' = "dummy" /\ out' = out
  <2>1. RestState' /\ FormState'
    BY <1>3 DEF RestState, FormState, BodyStates
  <2>2. ASSUME NEW f \in Nat, ~late', ~high, f = Answered, Ahead(f)
        PROVE  /\ id' = f + 1 /\ id' \in DOMAIN requests
               /\ requests[id'].line = "long" /\ At' = Start(id') + 1
    <3>1. /\ id' = f + 1 /\ f + 1 \in DOMAIN requests /\ LineLength = 1
          /\ At = Start(f + 1) /\ avail[1].kind = LineKind(requests[f + 1])
      BY <1>1, <2>2, PairFirst
    <3>2. LineKind(requests[f + 1]) = "long"
      BY <1>3, <2>2, <3>1 DEF IsThe
    <3>3. requests[f + 1].line = "long"
      BY <3>2 DEF LineKind
    <3>4. avail' = Erase(avail, 1) /\ 1 \in 0..Len(avail)
      BY <1>0, <3>1, LineFirst DEF ReadLine
    <3>5. At' = At + 1
      BY <1>0, <1>1, <3>4, ServerReads
    <3> QED
      BY <3>1, <3>3, <3>5
  <2>3. Track' \/ late' \/ high
    <3>1. \A i : Start(i)' = Start(i)
      BY <1>1, StartKept
    <3>2. \A f : Ahead(f)' = Ahead(f)
      BY <1>1 DEF Ahead
    <3>3. Answered' = Answered
      BY <1>0, <1>3, AnsweredStays
    <3>4. Start(id)' = Start(id')
      BY <1>1 DEF Start, Place, Enc
    <3>5. SUFFICES ASSUME ~late', ~high PROVE Track'
      OBVIOUS
    <3>6. ASSUME NEW f \in Nat, f = Answered', Ahead(f)'
          PROVE  /\ pc' \notin {"keepalive", "line"}
                 /\ id' = f + 1 /\ id' \in DOMAIN requests'
                 /\ requests'[id'].line = "long" /\ At' = Start(id)' + 1
      BY <1>1, <1>3, <2>2, <3>2, <3>3, <3>4, <3>5, <3>6
    <3> QED
      BY <3>6 DEF Track
  <2> QED
    BY <1>3, <2>1, <2>3, PairQuiet
<1>4. CASE IsThe("request") /\ ~high /\ pc' = "head" /\ out' = out
  <2>1. RestState' /\ FormState'
    BY <1>4 DEF RestState, FormState, BodyStates, ReadLine, NothingRead
  <2>2. ASSUME NEW f \in Nat, ~late', ~high, f = Answered, Ahead(f)
        PROVE  id' = f + 1 /\ id' \in DOMAIN requests
    BY <1>1, <2>2, PairFirst
  <2>3. Track' \/ late' \/ high
    <3>2. \A f : Ahead(f)' = Ahead(f)
      BY <1>1 DEF Ahead
    <3>3. Answered' = Answered
      BY <1>0, <1>4, AnsweredStays
    <3>5. SUFFICES ASSUME ~late', ~high PROVE Track'
      OBVIOUS
    <3>6. ASSUME NEW f \in Nat, f = Answered', Ahead(f)'
          PROVE  id' = f + 1 /\ id' \in DOMAIN requests'
      BY <1>1, <2>2, <3>2, <3>3, <3>5, <3>6
    <3> QED
      BY <1>4, <3>6 DEF Track
  <2> QED
    BY <1>4, <2>1, <2>3, PairQuiet
<1> QED
  BY <1>2, <1>3, <1>4 DEF ReadLine

(* The bytes of a form.                                                    *)
LEMMA FormIs ==
    ASSUME NEW r \in Request, r.parts # <<>>
    PROVE  /\ r.parts \in Seq(FormPart) /\ Len(r.parts) \in Nat /\ Len(r.parts) >= 1
           /\ DOMAIN r.parts = 1..Len(r.parts)
           /\ BodyOf(r) = Encode(r.parts)
           /\ BodyOf(r) \in Seq(Chars)
           /\ BodyOf(r) # <<>>
<1>1. PICK parts : parts = r.parts /\ parts \in Seq(FormPart)
  BY RequestType DEF FormPart
<1>2. PICK l \in Nat : l = Len(parts) /\ DOMAIN parts = 1..l
  BY <1>1
<1>3. l >= 1
  BY <1>1, <1>2
<1>4. PICK w : w = Encode(parts)
  OBVIOUS
<1>5. PICK o, n, d : Layout(o, parts, w, n, d)
  BY <1>1, <1>4, LayoutExists
<1>6. n \in Nat /\ d \in Nat /\ w \in Seq(Chars) /\ Len(w) = o[n + 1] + d + 4
  BY <1>5 DEF Layout
<1>7. o[n + 1] \in Nat
  <2>1. n + 1 \in 1..n + 1
    BY <1>6
  <2> QED
    BY <1>5, <2>1 DEF Layout
<1>8. w # <<>>
  <2>1. PICK a \in Nat, b \in Nat : a = o[n + 1] /\ b = d
    BY <1>6, <1>7
  <2>2. Len(w) = a + b + 4 /\ a + b + 4 # 0
    BY <1>6, <2>1
  <2>3. Len(w) # 0
    BY <2>2
  <2> QED
    BY <2>3
<1>9. BodyOf(r) = w
  BY <1>1, <1>4 DEF BodyOf
<1> QED
  BY <1>1, <1>2, <1>3, <1>4, <1>6, <1>8, <1>9

(* An empty body has no tokens.                                            *)
LEMMA NoBody ==
    ASSUME NEW r \in Request, NEW i, r.framing \notin Chunked, BodyOf(r) = <<>>
    PROVE  Len(BodyTokens(r, i)) = 0
<1>1. BodyTokens(r, i) = Bytes(BodyOf(r), i)
  BY DEF BodyTokens
<1>2. PICK s : s = BodyOf(r) /\ s \in Seq(Chars) /\ Len(s) = 0
  BY BodyOfType
<1>3. PICK I : i \in I
  <2>1. i \in {i}
    OBVIOUS
  <2> QED
    BY <2>1
<1>4. Len(Bytes(s, i)) = Len(s)
  BY <1>2, <1>3, BytesType
<1> QED
  BY <1>1, <1>2, <1>4

(* The requests whose bytes the server delimits.                           *)
LEMMA DelimitedIs ==
    ASSUME NEW r \in Request, NEW i, Delimited(r)
    PROVE  \/ /\ r.framing \notin Chunked /\ BodyOf(r) = <<>> /\ r.parts = <<>>
              /\ Len(BodyTokens(r, i)) = 0
              /\ r.line = "ok" /\ r.method = "POST" => r.framing = "length"
           \/ r.line = "ok" /\ BodyIsRead(r) /\ Sent(r)
           \/ r.line = "ok" /\ BodyIsRead(r) /\ r.parts # <<>> /\ WellFormed(r)
<1>1. CASE /\ r.framing \notin Chunked /\ BodyOf(r) = <<>>
           /\ r.line = "ok" /\ r.method = "POST" => r.framing = "length"
  BY <1>1, FormIs, NoBody
<1>2. CASE r.line = "ok" /\ BodyIsRead(r) /\ (r.parts # <<>> => WellFormed(r))
  <2>1. r.framing \in {"length", "chunked"}
    BY <1>2 DEF BodyIsRead
  <2> QED
    BY <1>2, <2>1 DEF Sent
<1> QED
  BY <1>1, <1>2 DEF Delimited

(* A form that was asked for is well formed and its body is read, with a   *)
(* length.                                                                 *)
LEMMA AskedIs ==
    ASSUME NEW r \in Request, Asked(r)
    PROVE  /\ r.line = "ok" /\ BodyIsRead(r) /\ r.parts # <<>> /\ WellFormed(r)
           /\ r.framing = "length" /\ r.framing \notin Chunked /\ BodyOf(r) # <<>>
<1>1. r.parts # <<>> /\ Delimited(r)
  BY DEF Asked
<1>2. BodyOf(r) # <<>>
  BY <1>1, FormIs
<1> QED
  BY <1>1, <1>2 DEF Delimited, WellFormed, Chunked

(* A response to the request that is being read.                           *)
LEMMA PairEnd ==
    ASSUME ConnInv, BodyInv, PairInv, Server, pc \in Reading \cup {"dummy"}, id' = id,
           NEW st, NEW slices, NEW headers, NEW closed, Reply(st, slices, headers, closed), st # 100,
           NEW r, r = requests[id], ~late, ~high,
           Delimited(r) => At' = Start(id + 1) \/ (fin /\ avail' = <<>>),
           Asked(r) => (st = 404 /\ form'.parts = r.parts) \/ (fin /\ ~FullySent(id))
    PROVE  PairInv'
<1>1. ASSUME NEW f \in Nat, f = Answered, Ahead(f)
      PROVE  /\ id' = f + 1
             /\ id' \in DOMAIN requests /\ Delimited(requests[id']) =>
                   At' = Start(f + 2) \/ (fin /\ avail' = <<>>)
             /\ id' \in DOMAIN requests /\ Asked(requests[id']) =>
                   (st = 404 /\ form'.parts = requests[id'].parts) \/ (fin /\ ~FullySent(id'))
  <2>1. id = f + 1
    BY <1>1 DEF PairInv, Track
  <2>2. id + 1 = f + 2
    BY <2>1
  <2>3. Start(id + 1) = Start(f + 2)
    BY <2>2, Zenon
  <2> QED
    BY <2>1, <2>3
<1>2. Ends(st)
  BY <1>1 DEF Ends
<1> QED
  BY <1>2, PairReply

(* A response after a read that has failed: the rest of the request has    *)
(* not been sent, and the stream has ended.                                *)
LEMMA PairCut ==
    ASSUME ConnInv, BodyInv, PairInv, Server, pc \in Reading \cup {"dummy"}, id' = id,
           NEW st, NEW slices, NEW headers, NEW closed, Reply(st, slices, headers, closed), st # 100,
           avail' = <<>>, late' = (late \/ ~fin),
           ~late /\ ~high /\ Asked(requests[id]) => ~FullySent(id)
    PROVE  PairInv'
<1>1. PICK r : r = requests[id]
  OBVIOUS
<1>2. CASE late' \/ high
  <2>1. Ends(st)
    BY <1>2 DEF Ends
  <2> QED
    BY <2>1, PairReply
<1>3. CASE ~late' /\ ~high
  BY <1>1, <1>3, PairEnd
<1> QED
  BY <1>2, <1>3

(* A step within a request.                                                *)
LEMMA TrackKept ==
    ASSUME ConnInv, PairInv, Server, pc \in Reading, pc' \in Reading, id' = id,
           out' = out \/ \E o : o.status = 100 /\ out' = Append(out, o), ~late', ~high
    PROVE  Track'
<1>1. requests' = requests /\ (late => late') /\ OutType
  BY ServerShape DEF Shape, clientVars, ConnInv, CloseInv
<1>2. Track
  BY <1>1 DEF PairInv
<1>3. \A f : Ahead(f)' = Ahead(f)
  BY <1>1 DEF Ahead
<1>4. Answered' = Answered
  BY <1>1, AnsweredStays
<1>5. pc' \notin {"keepalive", "line", "dummy"}
  BY DEF Reading, BodyStates
<1>6. ASSUME NEW f \in Nat, f = Answered', Ahead(f)'
      PROVE  id' = f + 1 /\ id' \in DOMAIN requests'
  BY <1>1, <1>2, <1>3, <1>4, <1>6 DEF Track
<1> QED
  BY <1>5, <1>6 DEF Track

(* Waiting for a request, and finding none.                                *)
LEMMA PairWaits ==
    ASSUME ConnInv, PairInv, Server, keep_alive \/ ReadLineFails
    PROVE  PairInv'
<1>1. out' = out /\ pc' \in {"line", "closed"} /\ (pc' = "line" => keep_alive /\ pc = "keepalive")
  BY DEF keep_alive, ReadLineFails
<1>2. RestState' /\ FormState'
  BY <1>1 DEF RestState, FormState, BodyStates
<1>3. ASSUME ~late', ~high PROVE Track'
  <2>1. requests' = requests /\ (late => late')
    BY ServerShape DEF Shape, clientVars, ConnInv
  <2>2. Track
    BY <1>3, <2>1 DEF PairInv
  <2>3. \A f : Ahead(f)' = Ahead(f)
    BY <2>1 DEF Ahead
  <2>4. Answered' = Answered
    BY <1>1 DEF Answered, Final
  <2>5. ASSUME pc' = "line", NEW f \in Nat PROVE Over(f)' = Over(f)
    <3>1. UNCHANGED <<requests, unsent, fin, avail>>
      BY <1>1, <2>5 DEF keep_alive, clientVars
    <3> QED
      BY <3>1 DEF Over, At, Start, Place, Enc
  <2>6. ASSUME NEW f \in Nat, f = Answered', Ahead(f)', pc' = "line" PROVE Over(f)'
    BY <1>1, <2>2, <2>3, <2>4, <2>5, <2>6 DEF Track
  <2>7. pc' \notin Reading \cup {"dummy", "keepalive"}
    BY <1>1 DEF Reading, BodyStates
  <2> QED
    BY <2>6, <2>7 DEF Track
<1> QED
  BY <1>1, <1>2, <1>3, PairQuiet

(* The headers behind a request line that is too long.                     *)
LEMMA PairSkips ==
    ASSUME ConnInv, BodyInv, PairInv, Server, SkipHeaders
    PROVE  PairInv'
<1>1. PICK st : st = IF high THEN 500 ELSE 414
  OBVIOUS
<1>2. Reply(st, <<>>, FALSE, FALSE) /\ st # 100
  <2>1. st # 100
    BY <1>1
  <2>2. Reply(st, <<>>, FALSE, FALSE)
    BY <1>1, Zenon DEF SkipHeaders
  <2> QED
    BY <2>1, <2>2
<1>3. pc = "dummy" /\ id' = id
  BY DEF SkipHeaders
<1>4. ConnType /\ Unread
  BY DEF ConnInv, BodyInv
<1>5. requests' = requests /\ unsent' = unsent
  BY <1>4, UnreadKept
<1>6. ASSUME ~late', ~high PROVE Ends(st)
  <2>1. Track /\ ~late
    <3>1. late => late'
      BY ServerShape DEF Shape, clientVars, ConnInv
    <3> QED
      BY <1>6, <3>1 DEF PairInv
  <2>2. ASSUME NEW f \in Nat, f = Answered, Ahead(f)
        PROVE  /\ id' = f + 1
               /\ Delimited(requests[id']) => At' = Start(f + 2) \/ (fin /\ avail' = <<>>)
               /\ ~Asked(requests[id'])
    <3>1. /\ id = f + 1 /\ id \in DOMAIN requests
          /\ requests[id].line = "long" /\ At = Start(id) + 1
      BY <1>3, <2>1, <2>2 DEF Track
    <3>2. PICK r \in Request : r = requests[id]
      BY <1>4, <3>1 DEF ConnType
    <3>3. ~Asked(r)
      BY <3>1, <3>2, AskedIs
    <3>4. ASSUME Delimited(r) PROVE At' = Start(f + 2) \/ (fin /\ avail' = <<>>)
      <4>1. Len(BodyTokens(r, id)) = 0
        BY <3>1, <3>2, <3>4, DelimitedIs
      <4>2. CASE Blanks # {}
        <5>1. HeadEnd = 2 /\ HeadEnd \in 1..Len(avail) /\ Len(avail) \in Nat
          BY <1>4, <3>1, <4>2, HeadRead, HeadEndType, AvailType
        <5>2. avail' = Erase(avail, 2) /\ 2 \in 0..Len(avail)
          BY <4>2, <5>1 DEF SkipHeaders
        <5>3. At' = At + 2
          BY <1>4, <1>5, <5>2, ServerReads
        <5>4. PICK h \in Nat : h = Start(id)
          BY <1>4, <3>1, StartNext
        <5>5. Start(id + 1) = h + 3 + 0
          BY <1>4, <3>1, <3>2, <4>1, <5>4, StartNext
        <5>6. id + 1 = f + 2
          BY <3>1
        <5>7. Start(id + 1) = Start(f + 2)
          BY <5>6, Zenon
        <5>8. At' = Start(id + 1)
          BY <3>1, <5>3, <5>4, <5>5
        <5> QED
          BY <5>7, <5>8
      <4>3. CASE Blanks = {}
        BY <1>6, <4>3 DEF SkipHeaders
      <4> QED
        BY <4>2, <4>3
    <3> QED
      BY <1>3, <3>1, <3>2, <3>3, <3>4
  <2> QED
    BY <2>2 DEF Ends
<1>7. Ends(st)
  BY <1>6 DEF Ends
<1> QED
  BY <1>2, <1>7, PairReply

(* Headers that do not end.                                                *)
LEMMA PairHeadFails ==
    ASSUME ConnInv, BodyInv, PairInv, Server, ReadHeadersFails
    PROVE  PairInv'
<1>1. PICK st : st = 400
  OBVIOUS
<1>2. PICK headers : Reply(st, <<>>, headers, FALSE)
  BY <1>1, Zenon DEF ReadHeadersFails
<1>3. st # 100
  BY <1>1
<1>4. pc = "head" /\ pc \in Reading /\ id' = id /\ avail' = <<>> /\ late' = (late \/ ~fin) /\ Blanks = {}
  BY DEF ReadHeadersFails, Reading
<1>5. ConnType /\ Unread /\ id \in DOMAIN requests /\ At = Start(id) + 1
  BY <1>4 DEF ConnInv, BodyInv, ConnType, BodyState
<1>6. ~FullySent(id)
  BY <1>4, <1>5, HeadShort
<1> QED
  BY <1>2, <1>3, <1>4, <1>6, PairCut

(* The end of the headers.                                                 *)
LEMMA PairHeaders ==
    ASSUME ConnInv, BodyInv, PairInv, Server, ReadHeaders
    PROVE  PairInv'
<1>1. /\ pc = "head" /\ pc \in Reading /\ id' = id /\ form' = form /\ late' = late
      /\ Blanks # {} /\ avail' = Erase(avail, HeadEnd)
  BY DEF ReadHeaders, Reading
<1>2. ConnType /\ Unread /\ id \in DOMAIN requests /\ At = Start(id) + 1
  BY <1>1 DEF ConnInv, BodyInv, ConnType, BodyState
<1>3. requests' = requests /\ unsent' = unsent
  BY <1>2, UnreadKept
<1>4. PICK r \in Request : r = requests[id]
  BY <1>2 DEF ConnType
<1>5. CASE ~parse_range_header(r.ranges) /\ Reply(416, <<>>, TRUE, ConnectionClosed(r))
  <2>1. PICK st : st = 416
    OBVIOUS
  <2>2. Reply(st, <<>>, TRUE, ConnectionClosed(r)) /\ st # 100
    <3>1. st # 100
      BY <2>1
    <3>2. Reply(st, <<>>, TRUE, ConnectionClosed(r))
      BY <1>5, <2>1, Zenon
    <3> QED
      BY <3>1, <3>2
  <2>3. CASE late \/ high
    <3>1. Ends(st)
      BY <1>1, <2>3 DEF Ends
    <3> QED
      BY <2>2, <3>1, PairReply
  <2>4. CASE ~late /\ ~high
    <3>1. ~BodyIsRead(r)
      BY <1>5 DEF BodyIsRead
    <3>2. ~Asked(r)
      BY <3>1, AskedIs
    <3>3. ASSUME Delimited(r) PROVE At' = Start(id + 1)
      <4>1. Len(BodyTokens(r, id)) = 0
        BY <3>1, <3>3, DelimitedIs
      <4>2. HeadEnd = 2 /\ HeadEnd \in 1..Len(avail) /\ Len(avail) \in Nat
        BY <1>1, <1>2, HeadRead, HeadEndType, AvailType
      <4>3. avail' = Erase(avail, 2) /\ 2 \in 0..Len(avail)
        BY <1>1, <4>2
      <4>4. At' = At + 2
        BY <1>2, <1>3, <4>3, ServerReads
      <4>5. PICK h \in Nat : h = Start(id)
        BY <1>2, StartNext
      <4>6. Start(id + 1) = h + 3 + 0
        BY <1>2, <1>4, <4>1, <4>5, StartNext
      <4> QED
        BY <1>2, <4>4, <4>5, <4>6
    <3> QED
      BY <1>1, <1>4, <2>2, <2>4, <3>2, <3>3, PairEnd
  <2> QED
    BY <2>3, <2>4
<1>6. CASE out' = Continue(r) /\ pc' = "route"
  <2>1. out' = out \/ \E o : o.status = 100 /\ out' = Append(out, o)
    <3> DEFINE o == [id |-> id, status |-> 100, slices |-> <<>>,
                     body |-> <<>>, parts |-> <<>>, close |-> FALSE]
    <3>1. o.status = 100
      OBVIOUS
    <3>2. out' = out \/ out' = Append(out, o)
      BY <1>6 DEF Continue
    <3> HIDE DEF o
    <3> QED
      BY <3>1, <3>2
  <2>2. RestState' /\ FormState'
    BY <1>1, <1>6 DEF PairInv, RestState, FormState, BodyStates
  <2>3. pc' \in Reading
    BY <1>6 DEF Reading
  <2>4. ~late' /\ ~high => Track'
    BY <1>1, <2>1, <2>3, TrackKept
  <2> QED
    BY <2>1, <2>2, <2>4, PairQuiet
<1> QED
  BY <1>4, <1>5, <1>6 DEF ReadHeaders

(* How a body that is read is read.                                        *)
LEMMA PlanIs ==
    ASSUME NEW r \in Request, BodyIsRead(r)
    PROVE  /\ r.framing = "length" => ContentPlan(r) = "data"
           /\ r.framing = "chunked" => ContentPlan(r) = "size"
           /\ r.framing \in {"length", "chunked"}
  BY DEF BodyIsRead, ContentPlan, Chunked

(* A body of which nothing says how long it is.                            *)
LEMMA PlanRest ==
    ASSUME NEW r \in Request, r.framing = "none", ContentPlan(r) \in {"size", "rest", "data"}
    PROVE  ContentPlan(r) = "rest"
  BY DEF ContentPlan, Chunked

(* A form whose body starts.                                               *)
LEMMA InFormStarts ==
    ASSUME NEW r \in Request, r.parts # <<>>, WellFormed(r)
    PROVE  InForm(NoParser, r, 0)
<1>1. PICK parts : parts = r.parts /\ parts \in Seq(FormPart) /\ DOMAIN parts = 1..Len(parts)
  BY FormIs
<1>2. Len(parts) \in Nat /\ Len(parts) >= 1
  BY <1>1, FormIs
<1>3. PICK w : w = Encode(parts)
  OBVIOUS
<1>4. PICK o, n, d : Layout(o, parts, w, n, d)
  BY <1>1, <1>3, LayoutExists
<1>5. n = Len(parts)
  BY <1>4 DEF Layout
<1>6. n >= 1
  BY <1>2, <1>5
<1>7. \A i \in 1..n : Find(parts[i].content, DashBoundary) = npos
  BY <1>1, <1>5 DEF WellFormed, DashBoundary
<1>8. FormAt(NoParser, o, parts, w, n, d, 0)
  BY <1>4, <1>6, <1>7, FormStarts, Zenon
<1> QED
  BY <1>1, <1>3, <1>8 DEF InForm

(* An answer before anything of the body is read.                          *)
LEMMA RouteReply ==
    ASSUME ConnInv, BodyInv, PairInv, Server, pc = "route", id' = id, avail' = avail, late' = late,
           NEW st, NEW slices, NEW headers, NEW closed, Reply(st, slices, headers, closed), st # 100,
           NEW r \in Request, r = requests[id],
           BodyIsRead(r) => r.framing = "length" /\ BodyOf(r) = <<>>
    PROVE  PairInv'
<1>1. CASE late \/ high
  <2>1. Ends(st)
    BY <1>1 DEF Ends
  <2> QED
    BY <2>1, PairReply
<1>2. CASE ~late /\ ~high
  <2>1. ConnType /\ Unread /\ id \in DOMAIN requests /\ InBody(0) /\ pc \in Reading
    BY DEF ConnInv, BodyInv, ConnType, BodyState, Reading
  <2>2. requests' = requests /\ unsent' = unsent
    BY <2>1, UnreadKept
  <2>3. ~Asked(r)
    BY AskedIs
  <2>4. ASSUME Delimited(r) PROVE At' = Start(id + 1)
    <3>1. Len(BodyTokens(r, id)) = 0
      <4>1. CASE BodyIsRead(r)
        <5>1. r.framing \notin Chunked
          BY <4>1 DEF Chunked
        <5> QED
          BY <4>1, <5>1, NoBody
      <4>2. CASE ~BodyIsRead(r)
        BY <2>4, <4>2, DelimitedIs
      <4> QED
        BY <4>1, <4>2
    <3>2. At' = At
      BY <2>2 DEF At
    <3>3. PICK h \in Nat : h = Start(id)
      BY <2>1, StartNext
    <3>4. Start(id + 1) = h + 3 + 0
      BY <2>1, <3>1, <3>3, StartNext
    <3>5. At = h + 3 + 0
      BY <2>1, <3>3 DEF InBody
    <3> QED
      BY <3>2, <3>4, <3>5
  <2> QED
    BY <1>2, <2>1, <2>3, <2>4, PairEnd
<1> QED
  BY <1>1, <1>2

(* Routing.                                                                *)
LEMMA PairRoute ==
    ASSUME ConnInv, BodyInv, PairInv, Server, Route
    PROVE  PairInv'
<1>1. /\ pc = "route" /\ pc \in Reading /\ id' = id /\ form' = form /\ late' = late /\ avail' = avail
      /\ form = NoParser
  BY DEF Route, Reading, PairInv, FormState
<1>2. ConnType /\ Unread /\ id \in DOMAIN requests /\ InBody(0)
  BY <1>1 DEF ConnInv, BodyInv, ConnType, BodyState
<1>3. requests' = requests /\ unsent' = unsent
  BY <1>2, UnreadKept
<1>4. PICK r \in Request : r = requests[id] /\ r = requests'[id']
  BY <1>1, <1>2, <1>3 DEF ConnType
<1>5. PICK plan : plan = ContentPlan(r)
  OBVIOUS
<1>6. BodyIsRead(r) => plan \in {"data", "size"} /\ (plan = "data" => r.framing = "length")
  BY <1>5, PlanIs
<1>7. CASE /\ plan \in {"size", "rest", "data"}
           /\ plan = "data" => BodyOf(r) # <<>>
           /\ pc' = plan
           /\ need' = IF plan = "data" THEN Len(BodyOf(r)) ELSE 0
           /\ out' = out
  <2>1. RestState'
    BY <1>4, <1>5, <1>7, PlanRest DEF RestState
  <2>2. ASSUME r.parts # <<>>, WellFormed(r)
        PROVE  /\ pc' = "data"
               /\ \E m \in 0..Len(BodyOf(r)) :
                    /\ m < Len(BodyOf(r)) /\ need' = Len(BodyOf(r)) - m
                    /\ InBody(m)' /\ InForm(form', r, m)
    <3>1. pc' = "data" /\ plan = "data"
      BY <1>5, <1>7, <2>2 DEF WellFormed, ContentPlan, Chunked
    <3>2. PICK s : s = BodyOf(r) /\ s \in Seq(Chars) /\ s # <<>>
      BY <2>2, FormIs
    <3>3. PICK l \in Nat : l = Len(s) /\ l # 0
      BY <3>2
    <3>4. 0 \in 0..l /\ 0 < l /\ need' = l - 0
      BY <1>7, <3>1, <3>2, <3>3
    <3>5. InBody(0)'
      BY <1>1, <1>2, <1>3 DEF InBody, At, Start, Place, Enc
    <3>6. InForm(form', r, 0)
      BY <1>1, <2>2, InFormStarts
    <3> QED
      BY <3>1, <3>2, <3>3, <3>4, <3>5, <3>6
  <2>3. FormState'
    <3>1. \A q, m : InForm(q, r, m)' = InForm(q', r, m)
      BY DEF InForm
    <3> QED
      BY <1>1, <1>4, <1>7, <2>2 DEF FormState
  <2>4. pc' \in Reading
    BY <1>7 DEF Reading, BodyStates
  <2>5. ~late' /\ ~high => Track'
    BY <1>1, <1>7, <2>4, TrackKept
  <2> QED
    BY <1>7, <2>1, <2>3, <2>5, PairQuiet
<1>8. ASSUME plan = "none" \/ (plan = "data" /\ BodyOf(r) = <<>>) \/ plan \in {"refused", "unsupported"},
             NEW st, NEW slices, NEW headers, NEW closed, Reply(st, slices, headers, closed), st # 100
      PROVE  PairInv'
  <2>1. BodyIsRead(r) => r.framing = "length" /\ BodyOf(r) = <<>>
    BY <1>6, <1>8
  <2> QED
    BY <1>1, <1>4, <1>8, <2>1, RouteReply
<1>9. /\ ContentPlan(requests[id]) = plan
      /\ BodyOf(requests[id]) = BodyOf(r)
  BY <1>4, <1>5
<1>10. \/ /\ ContentPlan(requests[id]) \in {"size", "rest", "data"}
          /\ ContentPlan(requests[id]) = "data" => BodyOf(requests[id]) # <<>>
          /\ pc' = ContentPlan(requests[id])
          /\ need' = IF ContentPlan(requests[id]) = "data" THEN Len(BodyOf(requests[id])) ELSE 0
          /\ out' = out
       \/ /\ \/ ContentPlan(requests[id]) = "none"
             \/ ContentPlan(requests[id]) = "data" /\ BodyOf(requests[id]) = <<>>
             \/ ContentPlan(requests[id]) \in {"refused", "unsupported"}
          /\ \E st, slices, headers, closed : st # 100 /\ Reply(st, slices, headers, closed)
  <2> DEFINE q == requests[id]
  <2>1. ASSUME Reply(routing(q).status, routing(q).slices, TRUE, ConnectionClosed(q))
        PROVE  \E st, slices, headers, closed : st # 100 /\ Reply(st, slices, headers, closed)
    <3>1. routing(q).status # 100
      <4>1. routing(q).status \in {200, 206, 400, 404, 416}
        BY <1>4, RoutingExact
      <4> QED
        BY <4>1
    <3> QED
      BY <2>1, <3>1
  <2>2. ASSUME NEW st, st \in {400, 415}, Reply(st, <<>>, TRUE, ConnectionClosed(q))
        PROVE  \E x, slices, headers, closed : x # 100 /\ Reply(x, slices, headers, closed)
    <3>1. st # 100
      BY <2>2
    <3>2. \E slices, headers, closed : Reply(st, slices, headers, closed)
      BY <2>2, Zenon
    <3> QED
      BY <3>1, <3>2
  <2> QED
    BY <2>1, <2>2 DEF Route
<1>11. \/ /\ plan \in {"size", "rest", "data"}
          /\ plan = "data" => BodyOf(r) # <<>>
          /\ pc' = plan
          /\ need' = IF plan = "data" THEN Len(BodyOf(r)) ELSE 0
          /\ out' = out
       \/ /\ plan = "none" \/ (plan = "data" /\ BodyOf(r) = <<>>) \/ plan \in {"refused", "unsupported"}
          /\ \E st, slices, headers, closed : st # 100 /\ Reply(st, slices, headers, closed)
  BY <1>9, <1>10
<1> QED
  BY <1>7, <1>8, <1>11

(* The response to a request whose body has been read, or not.             *)
LEMMA ContentStatus ==
    ASSUME ConnType, pc \in BodyStates, NEW r \in Request, r = requests[id], NEW ok, ContentRead(ok)
    PROVE  \E st, slices, headers, closed :
              /\ Reply(st, slices, headers, closed)
              /\ st # 100
              /\ ok /\ form'.valid => st = 404
<1> DEFINE st == IF ok /\ (r.parts # <<>> => form'.valid) THEN routing(r).status ELSE 400
<1>1. Reply(st, <<>>, TRUE, ConnectionClosed(r))
  BY DEF ContentRead
<1>2. expect_content(r)
  BY DEF ConnType
<1>3. routing(r).status = 404
  BY <1>2, RoutingExact
<1>4. st # 100 /\ (ok /\ form'.valid => st = 404)
  BY <1>3
<1> HIDE DEF st
<1>5. \E slices, headers, closed : Reply(st, slices, headers, closed)
  BY <1>1, Zenon
<1> QED
  BY <1>4, <1>5

(* A body ends with the last token of its request, or with the stream.     *)
LEMMA PairContent ==
    ASSUME ConnInv, BodyInv, PairInv, Server, pc \in BodyStates, id' = id, late' = late,
           NEW ok, ContentRead(ok), NEW r \in Request, r = requests[id],
           ~late /\ ~high /\ Delimited(r) => At' = Start(id + 1) \/ (fin /\ avail' = <<>>),
           ~late /\ ~high /\ Asked(r) => ok /\ form'.valid /\ form'.parts = r.parts
    PROVE  PairInv'
<1>1. ConnType /\ pc \in Reading \cup {"dummy"}
  BY DEF ConnInv, Reading
<1>2. PICK st, slices, headers, closed :
         /\ Reply(st, slices, headers, closed)
         /\ st # 100
         /\ ok /\ form'.valid => st = 404
  BY <1>1, ContentStatus
<1>3. CASE late \/ high
  <2>1. Ends(st)
    BY <1>3 DEF Ends
  <2> QED
    BY <1>2, <2>1, PairReply
<1>4. CASE ~late /\ ~high
  BY <1>1, <1>2, <1>4, PairEnd
<1> QED
  BY <1>3, <1>4

(* A read of a body that gets nothing.                                     *)
LEMMA PairFails ==
    ASSUME ConnInv, BodyInv, PairInv, Server, ContentFails
    PROVE  PairInv'
<1>1. pc \in BodyStates /\ id' = id /\ avail' = <<>> /\ late' = (late \/ ~fin)
  BY DEF ContentFails, BodyStates
<1>2. ConnType /\ Unread /\ id \in DOMAIN requests
  BY <1>1 DEF ConnInv, BodyInv, ConnType, Reading
<1>3. PICK r \in Request : r = requests[id]
  BY <1>2 DEF ConnType
<1>4. PICK ok \in BOOLEAN : ok = FALSE
  OBVIOUS
<1>5. ContentRead(ok)
  BY <1>4, Zenon DEF ContentFails
<1>6. PICK st, slices, headers, closed : Reply(st, slices, headers, closed) /\ st # 100
  BY <1>1, <1>2, <1>3, <1>5, ContentStatus
<1>7. ASSUME Asked(r) PROVE ~FullySent(id)
  <2>1. r.parts # <<>> /\ WellFormed(r) /\ r.framing = "length"
    BY <1>7, AskedIs
  <2>2. pc = "data" /\ avail = <<>>
    BY <1>1, <1>3, <2>1 DEF PairInv, FormState, ContentFails
  <2>3. PICK l \in Nat : l = Len(BodyOf(r)) /\ l = Len(BodyTokens(r, id))
    BY <2>1, LengthBody
  <2>4. PICK m \in 0..l : m < l /\ InBody(m)
    BY <1>1, <1>3, <2>1, <2>3 DEF PairInv, FormState
  <2>5. PICK h \in Nat : h = Start(id)
    BY <1>2, StartNext
  <2>6. Start(id + 1) = h + 3 + l
    BY <1>2, <1>3, <2>3, <2>5, StartNext
  <2>7. At = h + 3 + m /\ Len(avail) = 0
    BY <2>2, <2>4, <2>5 DEF InBody
  <2>8. Start(id) <= At + Len(avail) /\ At + Len(avail) < Start(id + 1)
    BY <2>4, <2>5, <2>6, <2>7
  <2> QED
    BY <1>2, <2>8, Unfinished
<1>8. pc \in Reading \cup {"dummy"}
  BY <1>1 DEF Reading
<1>9. Asked(requests[id]) => ~FullySent(id)
  BY <1>3, <1>7
<1> QED
  BY <1>1, <1>6, <1>8, <1>9, PairCut

(* A body that only the stream ends.                                       *)
LEMMA PairRest ==
    ASSUME ConnInv, BodyInv, PairInv, Server, ReadRest
    PROVE  PairInv'
<1>1. pc = "rest" /\ pc \in BodyStates /\ id' = id /\ late' = late /\ fin /\ avail' = <<>>
  BY DEF ReadRest, BodyStates
<1>2. ConnType /\ id \in DOMAIN requests
  BY <1>1 DEF ConnInv, ConnType, Reading
<1>3. PICK r \in Request : r = requests[id]
  BY <1>2 DEF ConnType
<1>4. PICK ok \in BOOLEAN : ok = TRUE
  OBVIOUS
<1>5. ContentRead(ok)
  BY <1>4, Zenon DEF ReadRest
<1>6. ~Asked(r)
  <2>1. SUFFICES ASSUME Asked(r) PROVE FALSE
    OBVIOUS
  <2>2. r.parts # <<>> /\ WellFormed(r)
    BY <2>1, AskedIs
  <2> QED
    BY <1>1, <1>3, <2>2 DEF PairInv, FormState
<1> QED
  BY <1>1, <1>3, <1>5, <1>6, PairContent

(* A body of which a line is read is a chunked one.                        *)
LEMMA LineBody ==
    ASSUME ConnInv, BodyInv, PairInv, pc \in {"size", "crlf", "last"},
           NEW r \in Request, r = requests[id]
    PROVE  /\ Delimited(r) => Sent(r) /\ r.framing = "chunked"
           /\ ~Asked(r)
           /\ r.framing # "none"
           /\ ~(r.parts # <<>> /\ WellFormed(r))
<1>1. pc \in BodyStates /\ pc \notin {"data", "rest"}
  BY DEF BodyStates
<1>2. ~(r.parts # <<>> /\ WellFormed(r))
  BY <1>1 DEF PairInv, FormState
<1>3. r.framing # "none"
  BY <1>1 DEF PairInv, RestState
<1>4. Sent(r) => r.framing = "chunked"
  BY <1>1 DEF BodyInv, BodyState, Sent
<1>5. ~Asked(r)
  BY <1>2, AskedIs
<1>6. ASSUME Delimited(r) PROVE Sent(r)
  <2>1. r.framing \in {"none", "length"} \cup Chunked
    BY DEF Request
  <2> QED
    BY <1>2, <1>3, <1>6, <2>1, DelimitedIs DEF Sent
<1> QED
  BY <1>2, <1>3, <1>4, <1>5, <1>6

(* The line break after the last chunk.                                    *)
LEMMA PairLast ==
    ASSUME ConnInv, BodyInv, PairInv, Server, ReadLast
    PROVE  PairInv'
<1>1. /\ pc = "last" /\ pc \in BodyStates /\ id' = id /\ late' = late
      /\ HasLine /\ avail' = AfterLine
  BY DEF ReadLast, BodyStates
<1>2. ConnType /\ Unread /\ id \in DOMAIN requests
  BY <1>1 DEF ConnInv, BodyInv, ConnType, Reading
<1>3. PICK r \in Request : r = requests[id]
  BY <1>2 DEF ConnType
<1>4. requests' = requests /\ unsent' = unsent
  BY <1>2, UnreadKept
<1>5. PICK ok : ContentRead(ok)
  BY Zenon DEF ReadLast
<1>6. ASSUME Delimited(r) PROVE At' = Start(id + 1)
  <2>1. Sent(r) /\ r.framing = "chunked"
    BY <1>1, <1>3, <1>6, LineBody
  <2>2. PICK P, Q : /\ ChunkEnds(P, r, id)
                    /\ ChunkTexts(Q, r)
                    /\ InChunks(r, P, Q, Len(r.chunks))
    BY <1>1, <1>2, <1>3, <2>1, ChunkPlace
  <2>3. PICK n, B : n = Len(r.chunks) /\ B = BodyTokens(r, id)
    OBVIOUS
  <2>4. PICK g : g = End(P, n)
    OBVIOUS
  <2>5. g \in Nat /\ Len(B) = g + 2 /\ B[g + 2] = Line("blank", id)
    BY <2>1, <2>2, <2>3, <2>4, ChunkedBodyEnd, Zenon
  <2>6. PICK d \in Nat : d = g + 1 /\ d + 1 = g + 2
    BY <2>5
  <2>7. InBody(d)
    BY <1>1, <2>2, <2>3, <2>4, <2>6 DEF InChunks
  <2>8. B = BodyTokens(requests[id], id)
    BY <1>3, <2>3
  <2>9. B[d + 1] = Line("blank", id) /\ d + 1 <= Len(B)
    BY <2>5, <2>6
  <2>10. IsLine(Line("blank", id))
    BY DEF Line, Token, IsLine
  <2>11. InBody(d + 1)'
    <3>1. IsLine(B[d + 1])
      BY <2>9, <2>10
    <3> QED
      BY <1>1, <1>2, <1>4, <2>7, <2>8, <2>9, <3>1, LineStep
  <2>12. At' = Start(id)' + 3 + (d + 1)
    BY <2>11 DEF InBody
  <2>13. Start(id)' = Start(id)
    BY <1>1, <1>4 DEF Start, Place, Enc
  <2>14. PICK h \in Nat : h = Start(id)
    BY <1>2, StartNext
  <2>15. Start(id + 1) = h + 3 + (g + 2)
    BY <1>2, <2>5, <2>8, <2>14, StartNext
  <2> QED
    BY <2>6, <2>12, <2>13, <2>14, <2>15
<1>7. ~Asked(r)
  BY <1>1, <1>3, LineBody
<1> QED
  BY <1>1, <1>3, <1>5, <1>6, <1>7, PairContent

(* The line break after a chunk.                                           *)
LEMMA PairCrlf ==
    ASSUME ConnInv, BodyInv, PairInv, Server, ReadCrlf
    PROVE  PairInv'
<1>1. /\ pc = "crlf" /\ pc \in BodyStates /\ pc \in Reading /\ id' = id /\ late' = late
      /\ form' = form
  BY DEF ReadCrlf, BodyStates, Reading
<1>2. ConnType /\ Unread /\ id \in DOMAIN requests
  BY <1>1 DEF ConnInv, BodyInv, ConnType, Reading
<1>3. PICK r \in Request : r = requests[id]
  BY <1>2 DEF ConnType
<1>4. requests' = requests
  BY <1>2, UnreadKept
<1>5. /\ Delimited(r) => Sent(r)
      /\ ~Asked(r) /\ r.framing # "none"
      /\ ~(r.parts # <<>> /\ WellFormed(r))
  BY <1>1, <1>3, LineBody
<1>6. CASE pc' = "size" /\ out' = out
  <2>1. RestState' /\ FormState'
    BY <1>1, <1>3, <1>4, <1>5, <1>6 DEF PairInv, RestState, FormState
  <2>2. ~late' /\ ~high => Track'
    <3>1. pc' \in Reading
      BY <1>6 DEF Reading, BodyStates
    <3> QED
      BY <1>1, <1>6, <3>1, TrackKept
  <2> QED
    BY <1>6, <2>1, <2>2, PairQuiet
<1>7. CASE ~IsThe("blank") /\ ContentRead(TRUE)
  <2>1. ~Delimited(r)
    BY <1>2, <1>3, <1>5, <1>7, CrlfRead
  <2>2. PICK ok : ContentRead(ok)
    BY <1>7, Zenon
  <2> QED
    BY <1>1, <1>3, <1>5, <2>1, <2>2, PairContent
<1> QED
  BY <1>6, <1>7 DEF ReadCrlf

(* The size line of a chunk.                                               *)
LEMMA PairSize ==
    ASSUME ConnInv, BodyInv, PairInv, Server, ReadSize
    PROVE  PairInv'
<1>1. /\ pc = "size" /\ pc \in BodyStates /\ pc \in Reading /\ id' = id /\ late' = late
      /\ form' = form
  BY DEF ReadSize, BodyStates, Reading
<1>2. ConnType /\ Unread /\ id \in DOMAIN requests
  BY <1>1 DEF ConnInv, BodyInv, ConnType, Reading
<1>3. PICK r \in Request : r = requests[id]
  BY <1>2 DEF ConnType
<1>4. requests' = requests
  BY <1>2, UnreadKept
<1>5. /\ Delimited(r) => Sent(r)
      /\ ~Asked(r) /\ r.framing # "none"
      /\ ~(r.parts # <<>> /\ WellFormed(r))
  BY <1>1, <1>3, LineBody
<1>6. CASE pc' \in {"data", "last"} /\ out' = out
  <2>1. RestState' /\ FormState'
    BY <1>1, <1>3, <1>4, <1>5, <1>6 DEF PairInv, RestState, FormState
  <2>2. ~late' /\ ~high => Track'
    <3>1. pc' \in Reading
      BY <1>6 DEF Reading, BodyStates
    <3> QED
      BY <1>1, <1>6, <3>1, TrackKept
  <2> QED
    BY <1>6, <2>1, <2>2, PairQuiet
<1>7. CASE ~IsThe("size") /\ ~IsThe("zero") /\ ContentRead(FALSE)
  <2>1. ~Delimited(r)
    <3>1. SUFFICES ASSUME Sent(r) PROVE FALSE
      BY <1>5
    <3>2. PICK P, Q : /\ ChunkEnds(P, r, id)
                      /\ ChunkTexts(Q, r)
                      /\ InChunks(r, P, Q, Len(r.chunks))
      BY <1>1, <1>2, <1>3, <3>1, ChunkPlace
    <3>3. PICK c \in 0..Len(r.chunks) : InBody(End(P, c)) /\ body = Q[c]
      BY <1>1, <3>2 DEF InChunks
    <3> QED
      BY <1>2, <1>3, <1>7, <3>1, <3>2, <3>3, SizeRead
  <2>2. PICK ok : ContentRead(ok)
    BY <1>7, Zenon
  <2> QED
    BY <1>1, <1>3, <1>5, <2>1, <2>2, PairContent
<1> QED
  BY <1>6, <1>7 DEF ReadSize

(* Of a form the next piece is read.                                       *)
Parsed(r, n) ==
    \E m \in 0..Len(BodyOf(r)) :
        /\ n <= Len(BodyOf(r)) - m
        /\ need = Len(BodyOf(r)) - m
        /\ m + n \in 0..Len(BodyOf(r))
        /\ InBody(m + n)'
        /\ InForm(form', r, m + n)
        /\ form'.loop # "fail"
        /\ m + n = Len(BodyOf(r)) /\ (\A i \in DOMAIN r.parts : Separable(r.parts[i].content)) =>
              form'.valid /\ form'.parts = r.parts

(* A piece of a form goes to the parser, which has then been fed that much *)
(* of it, and has its parts at the end.                                    *)
LEMMA FormRead ==
    ASSUME ConnInv, BodyInv, PairInv, pc = "data", id \in DOMAIN requests,
           NEW n \in 1..Len(avail), n <= need, Reads(n),
           NEW r \in Request, r = requests[id], r.parts # <<>>, WellFormed(r),
           form' = parse(form, [k \in 1..n |-> avail[k].val])
    PROVE  Parsed(r, n)
<1>1. ConnType /\ Unread /\ pc \in BodyStates
  BY DEF ConnInv, BodyInv, BodyStates
<1>2. PICK s, B : s = BodyOf(r) /\ B = BodyTokens(r, id)
  OBVIOUS
<1>3. r.framing = "length"
  BY DEF WellFormed
<1>4. s \in Seq(Chars) /\ Len(B) = Len(s) /\ \A k \in 1..Len(s) : B[k] = Token("data", id, s[k], 0)
  BY <1>2, <1>3, LengthBody
<1>5. PICK l \in Nat : l = Len(s)
  BY <1>4
<1>6. PICK m \in 0..l : m < l /\ need = l - m /\ InBody(m) /\ InForm(form, r, m)
  BY <1>1, <1>2, <1>5 DEF PairInv, FormState
<1>7. n \in Nat /\ n >= 1 /\ m \in Nat /\ m \in Int /\ m + n \in 0..l /\ m + n <= l /\ n <= l - m
  BY <1>1, <1>5, <1>6, AvailType
<1>8. InBody(m + n)'
  BY <1>1, <1>6, <1>7, ReadsOn
<1>9. PICK piece : piece = [k \in 1..n |-> avail[k].val]
  OBVIOUS
<1>10. piece = [k \in 1..n |-> s[m + k]]
  <2>1. ASSUME NEW k \in 1..n PROVE B[m + k] = Token("data", id, s[m + k], 0)
    <3>1. m + k \in 1..l
      BY <1>7
    <3> QED
      BY <1>4, <1>5, <3>1
  <2>2. At = Start(id) + 3 + m
    BY <1>6 DEF InBody
  <2>3. B = BodyTokens(requests[id], id) /\ m + n <= Len(B)
    BY <1>2, <1>4, <1>5, <1>7
  <2>4. BytesLie(id, m, s, m, n)
    BY <2>1, <2>3 DEF BytesLie
  <2>5. PieceIs(s, m, n)
    BY <1>1, <1>7, <2>2, <2>4, DataRead, Zenon
  <2> QED
    BY <1>9, <2>5 DEF PieceIs
<1>11. piece \in Seq(Chars) /\ n = Len(piece) /\ \A k \in 1..n : piece[k] = s[m + k]
  <2>1. \A k \in 1..n : m + k \in 1..l
    BY <1>7
  <2>2. \A k \in 1..n : s[m + k] \in Chars
    <3>1. \A i \in 1..l : s[i] \in Chars
      BY <1>4, <1>5
    <3> QED
      BY <2>1, <3>1
  <2> QED
    BY <1>7, <1>10, <2>2
<1>12. PICK parts : parts = r.parts /\ parts \in Seq(FormPart) /\ s = Encode(parts)
  BY <1>2, FormIs
<1>13. PICK o, c, d : FormAt(form, o, parts, s, c, d, m)
  BY <1>6, <1>12 DEF InForm
<1>14. PICK q : q = parse(form, piece)
  OBVIOUS
<1>15. PICK g \in Nat : g = m + n
  BY <1>7
<1>16. FormAt(q, o, parts, s, c, d, g) /\ q.loop # "go"
  <2>1. m + n <= Len(s)
    BY <1>5, <1>7
  <2> QED
    BY <1>11, <1>13, <1>14, <1>15, <2>1, FormParse, Zenon
<1>17. q.loop # "fail"
  BY <1>16, SoundTakes DEF FormAt
<1>18. ASSUME g = l, \A i \in DOMAIN parts : Separable(parts[i].content)
       PROVE  q.valid /\ q.parts = parts
  <2>1. c = Len(parts) /\ DOMAIN parts = 1..Len(parts)
    BY <1>12, <1>16 DEF FormAt, Layout
  <2>2. \A i \in 1..c : Separable(parts[i].content)
    BY <1>18, <2>1
  <2>3. g = Len(s)
    BY <1>5, <1>18
  <2> QED
    BY <1>12, <1>16, <2>2, <2>3, FormDone, Zenon
<1>19. form' = q
  BY <1>9, <1>14
<1>20. InForm(q, r, g)
  BY <1>12, <1>16 DEF InForm
<1> QED
  BY <1>2, <1>5, <1>6, <1>7, <1>8, <1>12, <1>15, <1>17, <1>18, <1>19, <1>20 DEF Parsed

(* Bytes of a body.                                                        *)
LEMMA PairData ==
    ASSUME ConnInv, BodyInv, PairInv, Server, NEW n \in 1..Len(avail), ReadData(n)
    PROVE  PairInv'
<1>1. /\ pc = "data" /\ pc \in BodyStates /\ pc \in Reading /\ id' = id /\ late' = late
      /\ n <= need /\ avail' = Erase(avail, n)
  BY DEF ReadData, BodyStates, Reading
<1>2. ConnType /\ Unread /\ id \in DOMAIN requests
  BY <1>1 DEF ConnInv, BodyInv, ConnType, Reading
<1>3. PICK r \in Request : r = requests[id]
  BY <1>2 DEF ConnType
<1>4. requests' = requests /\ unsent' = unsent
  BY <1>2, UnreadKept
<1>5. Reads(n) /\ n \in Nat /\ n >= 1
  <2>1. n \in 0..Len(avail) /\ n \in Nat /\ n >= 1
    BY <1>2, AvailType
  <2> QED
    BY <1>1, <1>4, <2>1 DEF Reads
<1>6. r.framing # "none"
  BY <1>1, <1>3 DEF PairInv, RestState
<1>7. ASSUME r.parts # <<>>, WellFormed(r) PROVE Parsed(r, n)
  <2>1. form' = parse(form, [k \in 1..n |-> avail[k].val])
    BY <1>3, <1>7 DEF ReadData
  <2> QED
    BY <1>1, <1>2, <1>3, <1>5, <1>7, <2>1, FormRead
<1>8. ASSUME r.parts = <<>> PROVE form = NoParser /\ form' = NoParser /\ form'.loop # "fail"
  <2>1. form = NoParser
    BY <1>1, <1>3, <1>8 DEF PairInv, FormState
  <2>2. form' = form
    BY <1>3, <1>8 DEF ReadData
  <2>3. NoParser.loop # "fail"
    BY DEF NoParser
  <2> QED
    BY <2>1, <2>2, <2>3
<1>9. ASSUME Delimited(r)
      PROVE  r.framing \in {"length", "chunked"} /\ (r.parts # <<>> => WellFormed(r))
  <2>1. r.framing \in {"none", "length"} \cup Chunked
    BY DEF Request
  <2> QED
    BY <1>6, <1>9, <2>1, DelimitedIs DEF Sent, WellFormed
<1>10. CASE form'.loop = "fail" /\ ContentRead(FALSE)
  <2>1. ~Delimited(r)
    BY <1>7, <1>8, <1>9, <1>10 DEF Parsed
  <2>2. PICK ok : ContentRead(ok)
    BY <1>10, Zenon
  <2>3. ~Asked(r)
    BY <2>1 DEF Asked
  <2> QED
    BY <1>1, <1>3, <2>1, <2>2, <2>3, PairContent
<1>11. CASE /\ n < need \/ r.framing \in Chunked
            /\ need' = need - n
            /\ pc' = IF n < need THEN "data" ELSE "crlf"
            /\ out' = out
  <2>1. pc' \in Reading /\ pc' \in BodyStates
    BY <1>11 DEF Reading, BodyStates
  <2>2. RestState'
    BY <1>1, <1>3, <1>4, <1>6 DEF RestState
  <2>3. ASSUME r.parts # <<>>, WellFormed(r)
        PROVE  /\ pc' = "data"
               /\ \E m \in 0..Len(BodyOf(r)) :
                    /\ m < Len(BodyOf(r)) /\ need' = Len(BodyOf(r)) - m
                    /\ InBody(m)' /\ InForm(form', r, m)
    <3>1. n < need /\ pc' = "data"
      BY <1>11, <2>3 DEF WellFormed, Chunked
    <3>2. PICK l \in Nat : l = Len(BodyOf(r))
      <4>1. PICK s : s = BodyOf(r) /\ s \in Seq(Chars)
        BY <2>3, FormIs
      <4> QED
        BY <4>1
    <3>3. PICK m \in 0..l : /\ need = l - m /\ m + n \in 0..l
                            /\ InBody(m + n)' /\ InForm(form', r, m + n)
      BY <1>7, <2>3, <3>2 DEF Parsed
    <3>4. m + n < l /\ need' = l - (m + n)
      BY <1>5, <1>11, <3>1, <3>3
    <3> QED
      BY <3>1, <3>2, <3>3, <3>4
  <2>4. FormState'
    <3>1. \A q, m : InForm(q, r, m)' = InForm(q', r, m)
      BY DEF InForm
    <3>2. pc' \notin {"head", "route"}
      BY <1>11
    <3> QED
      BY <1>1, <1>3, <1>4, <1>8, <2>3, <3>2 DEF FormState
  <2>5. ~late' /\ ~high => Track'
    BY <1>1, <1>11, <2>1, TrackKept
  <2> QED
    BY <1>11, <2>2, <2>4, <2>5, PairQuiet
<1>12. CASE n = need /\ r.framing = "length" /\ ContentRead(TRUE)
  <2>1. PICK ok \in BOOLEAN : ok = TRUE
    OBVIOUS
  <2>2. ContentRead(ok)
    BY <1>12, <2>1, Zenon
  <2>3. PICK l \in Nat : l = Len(BodyOf(r)) /\ l = Len(BodyTokens(r, id))
    BY <1>12, LengthBody
  <2>4. ASSUME Delimited(r) PROVE At' = Start(id + 1)
    <3>1. PICK m \in 0..l : need = l - m /\ InBody(m + n)'
      <4>1. CASE r.parts # <<>>
        BY <1>7, <1>9, <2>3, <2>4, <4>1 DEF Parsed
      <4>2. CASE r.parts = <<>>
        <5>1. InLength(r)
          BY <1>1, <1>3, <1>12, <4>2 DEF BodyInv, BodyState, Sent
        <5>2. PICK m \in 0..l : need = l - m /\ InBody(m)
          BY <2>3, <5>1 DEF InLength
        <5>3. m \in Int
          OBVIOUS
        <5>4. InBody(m + n)'
          BY <1>2, <1>5, <5>2, <5>3, ReadsOn
        <5> QED
          BY <5>2, <5>4
      <4> QED
        BY <4>1, <4>2
    <3>2. m + n = l
      BY <1>5, <1>12, <3>1
    <3>3. InBody(l)'
      BY <3>1, <3>2
    <3>4. At' = Start(id)' + 3 + l
      BY <3>3 DEF InBody
    <3>5. Start(id)' = Start(id)
      BY <1>1, <1>4 DEF Start, Place, Enc
    <3>6. PICK h \in Nat : h = Start(id)
      BY <1>2, StartNext
    <3>7. Start(id + 1) = h + 3 + l
      BY <1>2, <1>3, <2>3, <3>6, StartNext
    <3> QED
      BY <3>4, <3>5, <3>6, <3>7
  <2>5. ASSUME Asked(r) PROVE form'.valid /\ form'.parts = r.parts
    <3>1. r.parts # <<>> /\ WellFormed(r) /\ \A i \in DOMAIN r.parts : Separable(r.parts[i].content)
      BY <2>5, AskedIs DEF Asked
    <3>2. PICK m \in 0..l :
             /\ need = l - m
             /\ m + n = l => form'.valid /\ form'.parts = r.parts
      BY <1>7, <2>3, <3>1 DEF Parsed
    <3>3. m + n = l
      BY <1>5, <1>12, <3>2
    <3> QED
      BY <3>2, <3>3
  <2> QED
    BY <1>1, <1>3, <2>1, <2>2, <2>4, <2>5, PairContent
<1>13. \/ form'.loop = "fail" /\ ContentRead(FALSE)
       \/ /\ n < need \/ requests[id].framing \in Chunked
          /\ need' = need - n
          /\ pc' = IF n < need THEN "data" ELSE "crlf"
          /\ out' = out
       \/ n = need /\ requests[id].framing = "length" /\ ContentRead(TRUE)
  BY DEF ReadData
<1> QED
  BY <1>3, <1>10, <1>11, <1>12, <1>13

(* At the start nothing has been answered.                                 *)
LEMMA PairStarts == ConnInv /\ ConnectionInit => PairInv
<1> SUFFICES ASSUME ConnInv, ConnectionInit PROVE PairInv
  OBVIOUS
<1>1. /\ unsent = Stream(requests) /\ avail = <<>> /\ out = <<>> /\ pc = "keepalive"
  BY DEF ConnectionInit
<1>2. ConnType
  BY DEF ConnInv
<1>3. RestState /\ FormState
  BY <1>1 DEF RestState, FormState, BodyStates
<1>4. Final = {}
  BY <1>1 DEF Final
<1>5. Pairs
  BY <1>4 DEF Pairs
<1>6. Answered = 0
  BY <1>4, FS_EmptySet DEF Answered
<1>7. At = 0
  <2>1. PICK s \in Nat : s = Len(Stream(requests))
    BY <1>2, StreamEnd, PlaceJoins
  <2>2. Len(avail) = 0 /\ Len(unsent) = s
    BY <1>1, <2>1
  <2> QED
    BY <2>1, <2>2 DEF At
<1>8. ASSUME NEW f \in Nat, f = Answered PROVE Over(f)
  <2>1. f + 1 = 1
    BY <1>6, <1>8
  <2>2. Start(f + 1) = Start(1)
    BY <2>1, Zenon
  <2>3. Start(1) = 0
    BY <1>2, StreamEnd
  <2> QED
    BY <1>7, <2>2, <2>3 DEF Over
<1>9. pc \notin Reading \cup {"dummy"}
  BY <1>1 DEF Reading, BodyStates
<1>10. Track
  BY <1>8, <1>9 DEF Track
<1> QED
  BY <1>3, <1>5, <1>10 DEF PairInv

(* A step of the client.                                                   *)
LEMMA PairStays ==
    ASSUME ConnInv, BodyInv, PairInv, At' = At,
           UNCHANGED <<requests, high, late, pc, id, need, form, out>>,
           \/ UNCHANGED <<unsent, avail, fin>>
           \/ ~fin /\ UNCHANGED fin
           \/ ~fin /\ fin' /\ UNCHANGED <<unsent, avail>>
    PROVE  PairInv'
<1>1. \A i : Start(i)' = Start(i)
  BY DEF Start, Place, Enc
<1>2. \A d : InBody(d)' = InBody(d)
  BY <1>1 DEF InBody
<1>3. \A q, r, m : InForm(q, r, m)' = InForm(q, r, m)
  BY DEF InForm
<1>4. RestState' /\ FormState'
  BY <1>2, <1>3 DEF PairInv, RestState, FormState
<1> SUFFICES ASSUME ~late, ~high PROVE Pairs' /\ Track'
  BY <1>4 DEF PairInv
<1>5. Pairs /\ Track
  BY DEF PairInv
<1>6. Final' = Final /\ Answered' = Answered /\ \A k : Number(k)' = Number(k)
  BY DEF Final, Answered, Number
<1>7. \A f : Ahead(f)' = Ahead(f)
  BY DEF Ahead
<1>8. ASSUME NEW o, Told(o) PROVE Told(o)'
  BY <1>8 DEF Told, Asked, FullySent
<1>9. \A o : Told(o) => Told(o)'
  BY <1>8
<1>10. ASSUME NEW k \in Final, NEW f \in Nat, f + 1 = Number(k), Ahead(f)
       PROVE  out[k].id = f + 1 /\ Told(out[k])
  BY <1>5, <1>10 DEF Pairs
<1>11. Pairs'
  <2>1. ASSUME NEW k \in Final', NEW f \in Nat, f + 1 = Number(k)', Ahead(f)'
        PROVE  out'[k].id = f + 1 /\ Told(out[k])'
    BY <1>6, <1>7, <1>9, <1>10, <2>1
  <2> QED
    BY <2>1 DEF Pairs
<1>12. ASSUME NEW f \in Nat, Over(f) PROVE Over(f)'
  BY <1>1, <1>12 DEF Over
<1>13. Track'
  <2>1. Start(id)' = Start(id)
    BY DEF Start, Place, Enc
  <2>2. ASSUME NEW f \in Nat, f = Answered', Ahead(f)'
        PROVE  /\ pc' \in {"keepalive", "line"} => Over(f)'
               /\ pc' \in Reading \cup {"dummy"} => id' = f + 1 /\ id' \in DOMAIN requests'
               /\ pc' = "dummy" => requests'[id'].line = "long" /\ At' = Start(id)' + 1
    BY <1>5, <1>6, <1>7, <1>12, <2>1, <2>2 DEF Track
  <2> QED
    BY <2>2 DEF Track
<1> QED
  BY <1>11, <1>13

(* ... and every step keeps the responses in step with the requests.       *)
LEMMA PairStep == ConnInv /\ BodyInv /\ PairInv /\ [ReadNext]_readVars => PairInv'
<1> SUFFICES ASSUME ConnInv, BodyInv, PairInv, [ReadNext]_readVars PROVE PairInv'
  OBVIOUS
<1>0. ConnType /\ Unread
  BY DEF ConnInv, BodyInv
<1>1. ASSUME NEW n \in 1..Len(unsent), Send(n) PROVE PairInv'
  <2>1. At' = At
    BY <1>0, <1>1, ClientSends
  <2> QED
    BY <1>1, <2>1, PairStays DEF Send
<1>2. CASE Finish
  <2>1. At' = At
    BY <1>2 DEF Finish, At
  <2> QED
    BY <1>2, <2>1, PairStays DEF Finish
<1>3. CASE UNCHANGED readVars
  <2>1. At' = At
    BY <1>3 DEF readVars, clientVars, At
  <2> QED
    BY <1>3, <2>1, PairStays DEF readVars, clientVars
<1>4. CASE Server
  <2>1. ASSUME NEW n \in 1..Len(avail), ReadData(n) PROVE PairInv'
    BY <1>4, <2>1, PairData
  <2>2. CASE ReadLine
    BY <1>4, <2>2, PairLine
  <2>3. CASE keep_alive \/ ReadLineFails
    BY <1>4, <2>3, PairWaits
  <2>4. CASE SkipHeaders
    BY <1>4, <2>4, PairSkips
  <2>5. CASE ReadHeaders
    BY <1>4, <2>5, PairHeaders
  <2>6. CASE ReadHeadersFails
    BY <1>4, <2>6, PairHeadFails
  <2>7. CASE Route
    BY <1>4, <2>7, PairRoute
  <2>8. CASE ContentFails
    BY <1>4, <2>8, PairFails
  <2>9. CASE ReadRest
    BY <1>4, <2>9, PairRest
  <2>10. CASE ReadSize
    BY <1>4, <2>10, PairSize
  <2>11. CASE ReadCrlf
    BY <1>4, <2>11, PairCrlf
  <2>12. CASE ReadLast
    BY <1>4, <2>12, PairLast
  <2> QED
    BY <1>4, <2>1, <2>2, <2>3, <2>4, <2>5, <2>6, <2>7, <2>8, <2>9, <2>10, <2>11, <2>12 DEF Server
<1> QED
  BY <1>1, <1>2, <1>3, <1>4 DEF ReadNext

(* The place of a response among those that end a request.                 *)
LEMMA NumberType ==
    ASSUME OutType, NEW k \in Final
    PROVE  \E f \in Nat : f + 1 = Number(k)
<1>1. IsFiniteSet(Final)
  BY FinalFinite
<1>2. PICK K : K = {i \in Final : i <= k}
  OBVIOUS
<1>3. IsFiniteSet(K)
  BY <1>1, <1>2, FS_Subset
<1>4. k \in K
  <2>1. k \in Nat
    BY FinalFinite DEF Final
  <2> QED
    BY <1>2, <2>1
<1>5. PICK c \in Nat : c = Cardinality(K)
  BY <1>3, FS_CardinalityType
<1>6. c # 0
  BY <1>3, <1>4, <1>5, FS_EmptySet
<1>7. c - 1 \in Nat /\ (c - 1) + 1 = c
  BY <1>6
<1> QED
  BY <1>2, <1>5, <1>7 DEF Number

(* Response i answers request i, as long as every request before it is one *)
(* whose bytes the server delimits and no read has timed out, for every    *)
(* division of the stream into reads (httplib.h:4696-4787, 2603-2777).     *)
THEOREM ConnectionPairs == ConnectionSpec => []AnswersPairUp
<1>1. ConnInv /\ PairInv => AnswersPairUp
  <2> SUFFICES ASSUME ConnInv, PairInv, ~late, ~high, NEW k \in Final, InStep(k)
               PROVE  out[k].id = Number(k)
    BY DEF AnswersPairUp
  <2>1. PICK f \in Nat : f + 1 = Number(k)
    BY NumberType DEF ConnInv, CloseInv
  <2>2. Number(k) - 1 = f
    BY <2>1
  <2>3. Ahead(f)
    BY <2>2 DEF InStep, Ahead
  <2> QED
    BY <2>1, <2>3 DEF PairInv, Pairs
<1>2. ConnectionInit => PairInv
  BY ConnStarts, PairStarts
<1>3. ConnectionInit => BodyInv
  BY ConnStarts, BodyStarts
<1> QED
  BY <1>1, <1>2, <1>3, ConnStarts, ConnStep, BodyStep, PairStep, ReadsOnly, PTL DEF ConnectionSpec

(* A form that arrives whole is answered with the parts that were sent,    *)
(* whatever the boundary, the contents and the reads                       *)
(* (httplib.h:3075-3240).                                                  *)
THEOREM ConnectionParts == ConnectionSpec => []PartsArriveWhole
<1>1. ConnInv /\ PairInv => PartsArriveWhole
  <2> SUFFICES ASSUME ConnInv, PairInv, NEW k \in Final, ~late, ~high,
                      requests[out[k].id].parts # <<>>,
                      InStep(k), FullySent(out[k].id), Delimited(requests[out[k].id]),
                      \A i \in DOMAIN requests[out[k].id].parts :
                          Separable(requests[out[k].id].parts[i].content)
               PROVE  out[k].status = 404 /\ out[k].parts = requests[out[k].id].parts
    BY DEF PartsArriveWhole
  <2>1. PICK f \in Nat : f + 1 = Number(k)
    BY NumberType DEF ConnInv, CloseInv
  <2>2. Number(k) - 1 = f
    BY <2>1
  <2>3. Ahead(f)
    BY <2>2 DEF InStep, Ahead
  <2>4. Told(out[k])
    BY <2>1, <2>3 DEF PairInv, Pairs
  <2> QED
    BY <2>4 DEF Told, Asked
<1>2. ConnectionInit => PairInv
  BY ConnStarts, PairStarts
<1>3. ConnectionInit => BodyInv
  BY ConnStarts, BodyStarts
<1> QED
  BY <1>1, <1>2, <1>3, ConnStarts, ConnStep, BodyStep, PairStep, ReadsOnly, PTL DEF ConnectionSpec
=============================================================================
