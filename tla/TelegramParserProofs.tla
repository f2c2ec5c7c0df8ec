------------------------ MODULE TelegramParserProofs ------------------------
(***************************************************************************)
(* Proofs about TelegramParser, for every text: a normalised command is    *)
(* parsed back to the command it was made from.                            *)
(*                                                                         *)
(* The parser reads a text by two loops, Scan and Collapsed.  Induction    *)
(* over the symbols read is by the least counterexample, and Recursion     *)
(* gives the loops a run: their state after each prefix of the text.  On   *)
(* the runs it is shown that no token holds a quote, that normalised white *)
(* space is left alone when it is normalised again, and what the tokenizer *)
(* holds after each part of a normalised command.                          *)
(***************************************************************************)
EXTENDS TelegramParser, TLAPS, WellFoundedInduction, SequenceTheorems

-----------------------------------------------------------------------------
(* Induction and recursion over 0..N                                       *)

LEMMA Least ==
  ASSUME NEW T \in SUBSET Nat, T # {}
  PROVE  \E n \in T : \A m \in T : n <= m
<1>1. PICK n \in T : \A m \in T : ~(<<m, n>> \in OpToRel(<, Nat))
      BY NatLessThanWellFounded, WFMin
<1>2. ASSUME NEW m \in T PROVE n <= m
  <2>1. ~(m < n)
        BY <1>1 DEF OpToRel
  <2> QED BY <2>1
<1> QED BY <1>2

\* A property holds up to N if it holds of 0 and passes from each number to the next.
LEMMA Induction ==
  ASSUME NEW N \in Nat, NEW S, 0 \in S, \A n \in 1..N : n - 1 \in S => n \in S
  PROVE  \A n \in 0..N : n \in S
<1> DEFINE Bad == {n \in 0..N : n \notin S}
<1>1. CASE Bad # {}
  <2>0. Bad \in SUBSET Nat
        OBVIOUS
  <2>1. PICK n \in Bad : \A m \in Bad : n <= m
    <3> HIDE DEF Bad
    <3> QED BY <1>1, <2>0, Least
  <2>2. n \in 0..N /\ n \notin S /\ n # 0
        BY <2>1
  <2>3. n \in 1..N /\ n - 1 \in 0..N /\ n - 1 < n
        BY <2>2
  <2>4. n - 1 \in S
    <3>1. n - 1 \notin Bad
          BY <2>1, <2>3
    <3> QED BY <2>3, <3>1
  <2> QED BY <2>2, <2>3, <2>4
<1> QED BY <1>1

\* The values of f up to k start with s and follow step.
Follows(f, k, s, step) ==
  f[0] = s /\ \A n \in 1..k : f[n] = step[<<f[n - 1], n>>]

LEMMA Recursion ==
  ASSUME NEW N \in Nat, NEW X, NEW s \in X, NEW step \in [X \X (1..N) -> X]
  PROVE  \E f \in [0..N -> X] : Follows(f, N, s, step)
<1> DEFINE S == {k \in 0..N : \E f \in [0..k -> X] : Follows(f, k, s, step)}
<1>1. 0 \in S
  <2> DEFINE f == [n \in 0..0 |-> s]
  <2>1. f \in [0..0 -> X] /\ Follows(f, 0, s, step)
        BY DEF Follows
  <2> QED BY <2>1
<1>2. ASSUME NEW k \in 1..N, k - 1 \in S
      PROVE  k \in S
  <2>1. PICK g \in [0..(k - 1) -> X] : Follows(g, k - 1, s, step)
        BY <1>2
  <2> DEFINE f == [n \in 0..k |-> IF n = k THEN step[<<g[k - 1], k>>] ELSE g[n]]
  <2>2. step[<<g[k - 1], k>>] \in X
        BY <2>1
  <2>3. f \in [0..k -> X]
        BY <2>1, <2>2
  <2>4. f[0] = s
        BY <2>1 DEF Follows
  <2>5. ASSUME NEW n \in 1..k
        PROVE  f[n] = step[<<f[n - 1], n>>]
    <3>1. f[n - 1] = g[n - 1]
          OBVIOUS
    <3>2. CASE n = k
          BY <3>1, <3>2
    <3>3. CASE n # k
      <4>1. n \in 1..(k - 1) /\ f[n] = g[n]
            BY <3>3
      <4> QED BY <2>1, <3>1, <4>1 DEF Follows
    <3> QED BY <3>2, <3>3
  <2> HIDE DEF f
  <2>6. Follows(f, k, s, step)
        BY <2>4, <2>5 DEF Follows
  <2> QED BY <2>3, <2>6
<1>3. N \in S
  <2> HIDE DEF S
  <2>1. \A n \in 0..N : n \in S
        BY <1>1, <1>2, Induction
  <2> QED BY <2>1
<1> QED BY <1>3

-----------------------------------------------------------------------------
(* The tokenizer                                                           *)

\* What the tokenizer may hold while it reads symbols of S: it keeps no quotes.
Plain(S) == S \ {Quote}
ScanState(S) == [tokens : Seq(Seq(Plain(S))), current : Seq(Plain(S)),
                 inQuotes : BOOLEAN, startedWithQuote : BOOLEAN]

LEMMA EndTokenType ==
  ASSUME NEW S, NEW s \in ScanState(S)
  PROVE  EndToken(s) \in ScanState(S)
<1>1. s.tokens \in Seq(Seq(Plain(S))) /\ s.current \in Seq(Plain(S))
      BY DEF ScanState
<1>2. Append(s.tokens, s.current) \in Seq(Seq(Plain(S)))
      BY <1>1
<1>3. CASE s.current # <<>> \/ s.startedWithQuote
  <2>1. EndToken(s) = [tokens |-> Append(s.tokens, s.current), current |-> <<>>,
                       inQuotes |-> s.inQuotes, startedWithQuote |-> FALSE]
        BY <1>3 DEF EndToken, ScanState
  <2>2. <<>> \in Seq(Plain(S)) /\ s.inQuotes \in BOOLEAN
        BY DEF ScanState
  <2> QED BY <1>2, <2>1, <2>2 DEF ScanState
<1>4. CASE ~(s.current # <<>> \/ s.startedWithQuote)
      BY <1>4 DEF EndToken
<1> QED BY <1>3, <1>4

LEMMA ReadSymbolType ==
  ASSUME NEW S, NEW s \in ScanState(S), NEW c \in S
  PROVE  ReadSymbol(s, c) \in ScanState(S)
<1>1. CASE c = Quote
  <2>1. (s.current = <<>>) \in BOOLEAN
        OBVIOUS
  <2> QED BY <1>1, <2>1 DEF ReadSymbol, ScanState
<1>2. CASE c # Quote
  <2>1. s.current \in Seq(Plain(S)) /\ c \in Plain(S)
        BY <1>2 DEF ScanState, Plain
  <2>2. Append(s.current, c) \in Seq(Plain(S))
        BY <2>1
  <2>3. [s EXCEPT !.current = Append(@, c)] \in ScanState(S)
        BY <2>2 DEF ScanState
  <2> QED BY <1>2, <2>3, EndTokenType DEF ReadSymbol
<1> QED BY <1>1, <1>2

\* f is the tokenizer's state after each prefix of the text.
ScanRun(f, text, S) ==
  /\ f \in [0..Len(text) -> ScanState(S)]
  /\ f[0] = Unread
  /\ \A n \in 1..Len(text) : f[n] = ReadSymbol(f[n - 1], text[n])

LEMMA ScanHasRun ==
  ASSUME NEW S, NEW text \in Seq(S)
  PROVE  \E f : ScanRun(f, text, S) /\ Scan(text) = EndToken(f[Len(text)])
<1> DEFINE N == Len(text)
           step == [x \in ScanState(S) \X (1..N) |-> ReadSymbol(x[1], text[x[2]])]
<1>1. N \in Nat /\ \A n \in 1..N : text[n] \in S
      OBVIOUS
<1>2. Unread \in ScanState(S)
      BY DEF Unread, ScanState
<1>3. step \in [ScanState(S) \X (1..N) -> ScanState(S)]
      BY <1>1, ReadSymbolType
<1>4. PICK g \in [0..N -> ScanState(S)] : Follows(g, N, Unread, step)
      BY <1>1, <1>2, <1>3, Recursion
<1>5. g[0] = Unread /\ \A n \in 1..N : g[n] = ReadSymbol(g[n - 1], text[n])
      BY <1>1, <1>4 DEF Follows
<1>6. \E f : f = [n \in 0..N |-> IF n = 0 THEN Unread ELSE ReadSymbol(f[n - 1], text[n])]
  <2>1. g = [n \in 0..N |-> IF n = 0 THEN Unread ELSE ReadSymbol(g[n - 1], text[n])]
        BY <1>4, <1>5
  <2> QED BY <2>1
<1>7. PICK f : /\ f = [n \in 0..N |->
                         IF n = 0 THEN Unread ELSE ReadSymbol(f[n - 1], text[n])]
               /\ Scan(text) = EndToken(f[N])
      BY <1>6 DEF Scan
<1>8. f[0] = Unread /\ \A n \in 1..N : f[n] = ReadSymbol(f[n - 1], text[n])
      BY <1>1, <1>7
<1>9. \A n \in 0..N : f[n] \in ScanState(S)
  <2> DEFINE T == {n \in 0..N : f[n] \in ScanState(S)}
  <2>1. 0 \in T
        BY <1>1, <1>2, <1>8
  <2>2. \A n \in 1..N : n - 1 \in T => n \in T
        BY <1>1, <1>8, ReadSymbolType
  <2> QED BY <1>1, <2>1, <2>2, Induction
<1>10. f \in [0..N -> ScanState(S)]
      BY <1>7, <1>9
<1> QED BY <1>7, <1>8, <1>10 DEF ScanRun

\* No token holds a quote.
LEMMA ScanType ==
  ASSUME NEW S, NEW text \in Seq(S)
  PROVE  Scan(text) \in ScanState(S)
<1>1. PICK f : ScanRun(f, text, S) /\ Scan(text) = EndToken(f[Len(text)])
      BY ScanHasRun
<1>2. Len(text) \in 0..Len(text)
      OBVIOUS
<1> QED BY <1>1, <1>2, EndTokenType DEF ScanRun

-----------------------------------------------------------------------------
(* White space                                                             *)

\* No white space at the beginning, and elsewhere single spaces only.
Tidy(s) ==
  /\ s # <<>> => s[1] \notin White
  /\ \A k \in 1..Len(s) : s[k] \in White => s[k] = Space
  /\ \A k \in 1..(Len(s) - 1) : s[k] = Space => s[k + 1] \notin White

\* Nor at the end.
Trimmed(s) == Tidy(s) /\ (s # <<>> => s[Len(s)] \notin White)

LEMMA CollapseKeepsTidy ==
  ASSUME NEW S, Space \in S, NEW s \in Seq(S), NEW c \in S, Tidy(s)
  PROVE  Collapse(s, c) \in Seq(S) /\ Tidy(Collapse(s, c))
<1>1. ASSUME NEW d \in S, d \in White => d = Space /\ s # <<>> /\ s[Len(s)] # Space
      PROVE  Append(s, d) \in Seq(S) /\ Tidy(Append(s, d))
  <2> DEFINE t == Append(s, d)
  <2>1. /\ t \in Seq(S) /\ t # <<>> /\ Len(t) = Len(s) + 1 /\ Len(s) \in Nat
        /\ \A k \in 1..Len(s) : t[k] = s[k]
        /\ t[Len(s) + 1] = d
        BY AppendProperties
  <2> HIDE DEF t
  <2>2. t[1] \notin White
    <3>1. CASE s = <<>>
          BY <1>1, <2>1, <3>1
    <3>2. CASE s # <<>>
      <4>1. Len(s) # 0
            BY <3>2
      <4> QED BY <2>1, <3>2, <4>1 DEF Tidy
    <3> QED BY <3>1, <3>2
  <2>3. \A k \in 1..Len(t) : t[k] \in White => t[k] = Space
        BY <1>1, <2>1 DEF Tidy
  <2>4. \A k \in 1..(Len(t) - 1) : t[k] = Space => t[k + 1] \notin White
        BY <1>1, <2>1 DEF Tidy
  <2> QED BY <2>1, <2>2, <2>3, <2>4 DEF Tidy, t
<1>2. CASE c \notin White
      BY <1>1, <1>2 DEF Collapse
<1>3. CASE c \in White
      BY <1>1, <1>3 DEF Collapse, Last
<1> QED BY <1>2, <1>3

\* f is what is left of each prefix of the token.
CollapseRun(f, token, S) ==
  /\ f \in [0..Len(token) -> Seq(S)]
  /\ f[0] = <<>>
  /\ \A n \in 1..Len(token) : f[n] = Collapse(f[n - 1], token[n])
  /\ \A n \in 0..Len(token) : Tidy(f[n])

LEMMA CollapseHasRun ==
  ASSUME NEW S, Space \in S, NEW token \in Seq(S)
  PROVE  \E f : CollapseRun(f, token, S) /\ Collapsed(token) = f[Len(token)]
<1> DEFINE N == Len(token)
           Kept == {s \in Seq(S) : Tidy(s)}
           step == [x \in Kept \X (1..N) |-> Collapse(x[1], token[x[2]])]
<1>1. N \in Nat /\ \A n \in 1..N : token[n] \in S
      OBVIOUS
<1>2. <<>> \in Kept
      BY DEF Tidy
<1>3. \A s \in Kept, n \in 1..N : Collapse(s, token[n]) \in Kept
      BY <1>1, CollapseKeepsTidy
<1>4. \E f : f = [n \in 0..N |-> IF n = 0 THEN <<>> ELSE Collapse(f[n - 1], token[n])]
  <2>1. step \in [Kept \X (1..N) -> Kept]
    <3> HIDE DEF Kept
    <3> QED BY <1>3
  <2>2. PICK g \in [0..N -> Kept] : Follows(g, N, <<>>, step)
    <3> HIDE DEF Kept, step
    <3> QED BY <1>1, <1>2, <2>1, Recursion
  <2>3. g[0] = <<>> /\ \A n \in 1..N : g[n] = Collapse(g[n - 1], token[n])
    <3> HIDE DEF Kept
    <3> QED BY <1>1, <2>2 DEF Follows
  <2>4. g = [n \in 0..N |-> IF n = 0 THEN <<>> ELSE Collapse(g[n - 1], token[n])]
    <3> HIDE DEF Kept
    <3> QED BY <2>2, <2>3
  <2> QED BY <2>4
<1>5. PICK f : /\ f = [n \in 0..N |->
                         IF n = 0 THEN <<>> ELSE Collapse(f[n - 1], token[n])]
               /\ Collapsed(token) = f[N]
      BY <1>4 DEF Collapsed
<1>6. f[0] = <<>> /\ \A n \in 1..N : f[n] = Collapse(f[n - 1], token[n])
      BY <1>1, <1>5
<1>7. \A n \in 0..N : f[n] \in Kept
  <2> DEFINE T == {n \in 0..N : f[n] \in Kept}
  <2> HIDE DEF Kept
  <2>1. 0 \in T
        BY <1>1, <1>2, <1>6
  <2>2. \A n \in 1..N : n - 1 \in T => n \in T
        BY <1>1, <1>3, <1>6
  <2>3. \A n \in 0..N : n \in T
    <3> HIDE DEF T
    <3> QED BY <1>1, <2>1, <2>2, Induction
  <2> QED BY <2>3
<1>8. f \in [0..N -> Seq(S)] /\ \A n \in 0..N : Tidy(f[n])
      BY <1>5, <1>7
<1> QED BY <1>5, <1>6, <1>8 DEF CollapseRun

\* Normalised text is trimmed.
LEMMA NormalizeTrims ==
  ASSUME NEW S, Space \in S, NEW token \in Seq(S)
  PROVE  NormalizeWhitespace(token) \in Seq(S) /\ Trimmed(NormalizeWhitespace(token))
<1> DEFINE s == Collapsed(token)
<1>1. s \in Seq(S) /\ Tidy(s)
      BY CollapseHasRun DEF CollapseRun
<1> HIDE DEF s
<1>2. CASE s # <<>> /\ s[Len(s)] = Space
  <2> DEFINE t == SubSeq(s, 1, Len(s) - 1)
  <2>1. NormalizeWhitespace(token) = t
        BY <1>2 DEF NormalizeWhitespace, Last, Front, s
  <2>2. Len(s) \in Nat \ {0}
        BY <1>1, <1>2, EmptySeq
  <2>3. /\ t \in Seq(S) /\ Len(t) = Len(s) - 1
        /\ \A k \in 1..Len(t) : t[k] = s[k]
    <3> DEFINE m == Len(s) - 1
    <3>1. m \in Nat /\ \A k \in 1..m : s[k] \in S
          BY <1>1, <2>2
    <3> HIDE DEF m
    <3>2. /\ SubSeq(s, 1, m) \in Seq(S) /\ Len(SubSeq(s, 1, m)) = m
          /\ \A k \in 1..m : SubSeq(s, 1, m)[k] = s[k]
          BY <3>1
    <3> QED BY <3>2 DEF m
  <2> HIDE DEF t
  <2>4. Tidy(t)
        BY <1>1, <2>2, <2>3 DEF Tidy
  <2>5. t # <<>> => t[Len(t)] \notin White
    <3> SUFFICES ASSUME t # <<>> PROVE t[Len(t)] \notin White
        OBVIOUS
    <3>1. Len(t) \in 1..(Len(s) - 1)
          BY <2>2, <2>3, EmptySeq
    <3>2. s[Len(t)] # Space
          BY <1>1, <1>2, <2>2, <2>3, <3>1 DEF Tidy, White
    <3> QED BY <1>1, <2>2, <2>3, <3>1, <3>2 DEF Tidy
  <2> QED BY <2>1, <2>3, <2>4, <2>5 DEF Trimmed
<1>3. CASE ~(s # <<>> /\ s[Len(s)] = Space)
  <2>1. NormalizeWhitespace(token) = s
        BY <1>3 DEF NormalizeWhitespace, Last, s
  <2>2. s # <<>> => Len(s) \in 1..Len(s)
        BY <1>1, EmptySeq
  <2>3. s # <<>> => s[Len(s)] \notin White
        BY <1>1, <1>3, <2>2 DEF Tidy
  <2> QED BY <1>1, <2>1, <2>3 DEF Trimmed
<1> QED BY <1>2, <1>3

\* Trimmed text is normalised already.
LEMMA TrimmedIsNormal ==
  ASSUME NEW S, Space \in S, NEW s \in Seq(S), Trimmed(s)
  PROVE  NormalizeWhitespace(s) = s
<1> DEFINE N == Len(s)
           P(n) == SubSeq(s, 1, n)
<1>1. PICK f : CollapseRun(f, s, S) /\ Collapsed(s) = f[N]
      BY CollapseHasRun
<1>2. N \in Nat /\ \A n \in 1..N : s[n] \in S
      OBVIOUS
<1>3. \A n \in 0..N : P(n) \in Seq(S) /\ Len(P(n)) = n /\ \A k \in 1..n : P(n)[k] = s[k]
      BY <1>2
<1>4. ASSUME NEW n \in 1..N, f[n - 1] = P(n - 1)
      PROVE  f[n] = P(n)
  <2>1. Append(P(n - 1), s[n]) = P(n)
        BY <1>2
  <2>2. f[n] = Collapse(P(n - 1), s[n])
        BY <1>1, <1>4 DEF CollapseRun
  <2>3. CASE s[n] \notin White
        BY <2>1, <2>2, <2>3 DEF Collapse
  <2>4. CASE s[n] \in White
    <3>1. s[n] = Space /\ n # 1
          BY <1>2, <2>4 DEF Trimmed, Tidy
    <3>2. n - 1 \in 1..(N - 1) /\ n - 1 \in 0..N
          BY <1>2, <3>1
    <3>3. s[n - 1] # Space
          BY <2>4, <3>2 DEF Trimmed, Tidy
    <3>4. P(n - 1) # <<>> /\ Last(P(n - 1)) # Space
          BY <1>3, <3>2, <3>3 DEF Last
    <3> HIDE DEF P
    <3> QED BY <2>1, <2>2, <2>4, <3>1, <3>4 DEF Collapse
  <2> QED BY <2>3, <2>4
<1>5. \A n \in 0..N : f[n] = P(n)
  <2> DEFINE T == {n \in 0..N : f[n] = P(n)}
  <2>1. 0 \in T
        BY <1>1, <1>2 DEF CollapseRun
  <2>2. \A n \in 1..N : n - 1 \in T => n \in T
        BY <1>4
  <2>3. \A n \in 0..N : n \in T
    <3> HIDE DEF T
    <3> QED BY <1>2, <2>1, <2>2, Induction
  <2> QED BY <2>3
<1>6. Collapsed(s) = s
  <2>1. f[N] = P(N)
        BY <1>2, <1>5
  <2>2. P(N) = s
        BY SubSeqFull
  <2> QED BY <1>1, <2>1, <2>2
<1>7. s # <<>> => s[N] # Space
      BY DEF Trimmed, White
<1> QED BY <1>6, <1>7 DEF NormalizeWhitespace, Last

-----------------------------------------------------------------------------
(* A normalised command, read symbol by symbol                             *)

\* The tokenizer within a word, between quotes and after a closing quote.
Outside(tokens, w) ==
  [tokens |-> tokens, current |-> w, inQuotes |-> FALSE, startedWithQuote |-> FALSE]
Inside(tokens, w) ==
  [tokens |-> tokens, current |-> w, inQuotes |-> TRUE, startedWithQuote |-> TRUE]
Closed(tokens, w) ==
  [tokens |-> tokens, current |-> w, inQuotes |-> FALSE, startedWithQuote |-> TRUE]

LEMMA ReadPlain ==
  ASSUME NEW tokens, NEW c, c # Quote, c \notin White
  PROVE  ReadSymbol(Outside(tokens, <<>>), c) = Outside(tokens, <<c>>)
<1>1. Append(<<>>, c) = <<c>>
      OBVIOUS
<1> QED BY <1>1 DEF ReadSymbol, Outside

LEMMA ReadOpeningQuote ==
  ASSUME NEW tokens
  PROVE  ReadSymbol(Outside(tokens, <<>>), Quote) = Inside(tokens, <<>>)
BY DEF ReadSymbol, Outside, Inside

LEMMA ReadClosingQuote ==
  ASSUME NEW tokens, NEW w
  PROVE  ReadSymbol(Inside(tokens, w), Quote) = Closed(tokens, w)
BY DEF ReadSymbol, Inside, Closed

LEMMA EndOfWord ==
  ASSUME NEW tokens, NEW c
  PROVE  EndToken(Outside(tokens, <<c>>)) = Outside(Append(tokens, <<c>>), <<>>)
<1>1. <<c>> # <<>>
      OBVIOUS
<1> QED BY <1>1 DEF EndToken, Outside

LEMMA SpaceAfterWord ==
  ASSUME NEW tokens, NEW c
  PROVE  ReadSymbol(Outside(tokens, <<c>>), Space) = Outside(Append(tokens, <<c>>), <<>>)
<1>1. Space # Quote /\ Space \in White
      BY DEF Space, Quote, White
<1> QED BY <1>1, EndOfWord DEF ReadSymbol, Outside

LEMMA SpaceAfterQuote ==
  ASSUME NEW tokens, NEW w
  PROVE  ReadSymbol(Closed(tokens, w), Space) = Outside(Append(tokens, w), <<>>)
<1>1. Space # Quote /\ Space \in White
      BY DEF Space, Quote, White
<1>2. EndToken(Closed(tokens, w)) = Outside(Append(tokens, w), <<>>)
      BY DEF EndToken, Closed, Outside
<1> QED BY <1>1, <1>2 DEF ReadSymbol, Closed

\* Between quotes every symbol but a quote is kept.
LEMMA QuotedIsKept ==
  ASSUME NEW S, NEW text \in Seq(S), NEW f, ScanRun(f, text, S),
         NEW m \in Nat, NEW w \in Seq(Plain(S)), NEW tokens,
         m + Len(w) <= Len(text), \A i \in 1..Len(w) : text[m + i] = w[i],
         f[m] = Inside(tokens, <<>>)
  PROVE  f[m + Len(w)] = Inside(tokens, w)
<1> DEFINE N == Len(w)
           T == {n \in 0..N : f[m + n] = Inside(tokens, SubSeq(w, 1, n))}
<1>1. N \in Nat /\ Len(text) \in Nat /\ \A n \in 1..N : w[n] \in Plain(S)
      OBVIOUS
<1>2. 0 \in T
  <2>1. m + 0 = m /\ SubSeq(w, 1, 0) = <<>>
        OBVIOUS
  <2>2. f[m + 0] = Inside(tokens, SubSeq(w, 1, 0))
        BY <2>1
  <2>3. 0 \in 0..N
        BY <1>1
  <2> QED BY <2>2, <2>3
<1>3. ASSUME NEW n \in 1..N, n - 1 \in T
      PROVE  n \in T
  <2>1. f[m + (n - 1)] = Inside(tokens, SubSeq(w, 1, n - 1))
        BY <1>3
  <2>2. m + n \in 1..Len(text) /\ (m + n) - 1 = m + (n - 1)
        BY <1>1
  <2>3. f[m + n] = ReadSymbol(f[m + (n - 1)], w[n])
        BY <2>2 DEF ScanRun
  <2>4. w[n] # Quote
        BY <1>1 DEF Plain
  <2>5. Append(SubSeq(w, 1, n - 1), w[n]) = SubSeq(w, 1, n)
        BY <1>1
  <2>6. ReadSymbol(Inside(tokens, SubSeq(w, 1, n - 1)), w[n]) =
          Inside(tokens, Append(SubSeq(w, 1, n - 1), w[n]))
        BY <2>4 DEF ReadSymbol, Inside
  <2>7. f[m + n] = Inside(tokens, SubSeq(w, 1, n))
        BY <2>1, <2>3, <2>5, <2>6
  <2> QED BY <2>7
<1>4. N \in T
  <2> HIDE DEF T
  <2>1. \A n \in 0..N : n \in T
        BY <1>1, <1>2, <1>3, Induction
  <2> QED BY <1>1, <2>1
<1> QED BY <1>4, SubSeqFull

LEMMA Joined ==
  ASSUME NEW S, NEW s \in Seq(S), NEW t \in Seq(S), NEW u, u = s \o t
  PROVE  /\ u \in Seq(S) /\ Len(u) = Len(s) + Len(t)
         /\ \A i \in 1..Len(s) : u[i] = s[i]
         /\ \A i \in 1..Len(t) : u[Len(s) + i] = t[i]
<1> DEFINE k == Len(s)
           l == Len(t)
<1>1. k \in Nat /\ l \in Nat
      OBVIOUS
<1>2. /\ s \o t \in Seq(S) /\ Len(s \o t) = k + l
      /\ \A i \in 1..(k + l) : (s \o t)[i] = IF i <= k THEN s[i] ELSE t[i - k]
      BY ConcatProperties
<1>3. ASSUME NEW i \in 1..k PROVE (s \o t)[i] = s[i]
      BY <1>1, <1>2
<1>4. ASSUME NEW i \in 1..l PROVE (s \o t)[k + i] = t[i]
  <2>1. k + i \in 1..(k + l) /\ ~(k + i <= k) /\ (k + i) - k = i
        BY <1>1
  <2> QED BY <1>2, <2>1
<1> HIDE DEF k, l
<1> QED BY <1>2, <1>3, <1>4 DEF k, l

Add == "/add"

\* Where the parts of a normalised command are.
LaidOut(text, a, d, c, t) ==
  LET D == Len(d)
      E == Len(d) + Len(c)
  IN /\ Len(text) = E + 11
     /\ text[1] = Add /\ text[2] = Space /\ text[3] = a
     /\ text[4] = Space /\ text[5] = Quote
     /\ \A i \in 1..Len(d) : text[5 + i] = d[i]
     /\ text[D + 6] = Quote /\ text[D + 7] = Space /\ text[D + 8] = Quote
     /\ \A i \in 1..Len(c) : text[(D + 8) + i] = c[i]
     /\ text[E + 9] = Quote /\ text[E + 10] = Space /\ text[E + 11] = t

LEMMA NormalizedSymbols ==
  ASSUME NEW S, {Add, Space, Quote} \subseteq S,
         NEW a \in S, NEW d \in Seq(S), NEW c \in Seq(S), NEW t \in S,
         NEW text, text = Normalized([amount |-> a, description |-> d,
                                      category |-> c, date |-> t])
  PROVE  text \in Seq(S) /\ LaidOut(text, a, d, c, t)
<1> DEFINE D == Len(d)
           C == Len(c)
           p1 == <<Add, Space, a, Space, Quote>>
           p2 == p1 \o d
           q == <<Quote, Space, Quote>>
           p3 == p2 \o q
           p4 == p3 \o c
           r == <<Quote, Space, t>>
           p5 == p4 \o r
<1>2. p1 \in Seq(S) /\ q \in Seq(S) /\ r \in Seq(S)
      OBVIOUS
<1>3. /\ Len(p1) = 5
      /\ p1[1] = Add /\ p1[2] = Space /\ p1[3] = a /\ p1[4] = Space /\ p1[5] = Quote
      OBVIOUS
<1>4. /\ Len(q) = 3 /\ q[1] = Quote /\ q[2] = Space /\ q[3] = Quote
      /\ Len(r) = 3 /\ r[1] = Quote /\ r[2] = Space /\ r[3] = t
      OBVIOUS
<1>5. D \in Nat /\ C \in Nat
      OBVIOUS
<1> HIDE DEF p1, q, r, D, C, p2, p3, p4, p5
<1>6. /\ p2 \in Seq(S) /\ Len(p2) = D + 5
      /\ \A i \in 1..5 : p2[i] = p1[i]
      /\ \A i \in 1..D : p2[5 + i] = d[i]
  <2>1. p2 = p1 \o d
        BY DEF p2
  <2>2. /\ p2 \in Seq(S) /\ Len(p2) = Len(p1) + Len(d)
        /\ \A i \in 1..Len(p1) : p2[i] = p1[i]
        /\ \A i \in 1..Len(d) : p2[Len(p1) + i] = d[i]
        BY <1>2, <2>1, Joined
  <2> QED BY <1>3, <1>5, <2>2 DEF D
<1>7. /\ p3 \in Seq(S) /\ Len(p3) = D + 8
      /\ \A i \in 1..(D + 5) : p3[i] = p2[i]
      /\ \A i \in 1..3 : p3[(D + 5) + i] = q[i]
  <2>0. p2 \in Seq(S)
        BY <1>6
  <2>1. p3 = p2 \o q
        BY DEF p3
  <2>2. /\ p3 \in Seq(S) /\ Len(p3) = Len(p2) + Len(q)
        /\ \A i \in 1..Len(p2) : p3[i] = p2[i]
        /\ \A i \in 1..Len(q) : p3[Len(p2) + i] = q[i]
        BY <1>2, <2>0, <2>1, Joined
  <2>3. Len(q) = 3
        BY <1>4
  <2> QED BY <1>5, <1>6, <2>2, <2>3
<1>8. /\ p4 \in Seq(S) /\ Len(p4) = D + C + 8
      /\ \A i \in 1..(D + 8) : p4[i] = p3[i]
      /\ \A i \in 1..C : p4[(D + 8) + i] = c[i]
  <2>0. p3 \in Seq(S)
        BY <1>7
  <2>1. p4 = p3 \o c
        BY DEF p4
  <2>2. /\ p4 \in Seq(S) /\ Len(p4) = Len(p3) + Len(c)
        /\ \A i \in 1..Len(p3) : p4[i] = p3[i]
        /\ \A i \in 1..Len(c) : p4[Len(p3) + i] = c[i]
        BY <2>0, <2>1, Joined
  <2> QED BY <1>7, <1>5, <2>2 DEF C
<1>9. /\ p5 \in Seq(S) /\ Len(p5) = D + C + 11
      /\ \A i \in 1..(D + C + 8) : p5[i] = p4[i]
      /\ \A i \in 1..3 : p5[(D + C + 8) + i] = r[i]
  <2>0. p4 \in Seq(S)
        BY <1>8
  <2>1. p5 = p4 \o r
        BY DEF p5
  <2>2. /\ p5 \in Seq(S) /\ Len(p5) = Len(p4) + Len(r)
        /\ \A i \in 1..Len(p4) : p5[i] = p4[i]
        /\ \A i \in 1..Len(r) : p5[Len(p4) + i] = r[i]
        BY <1>2, <2>0, <2>1, Joined
  <2>3. Len(r) = 3
        BY <1>4
  <2> QED BY <1>5, <1>8, <2>2, <2>3
<1>10. /\ p5[1] = Add /\ p5[2] = Space /\ p5[3] = a /\ p5[4] = Space /\ p5[5] = Quote
       BY <1>3, <1>5, <1>6, <1>7, <1>8, <1>9
<1>11. \A i \in 1..D : p5[5 + i] = d[i]
  <2> SUFFICES ASSUME NEW i \in 1..D PROVE p5[5 + i] = d[i]
      OBVIOUS
  <2>1. 5 + i \in 1..(D + 5) /\ 5 + i \in 1..(D + 8) /\ 5 + i \in 1..(D + C + 8)
        BY <1>5
  <2>2. p5[5 + i] = p2[5 + i]
        BY <1>7, <1>8, <1>9, <2>1
  <2> QED BY <1>6, <2>2
<1>12. p5[D + 6] = Quote /\ p5[D + 7] = Space /\ p5[D + 8] = Quote
  <2>1. \A i \in 1..3 : (D + 5) + i \in 1..(D + 8) /\ (D + 5) + i \in 1..(D + C + 8)
        BY <1>5
  <2>2. \A i \in 1..3 : p5[(D + 5) + i] = q[i]
        BY <1>7, <1>8, <1>9, <2>1
  <2>3. (D + 5) + 1 = D + 6 /\ (D + 5) + 2 = D + 7 /\ (D + 5) + 3 = D + 8
        BY <1>5
  <2> QED BY <1>4, <2>2, <2>3
<1>13. \A i \in 1..C : p5[(D + 8) + i] = c[i]
  <2> SUFFICES ASSUME NEW i \in 1..C PROVE p5[(D + 8) + i] = c[i]
      OBVIOUS
  <2>1. (D + 8) + i \in 1..(D + C + 8)
        BY <1>5
  <2> QED BY <1>8, <1>9, <2>1
<1>14. p5[D + C + 9] = Quote /\ p5[D + C + 10] = Space /\ p5[D + C + 11] = t
  <2>1. (D + C + 8) + 1 = D + C + 9 /\ (D + C + 8) + 2 = D + C + 10
        /\ (D + C + 8) + 3 = D + C + 11
        BY <1>5
  <2> QED BY <1>4, <1>9, <2>1
<1>15. p5 = text
       BY DEF p5, p4, p3, p2, p1, q, r, Normalized, Add
<1> QED BY <1>9, <1>10, <1>11, <1>12, <1>13, <1>14, <1>15 DEF D, C, LaidOut

LEMMA FiveTokens ==
  ASSUME NEW u, NEW v, NEW x, NEW y, NEW z
  PROVE  Append(Append(Append(Append(Append(<<>>, u), v), x), y), z) = <<u, v, x, y, z>>
<1> DEFINE S == {u, v, x, y, z}
           one == Append(<<>>, u)
           two == Append(one, v)
           three == Append(two, x)
           four == Append(three, y)
           five == Append(four, z)
           all == <<u, v, x, y, z>>
<1>1. one \in Seq(S) /\ Len(one) = 1 /\ one[1] = u
      OBVIOUS
<1>2. all \in Seq(S) /\ Len(all) = 5
      /\ all[1] = u /\ all[2] = v /\ all[3] = x /\ all[4] = y /\ all[5] = z
      OBVIOUS
<1>3. u \in S /\ v \in S /\ x \in S /\ y \in S /\ z \in S
      OBVIOUS
<1> HIDE DEF S, one, two, three, four, five, all
<1>4. ASSUME NEW s \in Seq(S), NEW e \in S, NEW r, r = Append(s, e)
      PROVE  r \in Seq(S) /\ Len(r) = Len(s) + 1 /\ r[Len(s) + 1] = e
             /\ \A k \in 1..Len(s) : r[k] = s[k]
      BY <1>4, AppendProperties
<1>5. two \in Seq(S) /\ Len(two) = 2 /\ two[1] = u /\ two[2] = v
  <2>1. two = Append(one, v)
        BY DEF two
  <2>2. /\ two \in Seq(S) /\ Len(two) = Len(one) + 1 /\ two[Len(one) + 1] = v
        /\ \A k \in 1..Len(one) : two[k] = one[k]
        BY <1>3, <1>1, <1>4, <2>1
  <2> QED BY <1>1, <2>2
<1>6. three \in Seq(S) /\ Len(three) = 3
      /\ three[1] = u /\ three[2] = v /\ three[3] = x
  <2>1. three = Append(two, x)
        BY DEF three
  <2>2. /\ three \in Seq(S) /\ Len(three) = Len(two) + 1 /\ three[Len(two) + 1] = x
        /\ \A k \in 1..Len(two) : three[k] = two[k]
        BY <1>3, <1>5, <1>4, <2>1
  <2> QED BY <1>5, <2>2
<1>7. four \in Seq(S) /\ Len(four) = 4
      /\ four[1] = u /\ four[2] = v /\ four[3] = x /\ four[4] = y
  <2>1. four = Append(three, y)
        BY DEF four
  <2>2. /\ four \in Seq(S) /\ Len(four) = Len(three) + 1 /\ four[Len(three) + 1] = y
        /\ \A k \in 1..Len(three) : four[k] = three[k]
        BY <1>3, <1>6, <1>4, <2>1
  <2> QED BY <1>6, <2>2
<1>8. five \in Seq(S) /\ Len(five) = 5
      /\ five[1] = u /\ five[2] = v /\ five[3] = x /\ five[4] = y /\ five[5] = z
  <2>1. five = Append(four, z)
        BY DEF five
  <2>2. /\ five \in Seq(S) /\ Len(five) = Len(four) + 1 /\ five[Len(four) + 1] = z
        /\ \A k \in 1..Len(four) : five[k] = four[k]
        BY <1>3, <1>7, <1>4, <2>1
  <2> QED BY <1>7, <2>2
<1>9. \A i \in 1..5 : five[i] = all[i]
      BY <1>2, <1>8
<1>10. five = all
      BY <1>2, <1>8, <1>9, SeqEqual
<1> QED BY <1>10 DEF one, two, three, four, five, all

\* The parts of a normalised command are its tokens.
LEMMA NormalizedTokens ==
  ASSUME NEW S, {Add, Space, Quote} \subseteq S,
         NEW a \in Plain(S) \ White, NEW t \in Plain(S) \ White,
         NEW d \in Seq(Plain(S)), NEW c \in Seq(Plain(S)),
         NEW text, text = Normalized([amount |-> a, description |-> d,
                                      category |-> c, date |-> t])
  PROVE  Scan(text) = Outside(<<<<Add>>, <<a>>, d, c, <<t>>>>, <<>>)
<1>1. /\ a \in S /\ t \in S /\ d \in Seq(S) /\ c \in Seq(S)
      /\ a # Quote /\ a \notin White /\ t # Quote /\ t \notin White
      BY SeqMonotonic DEF Plain
<1>2. PICK D, E : D = Len(d) /\ E = Len(d) + Len(c)
      OBVIOUS
<1>3. /\ text \in Seq(S) /\ Len(text) = E + 11
      /\ text[1] = Add /\ text[2] = Space /\ text[3] = a
      /\ text[4] = Space /\ text[5] = Quote
      /\ \A i \in 1..Len(d) : text[5 + i] = d[i]
      /\ text[D + 6] = Quote /\ text[D + 7] = Space /\ text[D + 8] = Quote
      /\ \A i \in 1..Len(c) : text[(D + 8) + i] = c[i]
      /\ text[E + 9] = Quote /\ text[E + 10] = Space /\ text[E + 11] = t
  <2>1. text \in Seq(S) /\ LaidOut(text, a, d, c, t)
        BY <1>1, NormalizedSymbols
  <2> QED BY <1>2, <2>1 DEF LaidOut
<1>4. D \in Nat /\ E \in Nat /\ D <= E
      BY <1>2
<1>5. PICK f : ScanRun(f, text, S) /\ Scan(text) = EndToken(f[Len(text)])
      BY <1>3, ScanHasRun
<1>6. ASSUME NEW n \in 1..(E + 11)
      PROVE  f[n] = ReadSymbol(f[n - 1], text[n])
      BY <1>3, <1>5 DEF ScanRun
<1>7. /\ f[0] = Outside(<<>>, <<>>)
      /\ f[1] = ReadSymbol(f[0], Add) /\ f[2] = ReadSymbol(f[1], Space)
      /\ f[3] = ReadSymbol(f[2], a) /\ f[4] = ReadSymbol(f[3], Space)
      /\ f[5] = ReadSymbol(f[4], Quote)
  <2>1. f[0] = Outside(<<>>, <<>>)
        BY <1>5 DEF ScanRun, Unread, Outside
  <2>2. /\ f[1] = ReadSymbol(f[0], text[1]) /\ f[2] = ReadSymbol(f[1], text[2])
        /\ f[3] = ReadSymbol(f[2], text[3]) /\ f[4] = ReadSymbol(f[3], text[4])
        /\ f[5] = ReadSymbol(f[4], text[5])
        BY <1>4, <1>6
  <2> QED BY <1>3, <2>1, <2>2
<1>8. /\ f[D + 6] = ReadSymbol(f[D + 5], Quote) /\ f[D + 7] = ReadSymbol(f[D + 6], Space)
      /\ f[D + 8] = ReadSymbol(f[D + 7], Quote)
  <2>1. /\ D + 6 \in 1..(E + 11) /\ (D + 6) - 1 = D + 5
        /\ D + 7 \in 1..(E + 11) /\ (D + 7) - 1 = D + 6
        /\ D + 8 \in 1..(E + 11) /\ (D + 8) - 1 = D + 7
        BY <1>4
  <2> QED BY <1>3, <1>6, <2>1
<1>9. /\ f[E + 9] = ReadSymbol(f[E + 8], Quote) /\ f[E + 10] = ReadSymbol(f[E + 9], Space)
      /\ f[E + 11] = ReadSymbol(f[E + 10], t)
  <2>1. /\ E + 9 \in 1..(E + 11) /\ (E + 9) - 1 = E + 8
        /\ E + 10 \in 1..(E + 11) /\ (E + 10) - 1 = E + 9
        /\ E + 11 \in 1..(E + 11) /\ (E + 11) - 1 = E + 10
        BY <1>4
  <2> QED BY <1>3, <1>6, <2>1
<1>10. Add # Quote /\ Add \notin White
       BY DEF Add, Quote, White, Space
<1> DEFINE one == Append(<<>>, <<Add>>)
           two == Append(one, <<a>>)
           three == Append(two, d)
           four == Append(three, c)
           five == Append(four, <<t>>)
<1> HIDE DEF one, two, three, four, five
<1>11. f[1] = Outside(<<>>, <<Add>>)
       BY <1>7, <1>10, ReadPlain
<1>12. f[2] = Outside(one, <<>>)
       BY <1>7, <1>11, SpaceAfterWord DEF one
<1>13. f[3] = Outside(one, <<a>>)
       BY <1>1, <1>7, <1>12, ReadPlain
<1>14. f[4] = Outside(two, <<>>)
       BY <1>7, <1>13, SpaceAfterWord DEF two
<1>15. f[5] = Inside(two, <<>>)
       BY <1>7, <1>14, ReadOpeningQuote
<1>16. f[D + 5] = Inside(two, d)
  <2>1. 5 \in Nat /\ 5 + Len(d) <= Len(text) /\ 5 + Len(d) = D + 5
        BY <1>2, <1>3, <1>4
  <2>2. text \in Seq(S) /\ \A i \in 1..Len(d) : text[5 + i] = d[i]
        BY <1>3
  <2>3. f[5 + Len(d)] = Inside(two, d)
        BY <1>5, <1>15, <2>1, <2>2, QuotedIsKept
  <2> QED BY <2>1, <2>3
<1>17. f[D + 6] = Closed(two, d)
       BY <1>8, <1>16, ReadClosingQuote
<1>18. f[D + 7] = Outside(three, <<>>)
       BY <1>8, <1>17, SpaceAfterQuote DEF three
<1>19. f[D + 8] = Inside(three, <<>>)
       BY <1>8, <1>18, ReadOpeningQuote
<1>20. f[E + 8] = Inside(three, c)
  <2>1. /\ D + 8 \in Nat /\ (D + 8) + Len(c) <= Len(text)
        /\ (D + 8) + Len(c) = E + 8
        BY <1>2, <1>3, <1>4
  <2>2. text \in Seq(S) /\ \A i \in 1..Len(c) : text[(D + 8) + i] = c[i]
        BY <1>3
  <2>3. f[(D + 8) + Len(c)] = Inside(three, c)
        BY <1>5, <1>19, <2>1, <2>2, QuotedIsKept
  <2> QED BY <2>1, <2>3
<1>21. f[E + 9] = Closed(three, c)
       BY <1>9, <1>20, ReadClosingQuote
<1>22. f[E + 10] = Outside(four, <<>>)
       BY <1>9, <1>21, SpaceAfterQuote DEF four
<1>23. f[E + 11] = Outside(four, <<t>>)
       BY <1>1, <1>9, <1>22, ReadPlain
<1>24. Scan(text) = Outside(five, <<>>)
       BY <1>3, <1>5, <1>23, EndOfWord DEF five
<1>25. five = <<<<Add>>, <<a>>, d, c, <<t>>>>
      BY FiveTokens DEF one, two, three, four, five
<1> QED BY <1>24, <1>25

-----------------------------------------------------------------------------
(* A command and what its normalised form is parsed to                     *)

Five(s, u, v, x, y, z) ==
  /\ s # <<>> /\ Len(s) = 5
  /\ s[1] = u /\ s[2] = v /\ s[3] = x
  /\ SubSeq(s, 4, Len(s)) = <<y, z>>

LEMMA FiveAre ==
  ASSUME NEW u, NEW v, NEW x, NEW y, NEW z, NEW s, s = <<u, v, x, y, z>>
  PROVE  Five(s, u, v, x, y, z)
<1>1. s # <<>> /\ Len(s) = 5
      OBVIOUS
<1>2. s[1] = u /\ s[2] = v /\ s[3] = x /\ s[4] = y /\ s[5] = z
      OBVIOUS
<1> DEFINE S == {u, v, x, y, z}
           r == SubSeq(s, 4, 5)
           q == <<y, z>>
<1>3. s \in Seq(S)
      OBVIOUS
<1>4. q \in Seq(S) /\ Len(q) = 2 /\ q[1] = y /\ q[2] = z
      OBVIOUS
<1> HIDE DEF S, q
<1>5. r \in Seq(S) /\ Len(r) = 2 /\ r[1] = s[4] /\ r[2] = s[5]
      BY <1>1, <1>3
<1> HIDE DEF r
<1>6. \A i \in 1..2 : r[i] = q[i]
      BY <1>2, <1>4, <1>5
<1>7. r = q
      BY <1>4, <1>5, <1>6, SeqEqual
<1> QED BY <1>1, <1>2, <1>7 DEF r, q, Five

\* Two tokens after the description are a category and a date.
LEMMA RemainderOfTwo ==
  ASSUME NEW c, NEW t
  PROVE  Remainder(<<c, t>>) = [category |-> <<c>>, date |-> <<t>>]
<1> DEFINE rest == <<c, t>>
<1>1. rest # <<>> /\ Len(rest) = 2 /\ rest[1] = c /\ Tail(rest) = <<t>>
      OBVIOUS
<1> HIDE DEF rest
<1>2. Remainder(rest) = [category |-> <<rest[1]>>, date |-> Tail(rest)]
      BY <1>1 DEF Remainder
<1> QED BY <1>1, <1>2 DEF rest

\* A command as the parser makes it, of symbols of S.
Command(a, d, c, t) == [amount |-> a, description |-> d, category |-> c, date |-> t]

Canonical(S, a, d, c, t) ==
  /\ a \in {AmountText[x] : x \in DOMAIN AmountText} /\ t \in DateSymbols
  /\ d \in Seq(Plain(S)) /\ Trimmed(d) /\ Len(d) \in 1..MaxDescription
  /\ c \in Seq(Plain(S)) /\ Trimmed(c) /\ Len(c) \in 1..MaxCategory

\* The symbols the parser's own words are made of.
Words == {Add, Space, "1.50", "Uncategorized"} \union DateSymbols

LEMMA CanonicalSymbols ==
  ASSUME NEW S, Words \subseteq S, NEW a, NEW d, NEW c, NEW t, Canonical(S, a, d, c, t)
  PROVE  a = "1.50" /\ a \in Plain(S) \ White /\ t \in Plain(S) \ White
<1>1. a = "1.50"
      BY DEF Canonical, AmountText
<1>2. "1.50" # Quote /\ "1.50" \notin White /\ "1.50" \in Words
      BY DEF Quote, White, Space, Words
<1>3. \A x \in DateSymbols : x # Quote /\ x \notin White /\ x \in Words
      BY DEF DateSymbols, Today, Quote, White, Space, Words
<1> QED BY <1>1, <1>2, <1>3 DEF Canonical, Plain

\* The parser makes of a normalised command the command it was made from.
LEMMA CommandIsParsed ==
  ASSUME NEW S, Words \subseteq S, Quote \in S,
         NEW a, NEW d, NEW c, NEW t, Canonical(S, a, d, c, t)
  PROVE  Parse(Normalized(Command(a, d, c, t))) =
           [kind |-> "Add", add |-> Command(a, d, c, t)]
<1> DEFINE text == Normalized(Command(a, d, c, t))
           all == <<<<Add>>, <<a>>, d, c, <<t>>>>
           args == Remainder(SubSeq(all, 4, Len(all)))
<1>1. /\ a = "1.50" /\ a \in Plain(S) \ White /\ t \in Plain(S) \ White
      /\ d \in Seq(Plain(S)) /\ c \in Seq(Plain(S)) /\ t \in DateSymbols
      BY CanonicalSymbols DEF Canonical
<1>2. Scan(text) = Outside(all, <<>>)
  <2>1. {Add, Space, Quote} \subseteq S
        BY DEF Words
  <2>2. text = Normalized([amount |-> a, description |-> d, category |-> c, date |-> t])
        BY DEF Command
  <2> HIDE DEF text
  <2> QED BY <1>1, <2>1, <2>2, NormalizedTokens
<1>3. /\ all # <<>> /\ Len(all) = 5
      /\ all[1] = <<Add>> /\ all[2] = <<a>> /\ all[3] = d
      /\ SubSeq(all, 4, Len(all)) = <<c, <<t>>>>
  <2>1. all = <<<<Add>>, <<a>>, d, c, <<t>>>>
        OBVIOUS
  <2> HIDE DEF all
  <2>2. Five(all, <<Add>>, <<a>>, d, c, <<t>>)
        BY <2>1, FiveAre
  <2> QED BY <2>2 DEF Five
<1>4. args = [category |-> <<c>>, date |-> <<<<t>>>>]
      BY <1>3, RemainderOfTwo
<1>5. NormalizeWhitespace(d) = d /\ NormalizeWhitespace(c) = c
  <2>1. Space \in Plain(S)
        BY DEF Plain, Words, Space, Quote
  <2> QED BY <1>1, <2>1, TrimmedIsNormal DEF Canonical
<1> HIDE DEF all, args, text
<1>6. args.category # <<>> /\ args.category[1] = c /\ args.date # <<>> /\ args.date[1] = <<t>>
      BY <1>4
<1>7. /\ AmountError(<<a>>) = NoError /\ DescriptionError(d) = NoError
      /\ CategoryError(c) = NoError /\ DateError(<<t>>) = NoError
  <2>1. AmountError(<<a>>) = NoError
        BY <1>1 DEF AmountError, AmountText
  <2>2. DescriptionError(d) = NoError
        BY <1>5 DEF Canonical, DescriptionError
  <2>3. CategoryError(c) = NoError
        BY <1>5 DEF Canonical, CategoryError
  <2>4. DateError(<<t>>) = NoError
        BY <1>1 DEF DateError
  <2> QED BY <2>1, <2>2, <2>3, <2>4
<1>8. AddError(all) = NoError
      BY <1>3, <1>6, <1>7 DEF AddError, args
<1>9. AddCommand(all) = Command(a, d, c, t)
  <2>1. AmountText[all[2][1]] = a
    <3>1. <<a>>[1] = a
          OBVIOUS
    <3> QED BY <1>1, <1>3, <3>1 DEF AmountText
  <2>2. <<t>>[1] = t
        OBVIOUS
  <2> QED BY <1>3, <1>5, <1>6, <2>1, <2>2 DEF AddCommand, Command, args
<1>10. Parse(text) = [kind |-> "Add", add |-> AddCommand(all)]
  <2>1. Scan(text).tokens = all /\ ~Scan(text).inQuotes
        BY <1>2 DEF Outside
  <2>2. <<Add>> = <<"/add">> /\ <<Add>> # <<"/help">>
        BY DEF Add
  <2> QED BY <1>3, <1>8, <2>1, <2>2 DEF Parse
<1> QED BY <1>9, <1>10 DEF text

\* What the parser makes of a text is a command of this kind.
LEMMA ParsedCommand ==
  ASSUME NEW S, Words \subseteq S, NEW text \in Seq(S), Parse(text).kind = "Add"
  PROVE  \E a, d, c, t : /\ Canonical(S, a, d, c, t)
                         /\ Parse(text) = [kind |-> "Add", add |-> Command(a, d, c, t)]
<1> DEFINE tokens == Scan(text).tokens
           args == Remainder(SubSeq(tokens, 4, Len(tokens)))
           a == AmountText[tokens[2][1]]
           d == NormalizeWhitespace(tokens[3])
           c == IF args.category = <<>> THEN DefaultCategory
                ELSE NormalizeWhitespace(args.category[1])
           t == IF args.date = <<>> THEN Today ELSE args.date[1][1]
<1>1. tokens \in Seq(Seq(Plain(S)))
      BY ScanType DEF ScanState
<1>2. Space \in Plain(S) /\ "Uncategorized" \in Plain(S)
      BY DEF Plain, Words, Space, Quote
<1>3. /\ Parse(text) = [kind |-> "Add", add |-> Command(a, d, c, t)]
      /\ AddError(tokens) = NoError
      BY DEF Parse, Reject, AddCommand, Command
<1> HIDE DEF tokens
<1>4. /\ Len(tokens) >= 3 /\ AmountError(tokens[2]) = NoError
      /\ DescriptionError(tokens[3]) = NoError
      /\ args.category # <<>> => CategoryError(args.category[1]) = NoError
      /\ args.date # <<>> => DateError(args.date[1]) = NoError
  <2>1. Len(tokens) \in Nat
        BY <1>1
  <2> QED BY <1>3, <2>1 DEF AddError, NoError
<1>5. args.category # <<>> => args.category[1] \in Seq(Plain(S))
  <2> DEFINE rest == SubSeq(tokens, 4, Len(tokens))
  <2>1. CASE Len(tokens) <= 3
    <3>1. rest = <<>>
          BY <1>1, <2>1
    <3> QED BY <3>1 DEF Remainder
  <2>2. CASE Len(tokens) > 3
    <3>1. rest[1] = tokens[4] /\ tokens[4] \in Seq(Plain(S))
          BY <1>1, <2>2
    <3>2. args.category = <<>> \/ args.category = <<rest[1]>>
          BY DEF Remainder
    <3>3. <<rest[1]>>[1] = rest[1]
          OBVIOUS
    <3> HIDE DEF args, rest
    <3> QED BY <3>1, <3>2, <3>3
  <2>3. Len(tokens) \in Nat
        BY <1>1
  <2> QED BY <2>1, <2>2, <2>3
<1> HIDE DEF args
<1>6. a \in {AmountText[x] : x \in DOMAIN AmountText}
  <2>1. PICK x \in DOMAIN AmountText : tokens[2] = <<x>>
        BY <1>4 DEF AmountError, NoError
  <2> QED BY <2>1
<1>7. t \in DateSymbols
  <2>1. CASE args.date = <<>>
        BY <2>1 DEF DateSymbols
  <2>2. CASE args.date # <<>>
    <3>1. PICK x \in DateSymbols : args.date[1] = <<x>>
          BY <1>4, <2>2 DEF DateError, NoError
    <3> QED BY <2>2, <3>1
  <2> QED BY <2>1, <2>2
<1>8. d \in Seq(Plain(S)) /\ Trimmed(d) /\ Len(d) \in 1..MaxDescription
  <2>1. tokens[3] \in Seq(Plain(S))
        BY <1>1, <1>4
  <2>2. d \in Seq(Plain(S)) /\ Trimmed(d)
        BY <1>2, <2>1, NormalizeTrims
  <2>3. Len(d) \in 1..MaxDescription
        BY <1>4 DEF DescriptionError, NoError
  <2> QED BY <2>2, <2>3
<1>9. c \in Seq(Plain(S)) /\ Trimmed(c) /\ Len(c) \in 1..MaxCategory
  <2>1. CASE args.category = <<>>
    <3>1. DefaultCategory \in Seq(Plain(S)) /\ Len(DefaultCategory) = 1
          BY <1>2 DEF DefaultCategory
    <3>2. DefaultCategory[1] \notin White
          BY DEF DefaultCategory, White, Space
    <3>3. Trimmed(DefaultCategory)
          BY <3>1, <3>2 DEF Trimmed, Tidy
    <3>4. c = DefaultCategory
          BY <2>1
    <3> HIDE DEF c
    <3>5. Len(c) \in 1..MaxCategory
      <4>1. 1 \in 1..MaxCategory
            BY LimitAssumption
      <4> QED BY <3>1, <3>4, <4>1
    <3> QED BY <3>1, <3>3, <3>4, <3>5
  <2>2. CASE args.category # <<>>
    <3>1. c = NormalizeWhitespace(args.category[1])
          BY <2>2
    <3>2. c \in Seq(Plain(S)) /\ Trimmed(c)
          BY <1>2, <1>5, <2>2, <3>1, NormalizeTrims
    <3>3. Len(c) \in 1..MaxCategory
          BY <1>4, <2>2, <3>1 DEF CategoryError, NoError
    <3> QED BY <3>2, <3>3
  <2> QED BY <2>1, <2>2
<1>10. Canonical(S, a, d, c, t)
       BY <1>6, <1>7, <1>8, <1>9 DEF Canonical
<1> HIDE DEF a, d, c, t
<1> QED BY <1>3, <1>10

\* NormalizedCommand says what the text says: whatever white space, quotes and
\* defaults the text had, the parser makes the same command of it again.
THEOREM ParsesBack ==
  ASSUME NEW text \in Seq(STRING), Parse(text).kind = "Add"
  PROVE  Parse(Normalized(Parse(text).add)) = Parse(text)
<1> DEFINE S == STRING \union Words \union {Quote}
<1>1. text \in Seq(S) /\ Words \subseteq S /\ Quote \in S
  <2>1. STRING \subseteq S
        OBVIOUS
  <2> QED BY <2>1, SeqMonotonic
<1> HIDE DEF S
<1>2. PICK a, d, c, t : /\ Canonical(S, a, d, c, t)
                        /\ Parse(text) = [kind |-> "Add", add |-> Command(a, d, c, t)]
      BY <1>1, ParsedCommand
<1>3. Parse(text).add = Command(a, d, c, t)
      BY <1>2
<1>4. Parse(Normalized(Command(a, d, c, t))) =
        [kind |-> "Add", add |-> Command(a, d, c, t)]
      BY <1>1, <1>2, CommandIsParsed
<1> QED BY <1>2, <1>3, <1>4
=============================================================================
