--------------------------- MODULE TelegramParser ---------------------------
(***************************************************************************)
(* TelegramCommandParser: from the text of a message to a command.         *)
(*                                                                         *)
(* A text is a sequence of symbols.  A symbol is a quote, a white space,   *)
(* or a run of other characters that matters as a whole: a command name,   *)
(* an amount, a date, a piece of a word.  Lengths count symbols.           *)
(***************************************************************************)
EXTENDS Naturals, SequencesExt

CONSTANTS MaxDescription, MaxCategory     \* 50 and 30 characters in the code

ASSUME LimitAssumption == MaxDescription \in Nat /\ MaxCategory \in Nat \ {0}

Quote == "\""
Space == " "
White == {Space, "\t"}

Today == "today"
DateSymbols == {Today, "2026-02-11"}            \* dates in the allowed range
OldDate == "1999-12-31"                         \* a date out of range
NoDate == "2026-02-30"                          \* only looks like a date
DefaultCategory == <<"Uncategorized">>

\* What ToString("0.00") makes of the amounts that are in range.
AmountText == [a \in {"1.5", "1.50"} |-> "1.50"]
OutOfRange == {"0.00"}

\* ToUpperInvariant, on the words that differ only by their case.
Upper(name) == [k \in DOMAIN name |-> IF name[k] = "w" THEN "W" ELSE name[k]]

-----------------------------------------------------------------------------
(* Tokens                                                                  *)

\* White space ends a token; a token that was opened by a quote may be empty.
EndToken(s) ==
  IF s.current # <<>> \/ s.startedWithQuote
  THEN [s EXCEPT !.tokens = Append(@, s.current),
                 !.current = <<>>,
                 !.startedWithQuote = FALSE]
  ELSE s

ReadSymbol(s, c) ==
  IF c = Quote
  THEN [s EXCEPT !.inQuotes = ~@,
                 !.startedWithQuote = IF s.inQuotes THEN @ ELSE s.current = <<>>]
  ELSE IF c \in White /\ ~s.inQuotes THEN EndToken(s)
  ELSE [s EXCEPT !.current = Append(@, c)]

Unread == [tokens |-> <<>>, current |-> <<>>,
           inQuotes |-> FALSE, startedWithQuote |-> FALSE]

\* The scanner's state after a text; a quote left open makes the text invalid.
Scan(text) ==
  LET after[n \in 0..Len(text)] ==
        IF n = 0 THEN Unread ELSE ReadSymbol(after[n - 1], text[n])
  IN EndToken(after[Len(text)])

Collapse(s, c) ==
  IF c \notin White THEN Append(s, c)
  ELSE IF s = <<>> \/ Last(s) = Space THEN s
  ELSE Append(s, Space)

Collapsed(token) ==
  LET after[n \in 0..Len(token)] ==
        IF n = 0 THEN <<>> ELSE Collapse(after[n - 1], token[n])
  IN after[Len(token)]

NormalizeWhitespace(token) ==
  LET s == Collapsed(token) IN
  IF s # <<>> /\ Last(s) = Space THEN Front(s) ELSE s

-----------------------------------------------------------------------------
(* Commands                                                                *)

NoError == "none"

Reject(code) == [kind |-> "Reject", error |-> code]

LooksLikeDateToken(token) ==
  token \in {<<d>> : d \in DateSymbols \union {OldDate, NoDate}}

DateError(token) ==
  IF token \in {<<d>> : d \in DateSymbols} THEN NoError
  ELSE IF token = <<OldDate>> THEN "ERR_DATE_RANGE"
  ELSE "ERR_DATE_INVALID"

\* Any token but a valid amount is refused; a number too large for a decimal
\* is no amount, too.
AmountError(token) ==
  IF token \in {<<a>> : a \in DOMAIN AmountText} THEN NoError
  ELSE IF token \in {<<a>> : a \in OutOfRange} THEN "ERR_AMOUNT_RANGE"
  ELSE "ERR_AMOUNT_INVALID"

\* Variant: the length is taken before the white space is normalised.
DescriptionErrorRaw(token) ==
  IF Len(token) \in 1..MaxDescription THEN NoError
  ELSE IF token = <<>> THEN "ERR_DESCRIPTION_REQUIRED" ELSE "ERR_DESCRIPTION_LENGTH"

DescriptionError(token) ==
  LET description == NormalizeWhitespace(token) IN
  IF Len(description) \in 1..MaxDescription THEN NoError
  ELSE IF description = <<>> THEN "ERR_DESCRIPTION_REQUIRED" ELSE "ERR_DESCRIPTION_LENGTH"

CategoryError(token) ==
  IF Len(NormalizeWhitespace(token)) \in 1..MaxCategory
  THEN NoError ELSE "ERR_CATEGORY_LENGTH"

\* The category and the date a command names; <<>> stands for one it leaves out.
\* A single token is a date if it looks like one.
Remainder(rest) ==
  IF rest = <<>> THEN [category |-> <<>>, date |-> <<>>]
  ELSE IF Len(rest) = 1 /\ LooksLikeDateToken(rest[1])
  THEN [category |-> <<>>, date |-> <<rest[1]>>]
  ELSE [category |-> <<rest[1]>>, date |-> Tail(rest)]

\* The first thing that is wrong with the tokens after /add.
AddError(tokens) ==
  LET args == Remainder(SubSeq(tokens, 4, Len(tokens))) IN
  IF Len(tokens) < 2 THEN "ERR_AMOUNT_REQUIRED"
  ELSE IF AmountError(tokens[2]) # NoError THEN AmountError(tokens[2])
  ELSE IF Len(tokens) < 3 THEN "ERR_DESCRIPTION_REQUIRED"
  ELSE IF DescriptionError(tokens[3]) # NoError THEN DescriptionError(tokens[3])
  ELSE IF Len(tokens) > 5 THEN "ERR_FORMAT"
  ELSE IF args.category # <<>> /\ CategoryError(args.category[1]) # NoError
  THEN CategoryError(args.category[1])
  ELSE IF args.date # <<>> THEN DateError(args.date[1])
  ELSE NoError

AddCommand(tokens) ==
  LET args == Remainder(SubSeq(tokens, 4, Len(tokens))) IN
  [amount      |-> AmountText[tokens[2][1]],
   description |-> NormalizeWhitespace(tokens[3]),
   category    |-> IF args.category = <<>> THEN DefaultCategory
                   ELSE NormalizeWhitespace(args.category[1]),
   date        |-> IF args.date = <<>> THEN Today ELSE args.date[1][1]]

\* Variant: the fields are written as they are, without quotes.
NormalizedUnquoted(add) ==
  <<"/add", Space, add.amount, Space>> \o add.description \o
  <<Space>> \o add.category \o <<Space, add.date>>

\* NormalizedCommand: a text that says the same as the command.
Normalized(add) ==
  <<"/add", Space, add.amount, Space, Quote>> \o add.description \o
  <<Quote, Space, Quote>> \o add.category \o <<Quote, Space, add.date>>

Parse(text) ==
  LET scan == Scan(text)
      tokens == scan.tokens
  IN IF scan.inQuotes \/ tokens = <<>> THEN Reject("ERR_FORMAT")
     ELSE IF tokens[1] = <<"/help">> THEN [kind |-> "Help"]
     ELSE IF tokens[1] # <<"/add">> THEN Reject("ERR_FORMAT")
     ELSE IF AddError(tokens) # NoError THEN Reject(AddError(tokens))
     ELSE [kind |-> "Add", add |-> AddCommand(tokens)]
=============================================================================
