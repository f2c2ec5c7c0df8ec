-------------------------- MODULE MCTelegramIngest --------------------------
(* Instance of TelegramIngest for TLC: two updates.  The first carries an   *)
(* /add with each tail of up to TailCap symbols, or one of some other       *)
(* texts; the second one of a few texts, from the same sender or another.   *)
EXTENDS TelegramIngest

CONSTANTS TailCap, anna, ben, chat1

Words(text) == [k \in 1..2 * Len(text) - 1 |->
                 IF k % 2 = 1 THEN text[(k + 1) \div 2] ELSE Space]

Tails == UNION {[1..n -> {Quote, Space, "w", "2026-02-11"}] : n \in 0..TailCap}

OtherTexts == {
  <<>>, <<Space>>, <<"/help">>, <<Quote, "/help">>, Words(<<"w", "1.5", "w">>),
  <<"/add">>, Words(<<"/add", "w", "w">>), Words(<<"/add", "0.00", "w">>),
  Words(<<"/add", "1.50", "w", "2026-02-30">>),
  Words(<<"/add", "1.50", "w", "1999-12-31">>),
  Words(<<"/add", "1.50", "w", "2026-02-11", "today">>),
  Words(<<"/add", "1.50", "w", "w", "w">>),
  Words(<<"/add", "1.50", "w", "w", "2026-02-11", "w">>),
  <<"\t", "/add", "\t", "1.5", Space, Quote, "\t", "w", Space, "\t", "w", Quote,
    Space, Quote, Space, "w", Quote, Space, "2026-02-11", Space>>,
  <<"/add", Space, "1.5", Space, "w", Space, Quote, "w", Space, "w", Quote>>,
  <<"/add", Space, "1.5", Space, "w", Quote, Space, "w", "w", "w", Quote>>}

FirstTexts ==
  OtherTexts \union {Words(<<"/add", "1.5">>) \o <<Space>> \o t : t \in Tails}

SecondTexts == {
  <<"/help">>, <<"/add">>, Words(<<"/add", "1.50", "w", "W">>)}

MCInbox ==
  {[i \in UpdateId |->
     IF i = 1 THEN [text |-> t, from |-> anna, chat |-> NoChat]
     ELSE [text |-> u, from |-> s, chat |-> chat1]] :
    t \in FirstTexts, u \in SecondTexts, s \in Sender}
=============================================================================
