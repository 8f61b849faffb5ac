--------------------------- MODULE MCTriggerIngress ---------------------------
(***************************************************************************)
(* Two connectors, two conversations and a few telling messages.  The      *)
(* assumption compares the scanner with its reference on every message of  *)
(* up to four chunks and a phrase.                                         *)
(***************************************************************************)
EXTENDS TriggerIngress, TLC

CONSTANTS s1, s2, k1, k2, c1, c2

TwoServers == {s1, s2}
TwoKeys == {k1, k2}
TwoConversations == {c1, c2}

Body(text) == [source |-> "user_body", text |-> text]
Attached(text) == [source |-> "attachment", text |-> text]
Phrase == <<"head", "tail">>

\* Nothing closes the back-ticks, and the next line asks, across two segments.
Unclosed == <<Body(<<"t1", "word", "t2">> \o Phrase \o <<"nl", "head">>), Body(<<"tail">>)>>

\* A fence that stays open across an attachment and is closed, then asked for.
Fenced == <<Body(<<"t3", "nl">> \o Phrase), Attached(<<"t3">>),
            Body(Phrase \o <<"nl", "t4", "nl">> \o Phrase)>>

\* Only quoted and attached.
Unasked == <<Body(<<"quote">> \o Phrase), Attached(Phrase)>>

Messages == {Unclosed, Fenced, Unasked}

Symmetry == Permutations(TwoServers) \cup Permutations(TwoKeys)
              \cup Permutations(TwoConversations)

-----------------------------------------------------------------------------
Chunk == {<<t>> : t \in Token} \cup {Phrase} \cup {<<source>> : source \in Source}

Compose(chunks) ==
  LET Add(message, chunk) ==
        IF chunk[1] \in Source THEN Append(message, [source |-> chunk[1], text |-> <<>>])
        ELSE [message EXCEPT ![Len(message)].text = @ \o chunk]
  IN  FoldLeft(Add, <<Body(<<>>)>>, chunks)

\* Two runs of one mark do not touch.
IsTokenised(message) ==
  LET text == Text(message)
  IN  \A p \in 1..Len(text) - 1 :
        text[p].piece = text[p + 1].piece =>
          \A kind \in {DOMAIN BackTicks, {"tilde"}} :
            ~({text[p].token, text[p + 1].token} \subseteq kind)

ASSUME ScannerFindsTopLevel ==
  \A n \in 0..4 : \A chunks \in [1..n -> Chunk] :
    LET message == Compose(Append(chunks, Phrase))
    IN  IsTokenised(message) => Eligible(message) = TopLevel(message)
=============================================================================
