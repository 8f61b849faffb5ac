---------------------------- MODULE TriggerPhrase ----------------------------
(***************************************************************************)
(* Where the trigger phrase counts (application/trigger.py): in the        *)
(* natural language of the user's message, outside fenced and inline code, *)
(* quotes and indented code, and outside every segment of another source.  *)
(*                                                                         *)
(* A message is a sequence of segments; the text of a segment is a         *)
(* sequence of tokens, as coarse as the scanner's distinctions: the two    *)
(* halves of the phrase, runs of back-ticks by length, a run of tildes, a  *)
(* quote mark, an indentation, a line end, and words.  A run of marks is   *)
(* one token, so two of them are never adjacent.  Offsets count tokens.    *)
(***************************************************************************)
EXTENDS Integers, Sequences, SequencesExt, FiniteSetsExt

BackTicks == [t1 |-> 1, t2 |-> 2, t3 |-> 3, t4 |-> 4]

Marks == DOMAIN BackTicks \cup {"tilde"}

Token == Marks \cup {"word", "head", "tail", "quote", "indent", "nl"}

\* SEGMENT_SOURCES; the five that are excluded are alike.
Source == {"user_body", "attachment"}

Segment == [source : Source, text : Seq(Token)]

-----------------------------------------------------------------------------
\* Adjacent body segments are one piece, every other segment is its own.
Piece(message, i) ==
  Cardinality({j \in 2..i : {message[j].source, message[j - 1].source} # {"user_body"}})

\* The message as one text, each token with the piece it is of.
Text(message) ==
  FlattenSeq([i \in DOMAIN message |->
    [n \in DOMAIN message[i].text |->
       [token |-> message[i].text[n], from |-> message[i].source, piece |-> Piece(message, i)]]])

\* splitlines, within a piece
StartsLine(text, p) ==
  text[p].from = "user_body" /\ (p > 1 => \/ text[p - 1].token = "nl"
                                          \/ text[p - 1].piece # text[p].piece)

LineStarts(text) == {p \in DOMAIN text : StartsLine(text, p)}

\* Up to the next line or to the end of the piece.
Line(text, p) ==
  {q \in p..Len(text) : /\ text[q].piece = text[p].piece
                        /\ \A r \in p + 1..q : ~StartsLine(text, r)}

PhraseAt(text, p) ==
  p < Len(text) /\ text[p].token = "head" /\ text[p + 1].token = "tail"

IsFence(token) == token \in {"t3", "t4", "tilde"}

\* A fence is closed by its own character, in at least its own length.
ClosesFence(open, token) ==
  IF open = "tilde" THEN token = "tilde"
  ELSE token \in DOMAIN BackTicks /\ BackTicks[token] >= BackTicks[open]

\* The next run of back-ticks as long as the one at "open".
Closers(text, line, open) == {p \in line : p > open /\ text[p].token = text[open].token}

\* A run of back-ticks excludes all up to its closer, or the rest of the line.
CodeFrom(text, line, open) ==
  IF Closers(text, line, open) = {} THEN open..Max(line)
  ELSE open..Min(Closers(text, line, open))

\* _inline_code_ranges
InlineCode(text, line) ==
  LET runs == {p \in line : text[p].token \in DOMAIN BackTicks}
      from[p \in Nat] ==
        LET open == Min({r \in runs : r >= p})
            code == CodeFrom(text, line, open)
        IN  IF \A r \in runs : r < p THEN {} ELSE code \cup from[Max(code) + 1]
  IN  from[0]

Scanning == [fence |-> "none", found |-> {}]

\* One line of the body; the fence is open or not across pieces.
Scan(text, state, p) ==
  LET first == text[p].token
      line == Line(text, p)
  IN  CASE state.fence # "none" ->
             IF IsFence(first) /\ ClosesFence(state.fence, first)
             THEN [state EXCEPT !.fence = "none"] ELSE state
        [] state.fence = "none" /\ IsFence(first) -> [state EXCEPT !.fence = first]
        [] state.fence = "none" /\ first \in {"quote", "indent"} -> state
        [] OTHER ->
             [state EXCEPT !.found = @ \cup {q \in line \ InlineCode(text, line) :
                                               q + 1 \in line /\ PhraseAt(text, q)}]

\* _eligible_spans: where the spans begin.
Eligible(message) ==
  LET text == Text(message)
      Next(state, p) == Scan(text, state, p)
  IN  FoldLeft(Next, Scanning, SetToSortSeq(LineStarts(text), <)).found

-----------------------------------------------------------------------------
(***************************************************************************)
(* The same, said without a scanner.  A mark opens a region that the next  *)
(* mark fit to close it closes; a position is plain when every mark before *)
(* it is part of exactly one region that is closed before it.              *)
(***************************************************************************)
IsPlain(p, marks, Closes(_, _)) ==
  LET regions == {r \in marks \X marks :
                    /\ r[1] < r[2] /\ r[2] < p /\ Closes(r[1], r[2])
                    /\ \A q \in marks : r[1] < q /\ q < r[2] => ~Closes(r[1], q)}
      before == {q \in marks : q < p}
  IN  \E closed \in SUBSET regions :
        \A q \in before : Cardinality({r \in closed : r[1] <= q /\ q <= r[2]}) = 1

TopLevel(message) ==
  LET text == Text(message)
      Start(p) == Max({q \in LineStarts(text) : q <= p})
      fences == {q \in LineStarts(text) : IsFence(text[q].token)}
      ticks(p) == {q \in Line(text, Start(p)) : text[q].token \in DOMAIN BackTicks}
      Fenced(o, c) == ClosesFence(text[o].token, text[c].token)
      Coded(o, c) == text[o].token = text[c].token
  IN  {p \in DOMAIN text :
         /\ PhraseAt(text, p)
         /\ text[p].from = "user_body" /\ text[p].piece = text[p + 1].piece
         /\ text[Start(p)].token \notin {"quote", "indent"}
         /\ IsPlain(Start(p), fences, Fenced) /\ Start(p) \notin fences
         /\ IsPlain(p, ticks(p), Coded)}
=============================================================================
