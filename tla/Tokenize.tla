------------------------------ MODULE Tokenize ------------------------------
(***************************************************************************)
(* The tokenizer of bootd's configuration file (tokenize.c): characters    *)
(* become tokens, and a ring of Lookahead + 1 tokens is kept filled ahead  *)
(* of the parser.                                                          *)
(*                                                                         *)
(* A character is a string: the special ones below, or any other, which    *)
(* stands for a run of ordinary characters.  A token is the sequence of    *)
(* its characters.  Left out: NUL bytes, tokens of TOKENIZE_BUFSIZE        *)
(* characters, line numbers, and the 4096-byte chunks in which the text is *)
(* read, which only matter at its end.                                     *)
(*                                                                         *)
(* FillStopsEarly is a faulty variant, used only to confirm that the       *)
(* properties can fail.                                                    *)
(***************************************************************************)
EXTENDS Integers, Sequences, FiniteSetsExt

CONSTANT Lookahead    \* TOKENIZE_LOOKAHEAD

ASSUME LookaheadAssumption == Lookahead \in Nat

Newline == "nl"
Blanks == {" ", Newline}
NoToken == <<>>

----------------------------------------------------------------------------
(* The inner loop, one character c at position p: the token so far, what   *)
(* the character is part of, and, once the token is complete, the position *)
(* of the next character to look at (0 before that).                       *)
Fresh == [tok |-> NoToken, mode |-> "plain", next |-> 0]

Keep(st, c) == [st EXCEPT !.tok = Append(@, c), !.mode = IF @ = "escape" THEN "plain" ELSE @]
Enter(st, mode) == [st EXCEPT !.mode = mode]
Complete(st, next) == [st EXCEPT !.next = next]

(* A semicolon is a token of its own; behind another one it is put back.   *)
Semicolon(st, p) ==
    IF st.tok = NoToken THEN Complete(Keep(st, ";"), p + 1) ELSE Complete(st, p)

(* Within a comment, behind a backslash and in quotes.  A comment goes on  *)
(* to the end of the line and does not end a token; neither does an empty  *)
(* string in quotes begin one.                                             *)
ConsumeSpecial(st, c) ==
    CASE st.mode = "comment" -> IF c = Newline THEN Enter(st, "plain") ELSE st
      [] st.mode = "escape"  -> Keep(st, c)
      [] OTHER               -> IF c = st.mode THEN Enter(st, "plain") ELSE Keep(st, c)

ConsumePlain(st, c, p) ==
    CASE c = "\\"            -> Enter(st, "escape")
      [] c \in {"\"", "'"}   -> Enter(st, c)
      [] c = "#"             -> Enter(st, "comment")
      [] c \in Blanks        -> IF st.tok = NoToken THEN st ELSE Complete(st, p + 1)
      [] c = ";"             -> Semicolon(st, p)
      [] OTHER               -> Keep(st, c)

Consume(st, c, p) ==
    IF st.mode = "plain" THEN ConsumePlain(st, c, p) ELSE ConsumeSpecial(st, c)

(* The next token from position pos on: the inner loop ends with the first *)
(* character that completes it.  At the end of the text the token that is  *)
(* not complete is given up.                                               *)
Lex(text, pos) ==
    LET st[p \in pos - 1 .. Len(text)] ==
          IF p = pos - 1 THEN Fresh ELSE Consume(st[p - 1], text[p], p)
        Completes(p) == st[p].next # 0 /\ st[p - 1].next = 0
    IN  IF \E p \in pos .. Len(text) : Completes(p)
        THEN st[CHOOSE p \in pos .. Len(text) : Completes(p)]
        ELSE Fresh

----------------------------------------------------------------------------
(* The tokenizer z: the position in the text, the tokens t, the first and  *)
(* the end of the ring.  ts = -1 says that it is empty, ts = te that it is *)
(* full.                                                                   *)
Empty == -1
gen_tokenize_new == [pos |-> 1, t |-> [i \in 0 .. Lookahead |-> NoToken], ts |-> Empty, te |-> 0]

Wrap(i) == IF i + 1 > Lookahead THEN 0 ELSE i + 1

FillStopsEarly(text, z) ==
    LET lexed == Lex(text, z.pos)
    IN  IF lexed.next = 0 THEN [z EXCEPT !.pos = Len(text) + 1]
        ELSE [pos |-> lexed.next, t |-> [z.t EXCEPT ![z.te] = lexed.tok],
              ts |-> IF z.ts = Empty THEN 0 ELSE z.ts, te |-> (z.te + 1) % Lookahead]

(* One round of the outer loop.                                            *)
FillOne(text, z) ==
    LET lexed == Lex(text, z.pos)
    IN  IF lexed.next = 0 THEN [z EXCEPT !.pos = Len(text) + 1]
        ELSE [pos |-> lexed.next, t |-> [z.t EXCEPT ![z.te] = lexed.tok],
              ts |-> IF z.ts = Empty THEN 0 ELSE z.ts, te |-> Wrap(z.te)]

(* The ring is filled until it is full or the text at its end.             *)
gen_tokenize_tokenize(text, z) ==
    LET fill[k \in 0 .. Lookahead + 1] ==
          LET before == fill[k - 1]
          IN  IF k = 0 THEN z
              ELSE IF before.ts = before.te THEN before
              ELSE FillOne(text, before)
    IN  fill[Lookahead + 1]

(* The first token of the ring, NoToken at the end of the text, and the    *)
(* tokenizer afterwards.                                                   *)
gen_tokenize_next(text, z) ==
    LET full == gen_tokenize_tokenize(text, z)
        ts == Wrap(full.ts)
    IN  IF full.ts = Empty THEN [z |-> full, w |-> NoToken]
        ELSE [z |-> [full EXCEPT !.ts = IF ts = full.te THEN Empty ELSE ts],
              w |-> full.t[full.ts]]

----------------------------------------------------------------------------
(* The members of S, numbers from 1 to n, in order.                        *)
InOrder(S, n) ==
    LET upto[i \in 0 .. n] ==
          IF i = 0 THEN <<>>
          ELSE IF i \in S THEN Append(upto[i - 1], i)
          ELSE upto[i - 1]
    IN  upto[n]

(* What the tokens of a text without quotes, escapes and comments should   *)
(* be: every semicolon, and every longest run of other characters that a   *)
(* blank or a semicolon ends.                                              *)
Plain(text) == \A p \in DOMAIN text : text[p] \notin {"\"", "'", "\\", "#"}

Delimiters == Blanks \cup {";"}

RunStarts(text) ==
    {p \in DOMAIN text : text[p] \notin Delimiters /\ (p = 1 \/ text[p - 1] \in Delimiters)}

(* The first character behind the token that starts at p, 0 if none.       *)
RunEnd(text, p) ==
    LET ends == {q \in p .. Len(text) : text[q] \in Delimiters}
    IN  IF text[p] = ";" THEN p + 1 ELSE IF ends = {} THEN 0 ELSE Min(ends)

TokenStarts(text) ==
    {p \in RunStarts(text) \cup {q \in DOMAIN text : text[q] = ";"} : RunEnd(text, p) # 0}
=============================================================================
