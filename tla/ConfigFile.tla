----------------------------- MODULE ConfigFile -----------------------------
(***************************************************************************)
(* The parser of bootd's configuration file (parse.c) on the tokenizer:    *)
(* statements "name value ... ;" or "name value ... { statements }" become *)
(* a tree of entries.  One action is one step of parse_sub, with at most   *)
(* one gen_tokenize_next.                                                  *)
(*                                                                         *)
(* The entries are kept in the order they are created; an entry names the  *)
(* one whose block it is in, the first entry stands for the file.  The     *)
(* recursion of parse_sub is the sequence "open" of unfinished blocks.     *)
(* Strings and entries come from tables of fixed size in the code, which   *)
(* are taken to be large enough.                                           *)
(*                                                                         *)
(* PopTwice is a faulty variant, used only to confirm that the properties  *)
(* can fail.                                                               *)
(***************************************************************************)
EXTENDS Tokenize, FiniteSets, SequencesExt

CONSTANTS
    Texts,       \* the configuration files
    ValuesMax    \* PARSE_VALUES_MAX

Chars == STRING \ {""}

ASSUME TextsAssumption == Texts \subseteq Seq(Chars)
ASSUME ValuesMaxAssumption == ValuesMax \in Nat

VARIABLES
    text,     \* the file
    z,        \* the tokenizer
    ents,     \* the entries
    open,     \* the entries whose blocks are being parsed, innermost last
    word,     \* the token in parse_sub's buffer w
    phase,    \* what the program does next; "exited", "killed", "undefined", "running"
    taken     \* history: the tokens the parser has got

parseVars == <<text, z, ents, open, word, phase, taken>>

Entry(name, parent) ==
    [name |-> name, values |-> <<>>, parent |-> parent, sub |-> "none", processed |-> FALSE]
Root == 1

ParseInit ==
    /\ text \in Texts
    /\ z = gen_tokenize_new
    /\ ents = <<Entry(NoToken, 0)>>
    /\ open = <<Root>>
    /\ word = NoToken
    /\ phase = "name"
    /\ taken = <<>>

----------------------------------------------------------------------------
(* gen_tokenize_next(tokenize, sizeof(w), w), whose result is not looked   *)
(* at: at the end of the file the buffer keeps what it held.               *)
Advance(held) ==
    LET next == gen_tokenize_next(text, z)
    IN  /\ z' = next.z
        /\ word' = IF next.w = NoToken THEN held ELSE next.w
        /\ taken' = IF next.w = NoToken THEN taken ELSE Append(taken, next.w)

Upcoming == gen_tokenize_next(text, z).w

PopTwice == SubSeq(open, 1, Len(open) - 2)
Pop == Front(open)

(* parse_sub returns at "}" or at the end of the file.  For a block        *)
(* without entries it returns a variable it never assigned: a null         *)
(* pointer, or what the stack happened to hold.                            *)
EndBlock ==
    /\ phase = "name"
    /\ Upcoming \in {NoToken, <<"}">>}
    /\ Advance(word)
    /\ LET empty == \A e \in DOMAIN ents : ents[e].parent # Last(open)
       IN  \E sub \in IF empty THEN {"none", "garbage"} ELSE {"block"} :
             ents' = [ents EXCEPT ![Last(open)].sub = sub]
    /\ open' = Pop
    /\ phase' = IF open' = <<>> THEN "log" ELSE "name"
    /\ UNCHANGED text

(* The name of a statement and the token behind it are taken.              *)
NewEntry ==
    /\ phase = "name"
    /\ Upcoming \notin {NoToken, <<"}">>}
    /\ LET first == gen_tokenize_next(text, z)
           second == gen_tokenize_next(text, first.z)
       IN  /\ ents' = Append(ents, Entry(first.w, Last(open)))
           /\ z' = second.z
           /\ word' = IF second.w = NoToken THEN first.w ELSE second.w
           /\ taken' = taken \o <<first.w>> \o
                       (IF second.w = NoToken THEN <<>> ELSE <<second.w>>)
    /\ phase' = "values"
    /\ UNCHANGED <<text, open>>

(* The token in the buffer ends the statement.                             *)
EndStatement ==
    /\ phase = "values"
    /\ word = <<";">>
    /\ phase' = "name"
    /\ UNCHANGED <<text, z, ents, open, word, taken>>

OpenBlock ==
    /\ phase = "values"
    /\ word = <<"{">>
    /\ phase' = "name"
    /\ open' = Append(open, Len(ents))
    /\ UNCHANGED <<text, z, ents, word, taken>>

Separators == {<<",">>, <<"|">>}

(* "accept blanks, ',', and '|' as separators": back to the head of the    *)
(* loop, with the same token in the buffer.                                *)
Separator ==
    /\ phase = "values"
    /\ word \in Separators
    /\ UNCHANGED parseVars

IsValue(v) == v \notin {<<"{">>, <<";">>} \cup Separators

Value ==
    /\ phase = "values"
    /\ IsValue(word)
    /\ Len(Last(ents).values) < ValuesMax
    /\ ents' = [ents EXCEPT ![Len(ents)].values = Append(@, word)]
    /\ Advance(word)
    /\ UNCHANGED <<text, open, phase>>

(* "maximum number of values exceeded": log_msg(LOG_ERR) ends the program. *)
TooManyValues ==
    /\ phase = "values"
    /\ IsValue(word)
    /\ Len(Last(ents).values) >= ValuesMax
    /\ phase' = "exited"
    /\ UNCHANGED <<text, z, ents, open, word, taken>>

ParseStep ==
    \/ EndBlock
    \/ NewEntry
    \/ EndStatement
    \/ OpenBlock
    \/ Separator
    \/ Value
    \/ TooManyValues

Parsing == phase \in {"name", "values"}

----------------------------------------------------------------------------
(* What the entries should be.  The tokens taken are well formed when      *)
(* every statement has a name and an end and the blocks are balanced.      *)
Punctuation == {<<";">>, <<"{">>, <<"}">>}
Begins(i) == taken[i] \notin Punctuation /\ (i = 1 \/ taken[i - 1] \in Punctuation)
Depth(i) == Cardinality({j \in 1 .. i : taken[j] = <<"{">>})
            - Cardinality({j \in 1 .. i : taken[j] = <<"}">>})

WellFormed ==
    /\ \A i \in DOMAIN taken :
          /\ taken[i] \in {<<";">>, <<"{">>} => i > 1 /\ taken[i - 1] \notin Punctuation
          /\ taken[i] = <<"}">> => i > 1 /\ taken[i - 1] \in Punctuation
          /\ taken[i] \notin Separators
          /\ Depth(i) >= 0
    /\ Depth(Len(taken)) = 0
    /\ taken # <<>> => Last(taken) \in Punctuation

(* The number of the statement that begins at i, behind the file's.        *)
Number(i) == 1 + Cardinality({j \in 1 .. i : Begins(j)})

(* The values of the statement that begins at i.                           *)
ValuesOf(i) ==
    LET ends == {j \in i + 1 .. Len(taken) : taken[j] \in Punctuation}
        end == CHOOSE j \in ends : \A k \in ends : j <= k
    IN  SubSeq(taken, i + 1, end - 1)

(* The statement in whose block the one at i is.                           *)
ParentOf(i) ==
    LET opens == {j \in 1 .. i : taken[j] = <<"{">> /\ \A k \in j .. i : Depth(k) >= Depth(j)}
        inner == CHOOSE j \in opens : \A k \in opens : k <= j
    IN  IF opens = {} THEN Root
        ELSE Number(CHOOSE b \in 1 .. inner : Begins(b) /\ Number(b) = Number(inner))
=============================================================================
