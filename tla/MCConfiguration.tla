-------------------------- MODULE MCConfiguration --------------------------
(* Instances of Configuration for TLC.                                     *)
EXTENDS Configuration

(* All short texts of some characters.                                     *)
Atoms == {"w", " ", Newline, ";", "{", "}", "#", "'", "\\"}
Short == UNION {[1 .. n -> Atoms] : n \in 0 .. 4}

(* A text, written as the sequence of its words and blanks.                *)
W(a) == <<a, " ">>
Stmt(a, b) == <<a, " ", b, ";", " ">>
Block(a, b, inner) == W(a) \o W(b) \o W("{") \o inner \o W("}")

Pool == {
    Stmt("session_max", "3"),
    Stmt("session_max", "x"),
    Stmt("resolve_ether", "no"),
    Stmt("resolve_ip", "no"),
    Stmt("unknown", "x"),
    W("log") \o W("{") \o Stmt("level", "debug") \o Stmt("file", "x") \o W("}"),
    Block("service", "tftp", Stmt("bind", "x")),
    Block("service", "rmp", W("device") \o Stmt("x", "x") \o Stmt("bnid", "x")),
    Block("service", "all", <<>>),
    Stmt("host", "h1"),
    Block("host", "h2", <<>>),
    Block("host", "h1", Stmt("ether", "e3") \o Stmt("service", "rmp")),
    Block("host", "h2", W("service") \o Stmt("tftp", "rmp")
          \o W("file") \o <<"d", "/", "f", ";", Newline>>
          \o Block("file", "p", Stmt("name", "f")\o Stmt("name", "f"))),
    Block("host", "h2", Stmt("name", "h1")),
    W("host") \o W("{") \o Stmt("ether", "h1") \o Stmt("ip", "i3")
          \o Block("file", "p", Stmt("name", "*"))
          \o Block("file", "q", Stmt("alias", "p") \o Stmt("alias", "f"))
          \o Block("file", "f", Stmt("name", "f") \o Stmt("service", "none")) \o W("}"),
    W("host") \o W("{") \o W("file") \o W("{") \o Stmt("server", "s") \o W("}") \o W("}"),
    W("host") \o W("{") \o Stmt("ip", "i1") \o W("file") \o W("{") \o Stmt("name", "s") \o W("}") \o W("}"),
    Stmt("host", "h3") }

Statements == UNION {{s \o t : s \in Pool} : t \in Pool \cup {<<>>}}
Separated == {W("h") \o W(","), W("h") \o W(",") \o Stmt("x", "x")}
Shortest == {W("h") \o W(",")}
AllTexts == Short \cup Statements \cup Separated
            \cup {s \o t : s \in {Stmt("resolve_ether", "no")}, t \in Statements}

NumberWords == {<<"1">>, <<"3">>}
EtherAddresses == {<<"e1">>, <<"e2">>, <<"e3">>}
IpAddresses == {<<"i1">>, <<"i2">>, <<"i3">>}
EthersFile == [n \in {<<"h1">>, <<"h2">>} |-> IF n = <<"h1">> THEN <<"e1">> ELSE <<"e2">>]
HostsFile == [n \in {<<"h1">>, <<"h2">>} |-> IF n = <<"h1">> THEN <<"i1">> ELSE <<"i2">>]
=============================================================================
