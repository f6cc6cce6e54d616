------------------------------ MODULE MCAnswers -----------------------------
(***************************************************************************)
(* The answers of the modem with which Answers is checked: lines of one to  *)
(* three fields of every form, joined by commas.                            *)
(***************************************************************************)
EXTENDS Answers

Quoted(s) == <<"\"">> \o s
FieldTexts == {<< >>, <<" ", "1">>, <<"1", "0">>, <<"0">>, <<"x">>,
               Quoted(<<"1", ",", "\"", "0">>), Quoted(<<"1">>)}
Joined(fields) ==
    FoldLeft(LAMBDA line, field : line \o <<",">> \o field, <<":">> \o Head(fields),
             Tail(fields))
Lines == {Joined(fields) : fields \in UNION {[1 .. n -> FieldTexts] : n \in 1 .. 2}}

CarrierNames == {<< >>, <<" ", "x">>, Quoted(<<"x", ",", "1", "\"", "1">>),
                 Quoted(<<"x", ",", "1", "0", "\"">>)}
CarrierFields == {<<" ", "1">>, <<"x">>, Quoted(<<"1", ",", "\"", "0">>)}
CarrierLines ==
    Lines \cup {Joined(<<f, g, name>>) : f, g \in CarrierFields, name \in CarrierNames}

SwitchLines == {Joined(<<f>>) : f \in FieldTexts}

PinLines ==
    {Joined(<<s \o <<word>>>>) : s \in {<< >>, <<" ">>, <<"\"">>}, word \in Words \cup {"x"}}
    \cup {Joined(<<Quoted(<<word, "\"">>)>>) : word \in Words} \cup {Joined(<< << >> >>)}

Texts == {<<"x">>, <<"x", "1", "0">>, <<"x", "1", "0", "x">>}

Errors ==
    {<<"+CME ERROR", ":">> \o s : s \in {<<" ", "1", "0">>, <<"1", "3">>, <<"0">>, <<"x">>}}
    \cup {<<"+CMS ERROR", ":", "1", "0">>, <<"ERROR">>}
=============================================================================
