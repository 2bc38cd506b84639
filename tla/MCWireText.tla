---------------------------- MODULE MCWireText -----------------------------
(* The instance of WireText for TLC.                                       *)
EXTENDS WireText

\* The starts put the texts that take many characters within reach: a source route,
\* parameters after a path, and one key in two spellings.
MCStarts ==
    [command |-> {<<>>},
     path    |-> {<<>>, <<"FROM:">>, <<"from:", "<", "@">>, <<"FROM:", "<", "a", "@", "a", ">">>,
                 <<"FROM:", "<", ">", " ", "size", "=", "a", " ", "SIZE">>},
     host    |-> {<<>>},
     data    |-> {<<>>},
     reply   |-> {<<>>}]

MCAlphabet ==
    [command |-> {"MAIL", "quit", "HELP", "a", " ", "\t", CR},
     path    |-> {"FROM:", "<", ">", "@", ":", ".", "-", "a", " ", "="},
     host    |-> {"a", ".", "-", "[", "]", " ", "@"},
     data    |-> {".", "a", CR, LF},
     reply   |-> {}]

MCChars ==
    UNION {MCAlphabet[k] : k \in DOMAIN MCAlphabet} \cup Digits \cup {"from:", "size", "SIZE", "RSET"}

MCTypeBound == [command |-> 4, path |-> 5, host |-> 6, data |-> 6, reply |-> 0]

MCCodes == {<<"2", "5", "0">>, <<"5", "0", "2">>}
MCTexts == {<<>>, <<"a">>, <<"-">>, <<" ", "-">>}
=============================================================================
