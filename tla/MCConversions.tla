--------------------------- MODULE MCConversions ---------------------------
EXTENDS Conversions

\* The message of one line of data brings text, that of another only a count.
MCJsonOf ==
    (<<"wide">> :> [type |-> "output_text.delta", choice |-> "None", delta |-> "x", input |-> "None", output |-> "None"])
      @@ (<<"wide", "wide">> :> [type |-> "completed", choice |-> "None", delta |-> "None", input |-> "1", output |-> "2"])
      @@ (<<>> :> [type |-> "None", choice |-> "y", delta |-> "None", input |-> "None", output |-> "None"])

MCGuess == (<<"path">> :> <<"octet-stream">>)

MCMaxTyped == [braces |-> 8, argv |-> 5, paste |-> 4, literal |-> 5]

\* Half a year before the ends of February that are special.
MCDays == {0, 10800, 47300}

\* A value is an end of another, or lies across its end.
MCTexts == {<<>>, <<"x">>, <<"x", "y">>, <<"y", "z">>, <<"x", "y", "z">>}

\* Texts of lines, and texts that look like JSON.
MCLines == {"x", "nl", "cr"}
MCJson == {"{", "}", "\"", "\\", ",", " "}
MCAscii == MCLines \cup MCJson
MCAlphabets == {{<<c>> : c \in MCLines} \cup {<<"hi", "lo">>}, {<<c>> : c \in MCJson}}

MCOctets == {"data", ":", "hi", "lo", "nl", "cr"}
=============================================================================
