---------------------------- MODULE MCHttpText ------------------------------
\* Three groups of binary digits; the rest of the alphabets are the characters
\* that the parsers treat differently.
EXTENDS HttpText

MCHex == <<"0", "1">>
MCAlphabet6 == {"0", "1", ":", "[", "]"}
MCAlphabet4 == {"2", "5", "6", "."}
MCKeys == {<<"a">>, <<"a", "b">>}
MCValues == {<<>>, <<"b">>, <<":", "b">>}
MCUrls == {<<"/">>, <<"/", "a">>, <<"/", "a", ".", "b">>}
MCHeads == {<<(<<"X", "y">>), <<" ", "a", " ", "b">>>>,
            <<(<<"y">>), <<"a", " ">>>>, <<(<<"z">>), <<>>>>}
MCBodies == {<<>>, <<"a", LF>>}
MCMethods == {<<"G", "E", "T">>, <<"P", "O", "S", "T">>,
              <<"D", "E", "L", "E", "T", "E">>}
=============================================================================
