----------------------------- MODULE MCEnvBlock -----------------------------
EXTENDS EnvBlock

\* One name is a prefix of the other, and one value holds an equals sign.
TwoVars    == {<<"a">>, <<"a", "b">>}
SomeVals   == {<<"b">>, <<"=", "a">>, <<"b", "b", "a">>}
PathIsA    == <<"a">>
\* A neighbour whose strings are longer than those of the block.
NextPage   == <<"a", "b", "a", "b", "b", "b", "a", "b", "nul", "nul">>
=============================================================================
