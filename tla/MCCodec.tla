------------------------------ MODULE MCCodec ------------------------------
(***************************************************************************)
(* The values and columns the codec is model-checked with: of every type   *)
(* the ends of its range, and what is told apart by a check of the codec.  *)
(***************************************************************************)
EXTENDS Codec

\* An empty text, a number, one with a sign, one with a fraction or an
\* exponent, and what is no number.
MCTexts == {<<>>, <<1>>, <<2, 0>>, <<1, Dot, 0>>, <<0, Exponent, 1>>, <<Half>>}

MCSeconds == {-(Word \div 2), 3}

MCValues ==
    {Value("nil", <<>>), Value("int8", <<-1>>), Value("uint8", <<3>>),
     Value("float32", <<0>>), Value("float32", <<9>>), Value("float64", <<9, 0>>),
     Value("bool", <<0>>), Value("bool", <<1>>), Value("json", <<>>)}
    \cup {Value("int64", <<v>>) : v \in {-(Word \div 2), -1, (Word \div 2) - 1}}
    \cup {Value("uint64", <<v>>) : v \in {Half - 1, Half, Word - 1}}
    \cup {Value(type, s) : type \in {"string", "bytes", "raw"}, s \in MCTexts}
    \cup {Value("time", <<sec, nsec, zone>>) :
             sec \in MCSeconds, nsec \in {0, Second - 1}, zone \in {0, 1}}

MCColumns == [name : {<<>>, <<1, Half>>}, key : BOOLEAN, readOnly : BOOLEAN]
=============================================================================
