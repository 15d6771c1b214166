------------------------- MODULE MCTokenRecording ---------------------------
(* The constants of the TokenRecording run. *)
EXTENDS TokenRecording

CONSTANTS w1, w2, n1

\* Another contract tells nothing; or that it has made a token of its own; or,
\* twice, of the factory's first token, for two wallets; or it has moved some
\* of that token.
OtherContracts ==
    {<<>>,
     <<Event("deploy", Elsewhere, w1, n1)>>,
     <<Event("deploy", 1, w2, n1), Event("deploy", 1, w1, n1)>>,
     <<Event("transfer", 1, w1, w2)>>}
=============================================================================
