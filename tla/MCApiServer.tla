----------------------------- MODULE MCApiServer -----------------------------
(* Constants of module ApiServer for TLC.                                  *)
EXTENDS ApiServer

\* Two requests are interchangeable: each pair of kinds is taken once.  Of the
\* kinds that share no row with others, the pairs that meet in the pool only
\* are left to "read" beside "submit".
Pairs ==
    {<<"create", "create">>, <<"create", "delete">>, <<"create", "version">>,
     <<"create", "submit">>, <<"update", "create">>, <<"update", "update">>,
     <<"update", "delete">>, <<"delete", "delete">>, <<"delete", "version">>,
     <<"delete", "submit">>, <<"version", "version">>, <<"version", "submit">>,
     <<"submit", "submit">>, <<"case", "case">>, <<"case", "submit">>,
     <<"test", "delete">>, <<"test", "version">>, <<"test", "submit">>,
     <<"read", "submit">>}

=============================================================================
