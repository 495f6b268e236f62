-------------------------- MODULE MCRequestPipeline --------------------------
(* Nine requests: each layer has one it lets through and one it stops.      *)
EXTENDS RequestPipeline

Secret == <<"s", "e", "c">>
Other == <<"s", "e", "k">>
Quoted == <<"\"">> \o Secret \o <<"\"">>

R(key, route, headers, size, token, content) ==
  [key |-> key, route |-> route, headers |-> headers, size |-> size,
   token |-> token, content |-> content]

MCRequests ==
  {R("gateway", "probe", <<"length">>, 1, << >>, "good"),
   R("stranger", "read", << >>, 0, << >>, "good"),
   R("gateway", "write", <<"length">>, 1, Secret, "good"),
   R("stranger", "write", <<"length">>, 1, Other, "good"),
   R("gateway", "write", <<"length">>, 1, Secret, "invalid"),
   R("gateway", "write", <<"length">>, 1, Quoted, "good"),
   R("stranger", "answer", <<"chunked">>, 2, << >>, "good"),
   R("stranger", "answer", <<"zero", "chunked">>, 3, << >>, "notjson"),
   R("gateway", "write", <<"over">>, 3, << >>, "good")}

\* An environment from what is set in it.
Setting(set) == [v \in Variables |-> IF v \in DOMAIN set THEN set[v] ELSE << >>]
TokenSet(raw) ==
  [ENLIGHTENMENT_TEAM_TOKEN |-> raw, ALLOWED_ORIGIN |-> <<"https://a">>]

\* Four that start, with nothing set, with a token pasted in quotes and a line's end,
\* with one behind an invisible character, that keeps its quotes, with writes waived; and
\* those that do not.
MCEnvironments ==
  [unset |-> Setting(<< >>),
   gated |-> Setting(TokenSet(<<" ", "\"">> \o Secret \o <<"\"", "\n">>)
                     @@ [PORT |-> <<" ", "80">>]),
   hidden |-> Setting(TokenSet(<<"zwsp">> \o Quoted)),
   waived |-> Setting([ENLIGHTENMENT_ALLOW_ANONYMOUS |-> <<"\t", "y", "es">>,
                       DATA_DIR |-> <<"'", "'">>, STORAGE_MOUNT_PATH |-> <<"/", "mnt", "\n">>]),
   short |-> Setting(TokenSet(<<"s", "zwsp">>)),
   long |-> Setting(TokenSet(Secret \o Secret \o Secret)),
   no_origin |-> Setting([ENLIGHTENMENT_TEAM_TOKEN |-> Secret]),
   both |-> Setting(TokenSet(Secret) @@ [ENLIGHTENMENT_ALLOW_ANONYMOUS |-> <<"y", "es">>]),
   any_origin |-> Setting([ALLOWED_ORIGIN |-> <<"'", "*", "'">>]),
   port_zero |-> Setting([PORT |-> <<"0">>]),
   no_port |-> Setting([PORT |-> <<"http">>]),
   relative |-> Setting([DATA_DIR |-> <<"data">>]),
   root |-> Setting([STORAGE_MOUNT_PATH |-> <<"/", ".", "/", "\n">>])]

MCBlank == {" ", "\t", "\n"}
MCHidden == {"\t", "\n", "zwsp"}
MCTruthy == {<<"y", "es">>, <<"1">>}
MCRefusedOrigins == {<<"*">>, <<"null">>}
MCPortOf == <<"80">> :> 80 @@ <<"0">> :> 0
MCWorkingData == <<"/", "srv", "/", "var", "/", "data">>

MCLimit == [coarse |-> 2, strict |-> 1, drill |-> 1]
=============================================================================
