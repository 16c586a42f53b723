---------------------------- MODULE MCMcpBroker ----------------------------
\* The broker's connection over a small vault: a document of three chunks, two of
\* one, and one of another collection.
EXTENDS McpBroker

MCPassages == {<<"a", 1>>, <<"a", 2>>, <<"a", 3>>, <<"b", 1>>, <<"c", 1>>, <<"other", 1>>}
=============================================================================
