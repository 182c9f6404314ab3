---------------------------- MODULE MCHandshake ----------------------------
(* Instance of Handshake for model checking. *)
EXTENDS Handshake

CONSTANTS aes, chacha, h3, hq, key1, key2

ClientConfig(alpn, suites, key_share, early_data) ==
    [alpn |-> alpn, cipher_suites |-> suites, key_share |-> key_share,
     early_data |-> early_data]

\* A client that offers everything, one that has to be asked for a key share, and
\* one with other preferences.
SomeClients ==
    {ClientConfig(<<h3, hq>>, <<aes, chacha>>, TRUE, TRUE),
     ClientConfig(<<h3>>, <<aes, chacha>>, FALSE, TRUE),
     ClientConfig(<<hq>>, <<chacha, aes>>, TRUE, TRUE)}

\* Servers that differ in protocols, ticket key and limits.
SomeServers ==
    {[alpn |-> <<h3, hq>>, ticket_key |-> key1, params |-> 2],
     [alpn |-> <<hq>>, ticket_key |-> key1, params |-> 1],
     [alpn |-> <<h3, hq>>, ticket_key |-> key2, params |-> 2]}
=============================================================================
