---------------------------- MODULE MCFederation ----------------------------
\* Five situations of one route.  The relay is explored most with a "service"
\* token, where no token has to be obtained first: once from an empty ledger,
\* and once with the backlog of an earlier run.  The two delegation methods
\* are explored for two users, whose credentials can age and be revoked; with
\* token exchange once more while the token endpoint or the upstream fails.
EXTENDS Federation, TLC

CONSTANTS u1, u2, a1, k1, k2, o1, o2, c1, c2, direct, backlog, login, exchange, shaky

In(inDirect, inBacklog, inLogin, inExchange, inShaky) ==
    direct :> inDirect @@ backlog :> inBacklog @@ login :> inLogin
      @@ exchange :> inExchange @@ shaky :> inShaky

MCMethodOf ==
    In("service", "service", "authorization-code-pkce", "token-exchange", "token-exchange")
MCMaxTokens == In(0, 0, 2, 2, 2)
MCMaxFaults == In(2, 0, 0, 0, 1)
MCMaxRequests == In(2, 1, 1, 2, 1)
MCMaxVersion == In(1, 0, 0, 0, 0)
MCSubmitted == In({<<o1, c1>>, <<o1, c2>>}, {}, {<<o1, c2>>}, {}, {})
MCEarlier == In({}, {<<o1, c2>>, <<o2, c2>>}, {}, {}, {})
=============================================================================
