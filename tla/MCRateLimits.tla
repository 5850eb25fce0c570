---------------------------- MODULE MCRateLimits ----------------------------
(* Up to four requests of two clients, a and b, through a proxy or not, and *)
(* two servers, the clock of one of which is ahead.                         *)
EXTENDS RateLimits

CONSTANTS a, b, proxy

MCAddresses == {a, b, proxy}
MCCIDRs == {{proxy}}
MCHeaders == <<"X-Forwarded-For", "X-Real-IP">>
MCOffset == [s \in Servers |-> IF s = 1 THEN 0 ELSE 1]

Header(forwarded, real) ==
  [h \in HeaderNames |-> IF h = "X-Forwarded-For" THEN forwarded ELSE real]

Of(peer, forwarded, real, origin, limited, server) ==
  [peer |-> peer, headers |-> Header(forwarded, real), origin |-> origin,
   limited |-> limited, server |-> server]

\* Four requests of one client; three of two clients behind one proxy; and two of
\* one client, once behind the proxy, on a route with a limit of its own.
MCLoads ==
  { <<Of(a, <<>>, <<>>, a, FALSE, 1), Of(proxy, <<a, proxy>>, <<>>, a, FALSE, 2),
      Of(a, <<b>>, <<>>, a, FALSE, 1), Of(a, <<>>, <<>>, a, FALSE, 1)>>,
    <<Of(proxy, <<a>>, <<>>, a, FALSE, 1), Of(proxy, <<Null>>, <<a>>, a, FALSE, 2),
      Of(proxy, <<>>, <<b>>, b, FALSE, 1)>>,
    <<Of(a, <<>>, <<>>, a, TRUE, 2), Of(proxy, <<a, proxy>>, <<>>, a, TRUE, 1)>> }
=============================================================================
