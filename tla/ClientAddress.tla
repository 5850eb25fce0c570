---------------------------- MODULE ClientAddress ----------------------------
(***************************************************************************)
(* Whose request it is: GetClientIP (src/utils/ip.go) under the trusted    *)
(* proxies of the configuration (src/config/trusted_proxies.go).           *)
(*                                                                         *)
(* An address is a value, a CIDR the set of its addresses; a header is the *)
(* list of what it names, of which anything that is no address is no       *)
(* member of Addresses.                                                    *)
(***************************************************************************)
EXTENDS Naturals, Sequences, FiniteSetsExt

CONSTANTS
  Addresses,
  Enabled,         \* TRUSTED_PROXIES_ENABLED, or Cloud Run
  TrustedCIDRs,    \* TRUSTED_PROXIES: a set of sets of addresses
  TrustedHeaders,  \* TRUSTED_HEADERS, in order
  HeaderNames

ASSUME HeadersAssumption == TrustedHeaders \in Seq(HeaderNames)

ForwardedFor == "X-Forwarded-For"

IsTrustedProxy(peer) == Enabled /\ peer \in UNION TrustedCIDRs

\* The first of X-Forwarded-For, and the only one of another header, if it is an
\* address.
Named(header, values) ==
  IF values # <<>> /\ (header = ForwardedFor \/ Len(values) = 1)
    THEN {values[1]} \cap Addresses ELSE {}

\* Mutated form of GetClientIP: no proxy is trusted.
GetClientIP_Peer(peer, headers) == peer

\* The first trusted header that names an address, if a trusted proxy sent it.
GetClientIP(peer, headers) ==
  LET naming == {i \in DOMAIN TrustedHeaders :
                   Named(TrustedHeaders[i], headers[TrustedHeaders[i]]) # {}}
  IN  IF IsTrustedProxy(peer) /\ naming # {}
        THEN headers[TrustedHeaders[Min(naming)]][1]
        ELSE peer

=============================================================================
