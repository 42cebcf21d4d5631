---------------------------- MODULE ClientAddress ----------------------------
(***************************************************************************)
(* The address a request is held to (src/realip.rs): the peer of the       *)
(* connection or, when that is a trusted proxy, an address of the          *)
(* forwarded header.                                                       *)
(*                                                                         *)
(* An address has a family and, in it, AddressBits bits; an IPv6 address   *)
(* may be an IPv4 address in disguise (mapped).  A token of the header is  *)
(* an address, however it is written (with a port, in brackets, with a     *)
(* zone), or unreadable; a byte of the line that belongs to no UTF-8 text  *)
(* makes the token it is in NotUtf8.                                       *)
(***************************************************************************)
EXTENDS Naturals, Sequences, FiniteSets, FiniteSetsExt, SequencesExt

CONSTANTS
  AddressBits,   \* bits of an address
  Unreadable,    \* a token that is no address
  NotUtf8        \* a token that makes its line no UTF-8 text

ASSUME AddressBitsAssumption == AddressBits \in Nat

Address == [family : {4, 6}, bits : 0 .. 2^AddressBits - 1, mapped : BOOLEAN]
Network == [family : {4, 6}, bits : 0 .. 2^AddressBits - 1, len : 0 .. AddressBits]

Token == Address \union {Unreadable, NotUtf8}

ASSUME UnreadableAssumption ==
  Unreadable \notin Address /\ NotUtf8 \notin Address \union {Unreadable}

(* A mapped address is the IPv4 address in it.                             *)
canonicalize_ip(ip) ==
  IF ip.family = 6 /\ ip.mapped THEN [ip EXCEPT !.family = 4, !.mapped = FALSE] ELSE ip

(* ipv4_mask, ipv6_mask: the len leading bits.                             *)
Masked(bits, len) == bits \div 2^(AddressBits - len)

(* TrustedCidr::contains.                                                  *)
contains(net, ip) ==
  /\ canonicalize_ip(ip).family = net.family
  /\ Masked(ip.bits, net.len) = Masked(net.bits, net.len)

(* peer_in_trusted_list and ip_in_cidr_list.                               *)
ip_in_cidr_list(ip, cidrs) == \E net \in cidrs : contains(net, ip)

(* parse_forwarded_chain: where the header has tokens that are addresses.  *)
parse_forwarded_chain(header) == {i \in DOMAIN header : header[i] # Unreadable}

(* A slip: the header is read from its left end.                           *)
resolve_client_ip_Leftmost(socket_ip, trusted, header) ==
  LET chain == parse_forwarded_chain(header)
      untrusted == {i \in chain : ~ip_in_cidr_list(header[i], trusted)}
  IN  IF ~ip_in_cidr_list(socket_ip, trusted) \/ chain = {} THEN socket_ip
      ELSE canonicalize_ip(header[Min(IF untrusted = {} THEN chain ELSE untrusted)])

(* From the right end past the trusted proxies; the left-most address if   *)
(* all are trusted.  A header value of None is a chain without addresses.  *)
resolve_client_ip(socket_ip, trusted, header) ==
  LET chain == parse_forwarded_chain(header)
      untrusted == {i \in chain : ~ip_in_cidr_list(header[i], trusted)}
  IN  IF ~ip_in_cidr_list(socket_ip, trusted) \/ chain = {} THEN socket_ip
      ELSE canonicalize_ip(header[IF untrusted = {} THEN Min(chain) ELSE Max(untrusted)])

(* A slip: the last line of a name.                                        *)
header_value_ci_Last(lines) ==
  IF lines = <<>> \/ NotUtf8 \in Range(Last(lines)) THEN <<>> ELSE Last(lines)

(* The first line of a name; None (<<>>) if there is none or it, as a      *)
(* whole, is no UTF-8 text.                                                *)
header_value_ci(lines) ==
  IF lines = <<>> \/ NotUtf8 \in Range(lines[1]) THEN <<>> ELSE lines[1]

get_effective_client_ip(socket_ip, trusted, lines) ==
  canonicalize_ip(resolve_client_ip(canonicalize_ip(socket_ip), trusted, header_value_ci(lines)))

-----------------------------------------------------------------------------
(* What a request has come through: hops, from the client to the peer of   *)
(* the connection.  The proxies note the address they were called from in  *)
(* the headers of one name: at the end of one line, which they make of all *)
(* that is there (joined), or in a line of their own after the others.     *)
(* sent is what the client has written into that one line, or in a line    *)
(* before the others; what it writes in further lines is not read.         *)
HeaderNames == {"X-Forwarded-For", "X-Client"}
Socket(hops) == hops[Len(hops)]
Lines(text) == IF text = <<>> THEN <<>> ELSE <<text>>
Noted(hops) == [i \in 1 .. Len(hops) - 1 |-> <<hops[i]>>]
Headers(name, sent, hops, joined) ==
  [n \in HeaderNames \union {name} |->
    IF n # name THEN Lines(sent)
    ELSE IF joined THEN Lines(sent \o Front(hops))
    ELSE Lines(sent) \o Noted(hops)]

(* The hop nearest to the server that is not a trusted proxy: the server   *)
(* knows nothing for certain about what is behind it.                      *)
Untrusted(hops, trusted) ==
  {i \in DOMAIN hops : ~\E net \in trusted : contains(net, hops[i])}
NearestUntrusted(hops, trusted) == canonicalize_ip(hops[Max(Untrusted(hops, trusted))])
=============================================================================
