---------------------------- MODULE SocketAddress ----------------------------
(***************************************************************************)
(* Addresses (lib/sockets/socketaddress.cpp): a host name, an address that *)
(* is 0 until the name is resolved, and a port.  Names are numbered in     *)
(* their string order, the empty one being 0; what a name is good for is   *)
(* the environment's `inet_aton' and `gethostbyname', functions from names *)
(* to addresses with 0 for a failure.                                      *)
(***************************************************************************)
EXTENDS Integers, Sequences

Ips   == {i \in Nat : i \div 65536 < 65536}   \* uint32_t
Ports == 0 .. 65535
Address == [hostname_ : Nat, ip_ : Ips, port_ : Ports]

(* sockaddr_in; the two byte orders cancel out and are left out.           *)
SockAddr == [sin_addr : Ips, sin_port : Ports]
INADDR_ANY == 0

Clear == [hostname_ |-> 0, ip_ |-> 0, port_ |-> 0]

-----------------------------------------------------------------------------
EqualIPs(a, b)   == a.ip_ = b.ip_ /\ (a.ip_ # 0 \/ a.hostname_ = b.hostname_)
EqualPorts(a, b) == a.port_ = b.port_
Equal(a, b)      == EqualIPs(a, b) /\ EqualPorts(a, b)

Less(a, b) ==
  \/ a.ip_ < b.ip_
  \/ /\ a.ip_ = b.ip_
     /\ \/ b.ip_ = 0 /\ a.hostname_ < b.hostname_
        \/ (b.ip_ = 0 => a.hostname_ = b.hostname_) /\ a.port_ < b.port_

(* What Hash() mixes.                                                      *)
HashedOf(a) == <<a.ip_, a.port_>>

-----------------------------------------------------------------------------
IsAny(a)        == a.ip_ = 0
IsUnresolved(a) == IsAny(a) /\ a.hostname_ # 0


IsLocalIP(a) == a.ip_ \div 16777216 = 127

IsPrivateIP(a) ==
  \/ a.ip_ \div 16777216 \in {127, 10}
  \/ a.ip_ \div 1048576 = 172 * 16 + 1
  \/ a.ip_ \div 65536 = 192 * 256 + 168

(* A byte: ip >> 24 & 0xff and so on, n being 2^24 and so on.              *)
Octet(ip, n) == (ip \div n) % 256

(* Four numbers, each with a dot behind it; nothing for an address that    *)
(* never had a name.                                                       *)
IPToString(ip) == <<Octet(ip, 16777216), ".", Octet(ip, 65536), ".",
                    Octet(ip, 256), ".", Octet(ip, 1), ".">>
IPAsString(a)  == IF a.hostname_ = 0 THEN <<>> ELSE IPToString(a.ip_)
ToString(a)    == IPAsString(a) \o <<":", a.port_>>

-----------------------------------------------------------------------------
StringToIP(inet_aton, gethostbyname, hostname, use_dns) ==
  IF inet_aton[hostname] # 0 THEN inet_aton[hostname]
  ELSE IF use_dns THEN gethostbyname[hostname] ELSE 0

(* Resolve() keeps a zero when nothing is found; its result says whether   *)
(* the address may be used.                                                *)
Resolves(a, ip, force) == a.hostname_ # 0 /\ (force => ip # 0) /\ (IsAny(a) => ip # 0)
Resolve(a, ip, force) ==
  IF a.hostname_ # 0 /\ (force \/ IsAny(a)) /\ ip # 0 THEN [a EXCEPT !.ip_ = ip] ELSE a

(* Setting the address forgets the name; setting the name resolves it.     *)
SetIP(a, ip) == [a EXCEPT !.hostname_ = 0, !.ip_ = ip]
SetHostname(a, hostname, ip) == Resolve([a EXCEPT !.hostname_ = hostname, !.ip_ = 0], ip, TRUE)
SetResolvedIP(a, ip) == [a EXCEPT !.ip_ = ip]
SetPort(a, port) == [a EXCEPT !.port_ = port]

FromHostname(hostname, ip, port) == SetPort(SetHostname(Clear, hostname, ip), port)
FromIP(ip, port) == SetPort(SetIP(Clear, ip), port)

ToSockAddr(a) == [sin_addr |-> IF a.ip_ = 0 THEN INADDR_ANY ELSE a.ip_, sin_port |-> a.port_]
FromSockAddr(a, saddr) == SetPort(SetIP(a, saddr.sin_addr), saddr.sin_port)

(* The address connect() is given, and whether Connect() gets so far.      *)
ConnectThrows(a, ip) == IsUnresolved(a) /\ ~ Resolves(a, ip, FALSE)
ConnectsTo(a, ip) == ToSockAddr(IF IsUnresolved(a) THEN Resolve(a, ip, FALSE) ELSE a)
=============================================================================
