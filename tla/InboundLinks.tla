------------------------------ MODULE InboundLinks ------------------------------
(***************************************************************************)
(* The links that share an inbound with its clients: the panel makes them  *)
(* in the browser, the subscription server makes its own in Go, and the    *)
(* panel of another server turns either into an outbound.                  *)
(*                                                                         *)
(* An inbound has one client.  What is copied as it stands (address, port, *)
(* path, host, SNI, fingerprint, short id) is left out; what some writer   *)
(* or reader drops, moves or makes conditional is kept.                    *)
(***************************************************************************)
EXTENDS FiniteSets

Protos == {"vmess", "vless", "trojan", "shadowsocks"}
Nets == {"tcp", "kcp", "ws", "grpc", "httpupgrade", "xhttp"}
Secs == {"none", "tls", "reality"}

\* Settings of the transports other than the default: TCP's HTTP header,
\* gRPC's multi mode, XHTTP's mode, a UDP mask.
Traits == {"http", "multi", "mode", "mask"}

\* Methods of Shadowsocks: with a password of the inbound and one of the
\* client, with the inbound's only, with the client's only.
Methods == {"2022", "single", "legacy"}

Inbounds ==
    [proto : Protos, net : Nets, sec : Secs, opt : SUBSET Traits,
     flow : BOOLEAN,                        \* the client uses XTLS Vision
     enc : BOOLEAN,                         \* VLESS encryption has keys
     rkey : BOOLEAN,                        \* REALITY has keys
     method : Methods \cup {""},
     ext : {"off", "same", "none", "tls"}]  \* externalProxy and its forceTls

CanEnableTls(i) == i.net # "kcp"
CanEnableTlsFlow(i) == i.sec \in {"tls", "reality"} /\ i.net = "tcp" /\ i.proto = "vless"
CanEnableReality(i) == i.proto \in {"vless", "trojan"} /\ i.net \in {"tcp", "grpc", "xhttp"}

\* The passwords a client of Shadowsocks needs; others are known by their id.
Parts(i) == CASE i.method = "2022" -> {"inbound", "client"}
              [] i.method = "single" -> {"inbound"}
              [] OTHER -> {"client"}

-------------------------------------------------------------------------------
(* The panel's links.  The VMess link is an object whose "type" holds what    *)
(* the transport is set to, the others hold it in the parameters headerType   *)
(* and mode.                                                                  *)

Set(i, net, trait) == IF i.net = net THEN i.opt \cap {trait} ELSE {}

Common(i, to, sec) ==
    [proto |-> i.proto, to |-> to, net |-> i.net, sec |-> sec,
     type |-> Set(i, "tcp", "http"), mode |-> {},
     pbk |-> FALSE, flow |-> FALSE, enc |-> FALSE, method |-> "", parts |-> {"client"}]

VmessLink(i, to, sec) ==
    [Common(i, to, sec) EXCEPT
        !.type = @ \cup Set(i, "grpc", "multi") \cup Set(i, "xhttp", "mode")]

Params(i, to, sec) ==
    [Common(i, to, sec) EXCEPT !.mode = Set(i, "grpc", "multi") \cup Set(i, "xhttp", "mode")]

VlessLink(i, to, sec) ==
    [Params(i, to, sec) EXCEPT
        !.enc = i.enc,
        !.pbk = sec = "reality" /\ i.rkey,
        !.flow = i.flow /\ i.net = "tcp" /\ (sec = "reality" \/ (sec = "tls" /\ i.sec = "tls"))]

TrojanLink(i, to, sec) == [Params(i, to, sec) EXCEPT !.pbk = sec = "reality" /\ i.rkey]

\* A link of Shadowsocks has no word for REALITY.
SSLink(i, to, sec) ==
    [Params(i, to, sec) EXCEPT !.sec = IF sec = "tls" THEN "tls" ELSE "none",
                               !.method = i.method, !.parts = Parts(i)]

GenLink(i, to, force) ==
    LET sec == IF force = "same" THEN i.sec ELSE force
    IN  CASE i.proto = "vmess" -> VmessLink(i, to, sec)
          [] i.proto = "vless" -> VlessLink(i, to, sec)
          [] i.proto = "trojan" -> TrojanLink(i, to, sec)
          [] i.proto = "shadowsocks" -> SSLink(i, to, sec)

\* The inbound without clients of its own is always shared at its own address.
PanelLink(i) ==
    IF i.ext = "off" \/ i.method = "single" THEN GenLink(i, "inbound", "same")
                                            ELSE GenLink(i, "proxy", i.ext)

-------------------------------------------------------------------------------
(* The subscription's links. *)

\* Type assertions on settings mKCP no longer has panic, except for VMess.
SubPanics(i) == i.net = "kcp" /\ i.proto # "vmess"
SubListed(i) == i.method # "single"

\* Mutant of SubParams: the flow is only given with TLS.
MutantSubParams(i) ==
    [Params(i, "inbound", i.sec) EXCEPT
        !.enc = i.enc,
        !.pbk = i.sec = "reality" /\ i.rkey,
        !.flow = i.flow /\ i.net = "tcp" /\ i.sec = "tls"]

SubParams(i) ==
    [Params(i, "inbound", i.sec) EXCEPT
        !.enc = i.enc,
        !.pbk = i.sec = "reality" /\ i.rkey,
        !.flow = i.flow /\ i.net = "tcp" /\ i.sec \in {"tls", "reality"}]

SubOwn(i) ==
    CASE i.proto = "vmess" ->
            [Common(i, "inbound", i.sec) EXCEPT !.type = @ \cup Set(i, "grpc", "multi"),
                                                !.mode = Set(i, "xhttp", "mode")]
      [] i.proto = "shadowsocks" ->
            [SubParams(i) EXCEPT !.method = i.method, !.parts = Parts(i),
                                 !.sec = IF i.sec = "tls" THEN "tls" ELSE "none"]
      [] OTHER -> SubParams(i)

SubLink(i) ==
    IF i.ext = "off" THEN SubOwn(i)
    ELSE [SubOwn(i) EXCEPT !.to = "proxy", !.sec = IF i.ext = "same" THEN i.sec ELSE i.ext]

-------------------------------------------------------------------------------
(* Outbound.fromLink. *)

\* Mutant of FromLink: gRPC's multi mode and XHTTP's mode are read from headerType.
MutantFromLink(l) ==
    [proto |-> l.proto, to |-> l.to, net |-> l.net, sec |-> l.sec,
     opt |-> l.type, pbk |-> l.pbk, flow |-> l.flow, enc |-> l.enc,
     method |-> l.method, parts |-> l.parts]

\* Of a VMess link, "type" is read for TCP and gRPC and "mode" for XHTTP.
FromLink(l) ==
    [proto |-> l.proto, to |-> l.to, net |-> l.net, sec |-> l.sec,
     opt |-> IF l.net = "tcp" \/ (l.net = "grpc" /\ l.proto = "vmess") THEN l.type ELSE l.mode,
     pbk |-> l.pbk, flow |-> l.flow, enc |-> l.enc, method |-> l.method, parts |-> l.parts]

-------------------------------------------------------------------------------
(* What Xray asks of an outbound that is to reach an inbound (external).      *)
(* A proxy in front of the inbound has the TLS its forceTls tells.            *)
Reaches(i, o) ==
    /\ o.proto = i.proto /\ o.net = i.net
    /\ o.sec = IF o.to = "proxy" /\ i.ext # "same" THEN i.ext ELSE i.sec
    /\ i.net = "tcp" => ("http" \in o.opt <=> "http" \in i.opt)
    /\ i.net = "xhttp" => ("mode" \in o.opt <=> "mode" \in i.opt)
    /\ o.sec = "reality" => o.pbk
    /\ i.proto = "vless" => o.flow = i.flow /\ o.enc = i.enc
    /\ i.proto = "shadowsocks" => o.method = i.method /\ o.parts = Parts(i)

\* No link tells of a UDP mask, which mKCP needs; REALITY needs its keys, and a
\* form may leave it on where it does not belong; a flow ends where a proxy
\* has another security.
Shareable(i) ==
    /\ ~(i.net = "kcp" /\ "mask" \in i.opt)
    /\ i.sec = "reality" => CanEnableReality(i) /\ i.rkey
    /\ i.flow => i.ext \in {"off", "same"}
===============================================================================
