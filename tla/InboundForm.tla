------------------------------ MODULE InboundForm -------------------------------
(***************************************************************************)
(* The form an inbound is made and changed with in the browser             *)
(* (inbound_modal.html over the model in inbound.js), its storage as JSON, *)
(* and the links made of what is stored.                                   *)
(*                                                                         *)
(* The form hides a control where it makes no sense, and its handlers undo *)
(* what a change elsewhere has made senseless.  Keys come from the server: *)
(* the answer is written into whichever inbound the form then holds.       *)
(***************************************************************************)
EXTENDS InboundLinks, Naturals

CONSTANTS
    None,        \* nothing is stored
    MaxChanges,  \* bound: changes made by hand
    MaxAsks,     \* bound: keys asked for
    MaxPosts     \* bound: saves under way at a time

ASSUME BoundsAssumption == MaxChanges \in Nat /\ MaxAsks \in Nat /\ MaxPosts \in Nat

VARIABLES
    mode,    \* the form: closed, add or edit
    inb,     \* inModal.inbound; it outlives the form
    saved,   \* the inbound last stored, as the fields its JSON has, or None
    asks,    \* keys asked for and not yet answered
    posts,   \* answers to come from saving, by whether the server took it
    spin,    \* confirmLoading: the form cannot be confirmed
    changes, asked

vars == <<mode, inb, saved, asks, posts, spin, changes, asked>>

Keys == {"reality", "encryption"}

Fresh == [proto |-> "vless", net |-> "tcp", sec |-> "none", opt |-> {}, flow |-> FALSE,
          enc |-> FALSE, rkey |-> FALSE, method |-> "", ext |-> "off"]

-------------------------------------------------------------------------------
(* toJson: the settings of the protocol, of the security and of the transport *)
(* that are in use; the masks whatever the transport.                         *)
Written(i) ==
    {"proto", "net", "sec", "opt", "ext"}
        \cup (IF i.sec = "reality" THEN {"rkey"} ELSE {})
        \cup (IF i.proto = "vless" THEN {"flow"} ELSE {})
        \cup (IF i.proto = "vless" /\ i.enc THEN {"enc"} ELSE {})
        \cup (IF i.proto = "shadowsocks" THEN {"method"} ELSE {})

InUse(i) == Set(i, "tcp", "http") \cup Set(i, "grpc", "multi") \cup Set(i, "xhttp", "mode")
            \cup (i.opt \cap {"mask"})

Stored(i) == [f \in Written(i) |-> IF f = "opt" THEN InUse(i) ELSE i[f]]

\* Mutant of Loaded: the constructor's parameters are shifted past externalProxy.
MutantLoaded(json) ==
    [f \in DOMAIN Fresh |-> IF f \in DOMAIN json \ {"ext"} THEN json[f] ELSE Fresh[f]]

\* fromJson: what is not there gets the constructor's default.
Loaded(json) == [f \in DOMAIN Fresh |-> IF f \in DOMAIN json THEN json[f] ELSE Fresh[f]]

\* Mutant of Watched: the flows stay when the security goes.
MutantWatched(old, new) == new

\* The watcher of the security, which sees another inbound as a change too.
Watched(old, new) ==
    IF new.sec # old.sec /\ new.proto = "vless" /\ ~CanEnableTlsFlow(new)
    THEN [new EXCEPT !.flow = FALSE] ELSE new

Init ==
    /\ mode = "closed" /\ inb = Fresh /\ saved = None
    /\ asks = {} /\ posts = {} /\ spin = FALSE
    /\ changes = 0 /\ asked = 0

-------------------------------------------------------------------------------
Open(m, i) ==
    /\ mode = "closed"
    /\ mode' = m /\ inb' = Watched(inb, i)
    /\ UNCHANGED <<saved, asks, posts, spin, changes, asked>>

OpenAdd == Open("add", Fresh)
\* dbInbound.toInbound(), and once more through JSON in show().
OpenEdit == saved # None /\ Open("edit", Loaded(Stored(Loaded(saved))))

\* The form is closed without close(): its button goes on spinning.
Cancel ==
    /\ mode # "closed" /\ mode' = "closed"
    /\ UNCHANGED <<inb, saved, asks, posts, spin, changes, asked>>

\* postWithModal: the server stores the inbound, or refuses; the answer follows.
Post(i, ok) ==
    /\ ok \notin posts /\ Cardinality(posts) < MaxPosts /\ posts' = posts \cup {ok}
    /\ spin' = TRUE
    /\ saved' = IF ok THEN Stored(i) ELSE saved
    /\ UNCHANGED <<mode, inb, asks, changes, asked>>

Save(ok) == mode # "closed" /\ ~spin /\ Post(inb, ok)

DefaultMethod(p) == IF p = "shadowsocks" THEN "2022" ELSE ""

\* The settings of a clone are new, its stream settings are the original's.
Clone(ok) ==
    /\ mode = "closed" /\ saved # None
    /\ Post([Loaded(saved) EXCEPT !.flow = FALSE, !.enc = FALSE,
                                  !.method = DefaultMethod(saved.proto)], ok)

\* The answer closes whichever form is open by then.
Posted(ok) ==
    /\ ok \in posts /\ posts' = posts \ {ok}
    /\ spin' = FALSE
    /\ mode' = IF ok THEN "closed" ELSE mode
    /\ UNCHANGED <<inb, saved, asks, changes, asked>>

-------------------------------------------------------------------------------
(* Changes by hand. *)

Change(new) ==
    /\ mode # "closed"
    /\ changes < MaxChanges /\ changes' = changes + 1
    /\ inb' = Watched(inb, new)
    /\ UNCHANGED <<mode, saved, asks, posts, spin, asked>>

\* set protocol: new settings, the stream stays.
SetProtocol(p) ==
    /\ mode = "add" /\ p # inb.proto
    /\ Change([inb EXCEPT !.proto = p, !.flow = FALSE, !.enc = FALSE, !.method = DefaultMethod(p)])

\* streamNetworkChange.
SetNetwork(n) ==
    LET moved == [inb EXCEPT !.net = n]
        bare == IF CanEnableTls(moved) THEN moved ELSE [moved EXCEPT !.sec = "none"]
    IN  /\ n # inb.net
        /\ Change([bare EXCEPT !.flow = @ /\ CanEnableTlsFlow(bare)])

SetSecurity(s) ==
    /\ s # inb.sec /\ CanEnableTls(inb)
    /\ s = "reality" => CanEnableReality(inb)
    /\ Change([inb EXCEPT !.sec = s])

Visible(i) == {t \in Traits : \/ t = "http" /\ i.net = "tcp"
                              \/ t = "multi" /\ i.net = "grpc"
                              \/ t = "mode" /\ i.net = "xhttp"
                              \/ t = "mask" /\ i.net # "grpc"}

SetTrait(t) ==
    /\ t \in Visible(inb)
    /\ Change([inb EXCEPT !.opt = IF t \in @ THEN @ \ {t} ELSE @ \cup {t}])

\* The switch makes one proxy with "same", whose forceTls is then chosen.
SetProxy(x) ==
    /\ x # inb.ext /\ (inb.ext = "off" => x = "same")
    /\ Change([inb EXCEPT !.ext = x])

\* SSMethodChange; the clients' passwords are made anew.
SetMethod(m) == inb.proto = "shadowsocks" /\ m # inb.method /\ Change([inb EXCEPT !.method = m])

\* The client of a new inbound is edited in the same form.
SetFlow == mode = "add" /\ CanEnableTlsFlow(inb) /\ Change([inb EXCEPT !.flow = ~@])

\* A stored client is edited in a form of his own (updateClient).
EditClient ==
    /\ mode = "closed" /\ saved # None /\ CanEnableTlsFlow(saved)
    /\ changes < MaxChanges /\ changes' = changes + 1
    /\ saved' = [saved EXCEPT !.flow = ~@]
    /\ UNCHANGED <<mode, inb, asks, posts, spin, asked>>

ClearKeys ==
    /\ inb.proto = "vless" /\ inb.sec # "reality" /\ inb.enc
    /\ Change([inb EXCEPT !.enc = FALSE])

-------------------------------------------------------------------------------
(* Keys from the server (getNewX25519Cert, getNewVlessEnc). *)

Offered(k) ==
    IF k = "reality" THEN inb.sec = "reality" /\ ~inb.enc
                     ELSE inb.proto = "vless" /\ inb.sec # "reality"

Ask(k) ==
    /\ mode # "closed" /\ Offered(k) /\ k \notin asks
    /\ asked < MaxAsks /\ asked' = asked + 1
    /\ asks' = asks \cup {k} /\ spin' = TRUE
    /\ UNCHANGED <<mode, inb, saved, posts, changes>>

\* Mutant of WithKeys: VLESS keys are written into whatever settings are open.
MutantWithKeys(k) ==
    IF k = "reality" THEN [inb EXCEPT !.rkey = TRUE] ELSE [inb EXCEPT !.enc = TRUE]

\* Settings without the menu of methods get no VLESS keys.
WithKeys(k) ==
    IF k = "reality" THEN [inb EXCEPT !.rkey = TRUE]
    ELSE [inb EXCEPT !.enc = @ \/ inb.proto = "vless"]

Answer(k, ok) ==
    /\ k \in asks /\ asks' = asks \ {k}
    /\ spin' = FALSE
    /\ inb' = IF ok THEN WithKeys(k) ELSE inb
    /\ UNCHANGED <<mode, saved, posts, changes, asked>>

-------------------------------------------------------------------------------
Next ==
    \/ OpenAdd \/ OpenEdit \/ Cancel
    \/ \E ok \in BOOLEAN : Save(ok) \/ Clone(ok) \/ Posted(ok)
    \/ \E p \in Protos : SetProtocol(p)
    \/ \E n \in Nets : SetNetwork(n)
    \/ \E s \in Secs : SetSecurity(s)
    \/ \E t \in Traits : SetTrait(t)
    \/ \E x \in {"off", "same", "none", "tls"} : SetProxy(x)
    \/ \E m \in Methods : SetMethod(m)
    \/ SetFlow \/ EditClient \/ ClearKeys
    \/ \E k \in Keys : Ask(k) \/ (\E ok \in BOOLEAN : Answer(k, ok))

Spec == Init /\ [][Next]_vars

-------------------------------------------------------------------------------
(* Types; what the protocol has no use for is not set.                        *)
Sound(i) ==
    /\ i \in Inbounds
    /\ i.proto = "shadowsocks" <=> i.method # ""
    /\ i.proto # "vless" => ~i.flow /\ ~i.enc

TypeOK ==
    /\ mode \in {"closed", "add", "edit"}
    /\ Sound(inb)
    /\ saved # None => Sound(Loaded(saved))
    /\ asks \subseteq Keys /\ posts \subseteq BOOLEAN /\ spin \in BOOLEAN
    /\ changes \in 0..MaxChanges /\ asked \in 0..MaxAsks

Fits(i) == i.flow => CanEnableTlsFlow(i)

(* Whatever is changed in whichever order, here or in the client's own form,  *)
(* a client has a flow only where Vision can run: Xray turns every connection *)
(* of such a client away elsewhere (inbound.js:1321-1327,                     *)
(* inbound_modal.html watch and streamNetworkChange).                         *)
FlowFits == Fits(inb) /\ (saved # None => Fits(Loaded(saved)))

(* To open a stored inbound and to store it again changes nothing.            *)
ReopenKeeps == saved # None => Stored(Loaded(saved)) = saved

(* The panel's link of a stored inbound, turned into an outbound, reaches it; *)
(* but the VMess link has XHTTP's mode where the reader does not look         *)
(* (inbound.js:1356-1811, outbound.js:856-1020).                              *)
PanelConnects ==
    saved # None =>
        LET i == Loaded(saved)
        IN  Shareable(i) /\ ~(i.proto = "vmess" /\ i.net = "xhttp" /\ "mode" \in i.opt)
            => Reaches(i, FromLink(PanelLink(i)))

(* And so does the subscription's link, made in Go of the stored JSON, of     *)
(* every inbound the subscription lists, unless it panics on it               *)
(* (subService.go:156-860).                                                   *)
SubscriptionConnects ==
    saved # None =>
        LET i == Loaded(saved)
        IN  Shareable(i) /\ SubListed(i) /\ ~SubPanics(i)
            => Reaches(i, FromLink(SubLink(i)))
===============================================================================
