--------------------------- MODULE InboundForm_proofs ---------------------------
(***************************************************************************)
(* Proofs about InboundForm.  What is stored is always what some well      *)
(* formed inbound is written as (Kept), so that reading it back is a       *)
(* question about one inbound and not about how the form came to it.       *)
(***************************************************************************)
EXTENDS InboundForm, TLAPS

Good(i) == Sound(i) /\ Fits(i)

Kept == saved # None => \E i : Good(i) /\ saved = Stored(i)

Controls == /\ mode \in {"closed", "add", "edit"}
            /\ asks \subseteq Keys /\ posts \subseteq BOOLEAN /\ spin \in BOOLEAN
            /\ changes \in 0..MaxChanges /\ asked \in 0..MaxAsks

IInv == Controls /\ Good(inb) /\ Kept

\* What reading back leaves of an inbound.
Rest(i) == [i EXCEPT !.opt = InUse(i), !.rkey = IF i.sec = "reality" THEN i.rkey ELSE FALSE]

(* An inbound read back from its JSON is itself but for the settings of       *)
(* transports and securities it does not use.                                 *)
LEMMA ReadBack == ASSUME NEW i, Sound(i) PROVE Loaded(Stored(i)) = Rest(i)
<1> DEFINE j == Stored(i)
<1>1. i \in Inbounds
  BY DEF Sound
<1>2. DOMAIN j = Written(i) /\ \A f \in Written(i) : j[f] = IF f = "opt" THEN InUse(i) ELSE i[f]
  BY DEF Stored
<1>3. DOMAIN Fresh = {"proto", "net", "sec", "opt", "flow", "enc", "rkey", "method", "ext"}
  BY DEF Fresh
<1>4. Fresh.flow = FALSE /\ Fresh.enc = FALSE /\ Fresh.rkey = FALSE /\ Fresh.method = ""
  BY DEF Fresh
<1>5. ASSUME NEW f \in DOMAIN Fresh
      PROVE  (IF f \in Written(i) THEN IF f = "opt" THEN InUse(i) ELSE i[f] ELSE Fresh[f]) = Rest(i)[f]
  BY <1>1, <1>3, <1>4 DEF Written, Rest, Inbounds, Sound
<1>6. Loaded(j) = [f \in DOMAIN Fresh |->
          IF f \in Written(i) THEN IF f = "opt" THEN InUse(i) ELSE i[f] ELSE Fresh[f]]
  BY <1>2 DEF Loaded
<1>7. Rest(i) = [f \in DOMAIN Fresh |-> Rest(i)[f]]
  BY <1>1, <1>3 DEF Rest, Inbounds
<1>8. QED
  BY <1>5, <1>6, <1>7

(* What reading back loses is not written either: writing again writes the    *)
(* same.                                                                      *)
LEMMA WrittenAgain ==
    ASSUME NEW i, Good(i)
    PROVE  Good(Rest(i)) /\ Stored(Rest(i)) = Stored(i)
<1>1. Sound(i) /\ i \in Inbounds
  BY DEF Good, Sound
<1>2. InUse(i) \subseteq i.opt /\ i.opt \subseteq Traits
  BY <1>1 DEF InUse, Set, Inbounds
<1>3. (IF i.sec = "reality" THEN i.rkey ELSE FALSE) \in BOOLEAN
  BY <1>1 DEF Inbounds
<1> DEFINE r == Rest(i)
<1>4. r \in Inbounds
  BY <1>1, <1>2, <1>3 DEF Rest, Inbounds
<1>5. /\ r.proto = i.proto /\ r.net = i.net /\ r.sec = i.sec /\ r.method = i.method
      /\ r.ext = i.ext /\ r.opt = InUse(i)
      /\ i.sec = "reality" => r.rkey = i.rkey
  BY <1>1 DEF Rest, Inbounds
<1>6. r.flow = i.flow /\ r.enc = i.enc
  BY <1>1 DEF Rest, Inbounds
<1> HIDE DEF r
<1>7. Good(r)
  BY <1>1, <1>4, <1>5, <1>6 DEF Good, Sound, Fits, CanEnableTlsFlow
<1>8. Written(r) = Written(i)
  BY <1>5, <1>6 DEF Written
<1>9. InUse(r) = InUse(i)
  BY <1>5 DEF InUse, Set
<1>10. ASSUME NEW f \in Written(i), f # "opt" PROVE r[f] = i[f]
  <2>1. f = "rkey" => i.sec = "reality"
    BY <1>10 DEF Written
  <2>2. f \in {"proto", "net", "sec", "ext", "rkey", "flow", "enc", "method"}
    BY <1>10 DEF Written
  <2>3. QED
    BY <2>1, <2>2, <1>5, <1>6
<1>11. Stored(r) = Stored(i)
  BY <1>8, <1>9, <1>10 DEF Stored
<1>12. QED
  BY <1>7, <1>11 DEF r

(* What the watcher leaves fits, when the change fitted or was one it sees.   *)
LEMMA WatchedIsGood ==
    ASSUME NEW old, NEW new, Sound(new), Fits(new) \/ new.sec # old.sec
    PROVE  Good(Watched(old, new))
<1>1. new \in Inbounds
  BY DEF Sound
<1>2. CASE new.sec # old.sec /\ new.proto = "vless" /\ ~CanEnableTlsFlow(new)
  <2> DEFINE w == [new EXCEPT !.flow = FALSE]
  <2>1. w \in Inbounds /\ w.flow = FALSE
    BY <1>1 DEF Inbounds
  <2>2. w.proto = new.proto /\ w.method = new.method
    BY <1>1 DEF Inbounds
  <2>3. Watched(old, new) = w
    BY <1>2 DEF Watched
  <2> HIDE DEF w
  <2>4. QED
    BY <1>2, <2>1, <2>2, <2>3 DEF Good, Sound, Fits
<1>3. CASE ~(new.sec # old.sec /\ new.proto = "vless" /\ ~CanEnableTlsFlow(new))
  <2>1. Watched(old, new) = new
    BY <1>3 DEF Watched
  <2>2. Fits(new)
    BY <1>3 DEF Fits, Sound
  <2>3. QED
    BY <2>1, <2>2 DEF Good
<1>4. QED
  BY <1>2, <1>3

(* A change by hand keeps the form's inbound good when what it makes is       *)
(* sound, and fits unless it changes the security.                            *)
LEMMA ChangeIsGood ==
    ASSUME IInv, NEW new, Sound(new), Fits(new) \/ new.sec # inb.sec, Change(new)
    PROVE  IInv'
<1>1. Good(inb')
  BY WatchedIsGood DEF Change
<1>2. Controls'
  BY BoundsAssumption DEF IInv, Controls, Change
<1>3. Kept'
  BY DEF IInv, Kept, Change
<1>4. QED
  BY <1>1, <1>2, <1>3 DEF IInv

(* The form of a new inbound starts from a good one.                          *)
LEMMA FreshIsGood == Good(Fresh)
<1>1. Fresh \in Inbounds
  BY DEF Fresh, Inbounds, Protos, Nets, Secs
<1>2. QED
  BY <1>1 DEF Good, Sound, Fits, Fresh

(* Every change by hand.                                                      *)
LEMMA HandsKeepIt ==
    ASSUME IInv,
           \/ \E p \in Protos : SetProtocol(p)
           \/ \E n \in Nets : SetNetwork(n)
           \/ \E s \in Secs : SetSecurity(s)
           \/ \E t \in Traits : SetTrait(t)
           \/ \E x \in {"off", "same", "none", "tls"} : SetProxy(x)
           \/ \E m \in Methods : SetMethod(m)
           \/ SetFlow \/ ClearKeys
    PROVE  IInv'
<1>1. Good(inb) /\ Sound(inb) /\ inb \in Inbounds
  BY DEF IInv, Good, Sound
<1>2. ASSUME NEW p \in Protos, SetProtocol(p) PROVE IInv'
  <2> DEFINE new == [inb EXCEPT !.proto = p, !.flow = FALSE, !.enc = FALSE,
                                !.method = DefaultMethod(p)]
  <2>1. new \in Inbounds /\ new.proto = p /\ new.method = DefaultMethod(p)
    BY <1>1 DEF Inbounds, DefaultMethod, Methods
  <2>2. new.flow = FALSE /\ new.enc = FALSE
    BY <1>1 DEF Inbounds
  <2>3. Change(new)
    BY <1>2 DEF SetProtocol
  <2> HIDE DEF new
  <2>4. Sound(new) /\ Fits(new)
    BY <2>1, <2>2 DEF Sound, Fits, DefaultMethod
  <2>5. QED
    BY <2>3, <2>4, ChangeIsGood
<1>3. ASSUME NEW n \in Nets, SetNetwork(n) PROVE IInv'
  <2> DEFINE moved == [inb EXCEPT !.net = n]
             bare == IF CanEnableTls(moved) THEN moved ELSE [moved EXCEPT !.sec = "none"]
             new == [bare EXCEPT !.flow = @ /\ CanEnableTlsFlow(bare)]
  <2>1. Sound(moved)
    BY <1>1 DEF Sound, Inbounds
  <2>2. Sound(bare)
    BY <2>1 DEF Sound, Inbounds, Secs
  <2>3. Change(new)
    BY <1>3 DEF SetNetwork
  <2> HIDE DEF bare
  <2>4. new.flow = (bare.flow /\ CanEnableTlsFlow(bare))
    BY <2>2 DEF Sound, Inbounds
  <2>5. (bare.flow /\ CanEnableTlsFlow(bare)) \in BOOLEAN
    BY DEF CanEnableTlsFlow
  <2>6. /\ new \in Inbounds /\ new.proto = bare.proto /\ new.net = bare.net
        /\ new.sec = bare.sec /\ new.method = bare.method
    BY <2>2, <2>5 DEF Sound, Inbounds
  <2>7. new.enc = bare.enc
    BY <2>2 DEF Sound, Inbounds
  <2> HIDE DEF new
  <2>8. Sound(new) /\ Fits(new)
    BY <2>2, <2>4, <2>6, <2>7 DEF Sound, Fits, CanEnableTlsFlow
  <2>9. QED
    BY <2>3, <2>8, ChangeIsGood
<1>4. ASSUME NEW s \in Secs, SetSecurity(s) PROVE IInv'
  <2> DEFINE new == [inb EXCEPT !.sec = s]
  <2>1. Sound(new) /\ new.sec # inb.sec
    BY <1>1, <1>4 DEF Sound, Inbounds, SetSecurity
  <2>2. Change(new)
    BY <1>4 DEF SetSecurity
  <2>3. QED
    BY <2>1, <2>2, ChangeIsGood
<1>5. ASSUME NEW t \in Traits, SetTrait(t) PROVE IInv'
  <2> DEFINE opt == IF t \in inb.opt THEN inb.opt \ {t} ELSE inb.opt \cup {t}
             new == [inb EXCEPT !.opt = opt]
  <2>1. opt \in SUBSET Traits
    BY <1>1 DEF Inbounds
  <2>2. Change(new)
    BY <1>5 DEF SetTrait
  <2> HIDE DEF opt
  <2>3. Sound(new) /\ Fits(new)
    BY <1>1, <2>1 DEF Good, Sound, Fits, CanEnableTlsFlow, Inbounds
  <2>4. QED
    BY <2>2, <2>3, ChangeIsGood
<1>6. ASSUME NEW x \in {"off", "same", "none", "tls"}, SetProxy(x) PROVE IInv'
  <2> DEFINE new == [inb EXCEPT !.ext = x]
  <2>1. Sound(new) /\ Fits(new)
    BY <1>1 DEF Good, Sound, Fits, CanEnableTlsFlow, Inbounds
  <2>2. QED
    BY <1>6, <2>1, ChangeIsGood DEF SetProxy
<1>7. ASSUME NEW m \in Methods, SetMethod(m) PROVE IInv'
  <2> DEFINE new == [inb EXCEPT !.method = m]
  <2>1. inb.proto = "shadowsocks" /\ m # ""
    BY <1>7 DEF SetMethod, Methods
  <2>2. Sound(new) /\ Fits(new)
    BY <1>1, <2>1 DEF Good, Sound, Fits, CanEnableTlsFlow, Inbounds
  <2>3. QED
    BY <1>7, <2>2, ChangeIsGood DEF SetMethod
<1>8. ASSUME SetFlow PROVE IInv'
  <2> DEFINE new == [inb EXCEPT !.flow = ~@]
  <2>1. CanEnableTlsFlow(inb)
    BY <1>8 DEF SetFlow
  <2>2. Sound(new) /\ Fits(new)
    BY <1>1, <2>1 DEF Good, Sound, Fits, CanEnableTlsFlow, Inbounds
  <2>3. QED
    BY <1>8, <2>2, ChangeIsGood DEF SetFlow
<1>9. ASSUME ClearKeys PROVE IInv'
  <2> DEFINE new == [inb EXCEPT !.enc = FALSE]
  <2>1. Sound(new) /\ Fits(new)
    BY <1>1 DEF Good, Sound, Fits, CanEnableTlsFlow, Inbounds
  <2>2. QED
    BY <1>9, <2>1, ChangeIsGood DEF ClearKeys
<1>10. QED
  BY <1>2, <1>3, <1>4, <1>5, <1>6, <1>7, <1>8, <1>9

(* Keys asked for, and answers written into whichever inbound is open.        *)
LEMMA AnswersKeepIt ==
    ASSUME IInv, NEW k \in Keys, Ask(k) \/ (\E ok \in BOOLEAN : Answer(k, ok)) PROVE IInv'
<1>1. Good(inb) /\ Sound(inb) /\ inb \in Inbounds
  BY DEF IInv, Good, Sound
<1>2. Kept'
  BY DEF IInv, Kept, Ask, Answer
<1>3. Controls'
  <2>1. CASE Ask(k)
    BY <2>1, BoundsAssumption DEF IInv, Controls, Ask
  <2>2. CASE \E ok \in BOOLEAN : Answer(k, ok)
    <3>1. spin' = FALSE /\ asks' \subseteq asks /\ UNCHANGED <<mode, posts, changes, asked>>
      BY <2>2 DEF Answer
    <3>2. QED
      BY <3>1 DEF IInv, Controls
  <2>3. QED
    BY <2>1, <2>2
<1>4. Good(WithKeys(k))
  <2>1. CASE k = "reality"
    <3> DEFINE new == [inb EXCEPT !.rkey = TRUE]
    <3>1. Good(new)
      BY <1>1 DEF Good, Sound, Fits, CanEnableTlsFlow, Inbounds
    <3>2. QED
      BY <2>1, <3>1 DEF WithKeys
  <2>2. CASE k # "reality" /\ inb.proto = "vless"
    <3> DEFINE new == [inb EXCEPT !.enc = TRUE]
    <3>1. Good(new)
      BY <1>1, <2>2 DEF Good, Sound, Fits, CanEnableTlsFlow, Inbounds
    <3>2. (inb.enc \/ inb.proto = "vless") = TRUE
      BY <2>2
    <3>3. QED
      BY <2>2, <3>1, <3>2 DEF WithKeys
  <2>3. CASE k # "reality" /\ inb.proto # "vless"
    <3>1. inb.enc = FALSE
      BY <1>1, <2>3 DEF Sound, Inbounds
    <3>2. (inb.enc \/ inb.proto = "vless") = FALSE
      BY <2>3, <3>1
    <3> DEFINE new == [inb EXCEPT !.enc = FALSE]
    <3>3. Good(new)
      BY <1>1, <2>3 DEF Good, Sound, Fits, CanEnableTlsFlow, Inbounds
    <3>4. QED
      BY <2>3, <3>2, <3>3 DEF WithKeys
  <2>4. QED
    BY <2>1, <2>2, <2>3
<1>5. Good(inb')
  BY <1>1, <1>4 DEF Ask, Answer
<1>6. QED
  BY <1>2, <1>3, <1>5 DEF IInv

(* Reading what is stored gives a good inbound that is stored the same way.   *)
LEMMA StoredIsGood ==
    ASSUME Kept, saved # None
    PROVE  Good(Loaded(saved)) /\ Stored(Loaded(saved)) = saved
<1>1. PICK i : Good(i) /\ saved = Stored(i)
  BY DEF Kept
<1>2. Loaded(saved) = Rest(i)
  BY <1>1, ReadBack DEF Good
<1>3. QED
  BY <1>1, <1>2, WrittenAgain

(* The fields of what is stored that the panel asks for without reading it    *)
(* back.                                                                      *)
LEMMA StoredFields ==
    ASSUME NEW i, Good(i)
    PROVE  /\ Stored(i).proto = i.proto /\ Stored(i).net = i.net /\ Stored(i).sec = i.sec
           /\ DOMAIN Stored(i) = Written(i)
  BY DEF Stored, Written

(* Saving a good inbound, taken or refused by the server.                     *)
LEMMA PostKeepsIt ==
    ASSUME IInv, NEW i, Good(i), NEW ok \in BOOLEAN, Post(i, ok) PROVE IInv'
<1>1. Kept'
  <2>1. CASE ok
    <3>1. saved' = Stored(i)
      BY <2>1 DEF Post
    <3>2. QED
      BY <3>1 DEF Kept
  <2>2. CASE ~ok
    <3>1. saved' = saved
      BY <2>2 DEF Post
    <3>2. QED
      BY <3>1 DEF Kept, IInv
  <2>3. QED
    BY <2>1, <2>2
<1>2. Good(inb')
  BY DEF IInv, Post
<1>3. Controls'
  BY DEF IInv, Controls, Post
<1>4. QED
  BY <1>1, <1>2, <1>3 DEF IInv

(* Opening, closing, saving, cloning, and the client's own form.              *)
LEMMA StorageKeepsIt ==
    ASSUME IInv,
           \/ OpenAdd \/ OpenEdit \/ Cancel \/ EditClient
           \/ \E ok \in BOOLEAN : Save(ok) \/ Clone(ok) \/ Posted(ok)
    PROVE  IInv'
<1>1. Good(inb) /\ Sound(inb) /\ inb \in Inbounds /\ Kept /\ Controls
  BY DEF IInv, Good, Sound
<1>2. ASSUME NEW m \in {"add", "edit"}, NEW i, Good(i), Open(m, i) PROVE IInv'
  <2>1. Good(inb')
    BY <1>2, WatchedIsGood DEF Open, Good
  <2>2. Kept'
    BY <1>1, <1>2 DEF Kept, Open
  <2>3. Controls'
    BY <1>1, <1>2 DEF Controls, Open
  <2>4. QED
    BY <2>1, <2>2, <2>3 DEF IInv
<1>3. CASE OpenAdd
  BY <1>2, <1>3, FreshIsGood DEF OpenAdd
<1>4. CASE OpenEdit
  <2>1. Good(Loaded(Stored(Loaded(saved))))
    BY <1>1, <1>4, StoredIsGood DEF OpenEdit
  <2>2. QED
    BY <1>2, <1>4, <2>1 DEF OpenEdit
<1>5. CASE Cancel
  BY <1>1, <1>5 DEF Cancel, IInv, Controls, Kept
<1>6. CASE EditClient
  <2>1. PICK i : Good(i) /\ saved = Stored(i)
    BY <1>1, <1>6 DEF EditClient, Kept
  <2> DEFINE new == [i EXCEPT !.flow = ~i.flow]
  <2>2. Sound(i) /\ i \in Inbounds
    BY <2>1 DEF Good, Sound
  <2>3. CanEnableTlsFlow(i)
    BY <1>6, <2>1, StoredFields DEF EditClient, CanEnableTlsFlow
  <2>4. i.proto = "vless"
    BY <2>3 DEF CanEnableTlsFlow
  <2>5. Good(new)
    BY <2>2, <2>3, <2>4 DEF Good, Sound, Fits, CanEnableTlsFlow, Inbounds
  <2>6. /\ new.proto = i.proto /\ new.net = i.net /\ new.sec = i.sec /\ new.opt = i.opt
        /\ new.ext = i.ext /\ new.method = i.method /\ new.rkey = i.rkey
    BY <2>2 DEF Inbounds
  <2>7. new.enc = i.enc
    BY <2>2 DEF Inbounds
  <2>8. new.flow = ~i.flow
    BY <2>2 DEF Inbounds
  <2> HIDE DEF new
  <2>9. Written(new) = Written(i) /\ InUse(new) = InUse(i)
    BY <2>6, <2>7 DEF Written, InUse, Set
  <2>10. "flow" \in Written(i)
    BY <2>4 DEF Written
  <2>11. saved.flow = i.flow
    BY <2>1, <2>10 DEF Stored
  <2>12. saved' = [saved EXCEPT !.flow = ~i.flow]
    BY <1>6, <2>11 DEF EditClient
  <2>13. ASSUME NEW f \in Written(i) PROVE saved'[f] = Stored(new)[f]
    <3>1. saved[f] = IF f = "opt" THEN InUse(i) ELSE i[f]
      BY <2>1 DEF Stored
    <3>2. Stored(new)[f] = IF f = "opt" THEN InUse(i) ELSE new[f]
      BY <2>9 DEF Stored
    <3>3. DOMAIN saved = Written(i)
      BY <2>1, StoredFields
    <3>4. CASE f = "flow"
      BY <2>8, <2>12, <3>2, <3>3, <3>4
    <3>5. CASE f # "flow"
      <4>1. saved'[f] = saved[f]
        BY <2>12, <3>3, <3>5
      <4>2. f # "opt" => new[f] = i[f]
        <5>1. f \in {"proto", "net", "sec", "opt", "ext", "rkey", "enc", "method"}
          BY <3>5 DEF Written
        <5>2. QED
          BY <5>1, <2>6, <2>7
      <4>3. QED
        BY <3>1, <3>2, <4>1, <4>2
    <3>6. QED
      BY <3>4, <3>5
  <2>14. saved' = Stored(new)
    <3>1. saved' = [f \in Written(i) |-> saved'[f]]
      BY <2>1, <2>12, StoredFields
    <3>2. Stored(new) = [f \in Written(i) |-> Stored(new)[f]]
      BY <2>9 DEF Stored
    <3>3. QED
      BY <2>13, <3>1, <3>2
  <2>15. Kept'
    BY <2>5, <2>14 DEF Kept
  <2>16. Controls' /\ Good(inb')
    BY <1>1, <1>6, BoundsAssumption DEF Controls, EditClient
  <2>17. QED
    BY <2>15, <2>16 DEF IInv
<1>7. ASSUME NEW ok \in BOOLEAN, Save(ok) PROVE IInv'
  BY <1>1, <1>7, PostKeepsIt DEF Save
<1>8. ASSUME NEW ok \in BOOLEAN, Clone(ok) PROVE IInv'
  <2> DEFINE i == Loaded(saved)
             m == DefaultMethod(saved.proto)
             new == [i EXCEPT !.flow = FALSE, !.enc = FALSE, !.method = m]
  <2>1. Good(i) /\ Stored(i) = saved
    BY <1>1, <1>8, StoredIsGood DEF Clone
  <2>2. saved.proto = i.proto
    BY <2>1, StoredFields
  <2>3. Post(new, ok)
    BY <1>8 DEF Clone
  <2>4. m = IF i.proto = "shadowsocks" THEN "2022" ELSE ""
    BY <2>2 DEF DefaultMethod
  <2> HIDE DEF i, m
  <2>5. i \in Inbounds /\ Sound(i)
    BY <2>1 DEF Good, Sound
  <2>6. new \in Inbounds /\ new.proto = i.proto /\ new.method = m
    BY <2>4, <2>5 DEF Inbounds, Methods
  <2>7. new.flow = FALSE /\ new.enc = FALSE
    BY <2>5 DEF Inbounds
  <2> HIDE DEF new
  <2>8. Good(new)
    BY <2>4, <2>6, <2>7 DEF Good, Sound, Fits
  <2>9. QED
    BY <2>3, <2>8, PostKeepsIt
<1>9. ASSUME NEW ok \in BOOLEAN, Posted(ok) PROVE IInv'
  BY <1>1, <1>9 DEF Posted, IInv, Controls, Kept
<1>10. QED
  BY <1>3, <1>4, <1>5, <1>6, <1>7, <1>8, <1>9

(* The form always holds a good inbound, and what is stored was written from  *)
(* one.                                                                       *)
THEOREM Invariant == Spec => []IInv
<1>1. Init => IInv
  <2>1. Init => Controls
    <3>1. Init => changes \in 0..MaxChanges /\ asked \in 0..MaxAsks
      BY BoundsAssumption DEF Init
    <3>2. Init => spin \in BOOLEAN
      BY DEF Init
    <3>3. Init => mode = "closed" /\ asks = {} /\ posts = {}
      BY DEF Init
    <3>4. QED
      BY <3>1, <3>2, <3>3 DEF Controls
  <2>2. Init => inb = Fresh /\ saved = None
    BY DEF Init
  <2>3. QED
    BY <2>1, <2>2, FreshIsGood DEF IInv, Kept
<1>2. IInv /\ [Next]_vars => IInv'
  <2> SUFFICES ASSUME IInv, [Next]_vars PROVE IInv'
    OBVIOUS
  <2>1. CASE UNCHANGED vars
    BY <2>1 DEF vars, IInv, Controls, Kept
  <2>2. CASE Next
    BY <2>2, HandsKeepIt, AnswersKeepIt, StorageKeepsIt DEF Next
  <2>3. QED
    BY <2>1, <2>2
<1>3. QED
  BY <1>1, <1>2, PTL DEF Spec

(* Types: the form, and what is stored when it is read back, are inbounds     *)
(* with no setting their protocol has no use for.                             *)
THEOREM TypeCorrect == Spec => []TypeOK
<1>1. IInv => TypeOK
  BY StoredIsGood DEF IInv, TypeOK, Controls, Good
<1>2. QED
  BY <1>1, Invariant, PTL

(* A client has a flow only where Vision can run, in whichever order the      *)
(* form's controls are used and the server's answers come.                    *)
THEOREM FlowAlwaysFits == Spec => []FlowFits
<1>1. IInv => FlowFits
  BY StoredIsGood DEF IInv, FlowFits, Good
<1>2. QED
  BY <1>1, Invariant, PTL

(* Opening a stored inbound and storing it again changes nothing.             *)
THEOREM ReopenChangesNothing == Spec => []ReopenKeeps
<1>1. IInv => ReopenKeeps
  BY StoredIsGood DEF IInv, ReopenKeeps
<1>2. QED
  BY <1>1, Invariant, PTL

(* What a link must hold for its reader to make an outbound of it that        *)
(* reaches the inbound.                                                       *)
Faithful(i, l) ==
    /\ l.proto = i.proto /\ l.net = i.net
    /\ l.sec = IF l.to = "proxy" /\ i.ext # "same" THEN i.ext ELSE i.sec
    /\ i.net = "tcp" => ("http" \in l.type <=> "http" \in i.opt)
    /\ i.net = "xhttp" => ("mode" \in l.mode <=> "mode" \in i.opt)
    /\ l.sec = "reality" => l.pbk
    /\ i.proto = "vless" => (l.flow <=> i.flow) /\ (l.enc <=> i.enc)
    /\ i.proto = "shadowsocks" => l.method = i.method /\ l.parts = Parts(i)

Flags(l) == l.pbk \in BOOLEAN /\ l.flow \in BOOLEAN /\ l.enc \in BOOLEAN

LEMMA FaithfulReaches ==
    ASSUME NEW i, i \in Inbounds, NEW l, Flags(l), Faithful(i, l) PROVE Reaches(i, FromLink(l))
<1> DEFINE o == FromLink(l)
<1>1. o.proto = l.proto /\ o.net = l.net /\ o.sec = l.sec /\ o.to = l.to
      /\ o.method = l.method /\ o.parts = l.parts
  BY DEF FromLink
<1>2. o.pbk = l.pbk /\ o.flow = l.flow /\ o.enc = l.enc
  BY DEF FromLink
<1>3. (i.net = "tcp" => o.opt = l.type) /\ (i.net = "xhttp" => o.opt = l.mode)
  BY DEF Faithful, FromLink
<1> HIDE DEF o
<1>4. i.proto = "vless" => o.flow = i.flow /\ o.enc = i.enc
  BY <1>2 DEF Faithful, Flags, Inbounds
<1>5. o.sec = "reality" => o.pbk
  BY <1>1, <1>2 DEF Faithful
<1>6. Reaches(i, o)
  BY <1>1, <1>3, <1>4, <1>5 DEF Faithful, Reaches
<1>7. QED
  BY <1>6 DEF o

(* What the transport and the protocol are set to, as the panel writes it.    *)
LEMMA CommonFields ==
    ASSUME NEW i, NEW to, NEW sec
    PROVE  LET p == Params(i, to, sec)
           IN  /\ p.proto = i.proto /\ p.to = to /\ p.net = i.net /\ p.sec = sec
               /\ p.method = "" /\ p.parts = {"client"}
               /\ p.pbk = FALSE /\ p.flow = FALSE /\ p.enc = FALSE
               /\ i.net = "tcp" => ("http" \in p.type <=> "http" \in i.opt)
               /\ i.net = "xhttp" => ("mode" \in p.mode <=> "mode" \in i.opt)
  BY DEF Params, Common, Set

(* The panel's link, writer by writer.                                        *)
LEMMA PanelReaches ==
    ASSUME NEW i, Good(i), Shareable(i),
           ~(i.proto = "vmess" /\ i.net = "xhttp" /\ "mode" \in i.opt)
    PROVE  Reaches(i, FromLink(PanelLink(i)))
<1> DEFINE to == IF i.ext = "off" \/ i.method = "single" THEN "inbound" ELSE "proxy"
           force == IF i.ext = "off" \/ i.method = "single" THEN "same" ELSE i.ext
           sec == IF force = "same" THEN i.sec ELSE force
           l == PanelLink(i)
           p == Params(i, to, sec)
<1>1. i \in Inbounds /\ Sound(i) /\ Fits(i)
  BY DEF Good, Sound
<1>2. l = GenLink(i, to, force)
  BY DEF PanelLink
<1>3. sec = IF to = "proxy" /\ i.ext # "same" THEN i.ext ELSE i.sec
  OBVIOUS
<1>4. i.sec = "reality" => i.rkey /\ i.proto \in {"vless", "trojan"}
  BY DEF Shareable, CanEnableReality
<1>5. sec = "reality" => i.sec = "reality"
  BY <1>1, <1>3 DEF Inbounds
<1>6. i.proto \in Protos /\ i.rkey \in BOOLEAN /\ i.flow \in BOOLEAN /\ i.enc \in BOOLEAN
  BY <1>1 DEF Inbounds
<1>7. i.flow => sec = i.sec /\ i.sec \in {"tls", "reality"} /\ i.net = "tcp"
  BY <1>1, <1>3 DEF Shareable, Fits, CanEnableTlsFlow
<1> HIDE DEF l
<1>8. l = VmessLink(i, to, sec) \/ i.proto # "vmess"
  BY <1>2 DEF GenLink
<1>9. l = VlessLink(i, to, sec) \/ i.proto # "vless"
  BY <1>2 DEF GenLink
<1>10. l = TrojanLink(i, to, sec) \/ i.proto # "trojan"
  BY <1>2 DEF GenLink
<1>11. l = SSLink(i, to, sec) \/ i.proto # "shadowsocks"
  BY <1>2 DEF GenLink
<1>12. sec \in Secs
  BY <1>1 DEF Inbounds, Secs
<1> HIDE DEF to, force, sec
<1>13. /\ p.proto = i.proto /\ p.to = to /\ p.net = i.net /\ p.sec = sec
       /\ p.method = "" /\ p.parts = {"client"}
       /\ p.pbk = FALSE /\ p.flow = FALSE /\ p.enc = FALSE
       /\ i.net = "tcp" => ("http" \in p.type <=> "http" \in i.opt)
       /\ i.net = "xhttp" => ("mode" \in p.mode <=> "mode" \in i.opt)
  BY CommonFields
<1>14. CASE i.proto = "vmess"
  <2>1. /\ l.proto = i.proto /\ l.net = i.net /\ l.sec = sec /\ l.to = to /\ l.mode = {}
        /\ l.pbk = FALSE /\ l.flow = FALSE /\ l.enc = FALSE
    BY <1>8, <1>14 DEF VmessLink, Common
  <2>2. l.type = (Set(i, "tcp", "http") \cup Set(i, "grpc", "multi")) \cup Set(i, "xhttp", "mode")
    BY <1>8, <1>14 DEF VmessLink, Common
  <2>3. i.net = "tcp" => ("http" \in l.type <=> "http" \in i.opt)
    BY <2>2 DEF Set
  <2>4. Faithful(i, l)
    BY <1>3, <1>4, <1>5, <1>14, <2>1, <2>3 DEF Faithful
  <2>5. QED
    BY <1>1, <2>1, <2>4, FaithfulReaches DEF Flags, l
<1>15. CASE i.proto = "vless"
  <2>1. /\ l.proto = p.proto /\ l.net = p.net /\ l.sec = p.sec /\ l.to = p.to
        /\ l.type = p.type /\ l.mode = p.mode
    BY <1>9, <1>15 DEF VlessLink, Params, Common
  <2>2. l.enc = i.enc
    BY <1>9, <1>15 DEF VlessLink, Params, Common
  <2>3. l.pbk = (sec = "reality" /\ i.rkey)
    BY <1>9, <1>15 DEF VlessLink, Params, Common
  <2>4. l.flow = (i.flow /\ i.net = "tcp" /\ (sec = "reality" \/ (sec = "tls" /\ i.sec = "tls")))
    BY <1>9, <1>15 DEF VlessLink, Params, Common
  <2>5. l.flow <=> i.flow
    BY <1>7, <2>4
  <2>6. Flags(l)
    BY <1>6, <2>2, <2>3, <2>4 DEF Flags
  <2> HIDE DEF p
  <2>7. Faithful(i, l)
    BY <1>3, <1>4, <1>5, <1>13, <1>15, <2>1, <2>2, <2>3, <2>5 DEF Faithful
  <2>8. QED
    BY <1>1, <2>6, <2>7, FaithfulReaches DEF l
<1>16. CASE i.proto = "trojan"
  <2>1. /\ l.proto = p.proto /\ l.net = p.net /\ l.sec = p.sec /\ l.to = p.to
        /\ l.type = p.type /\ l.mode = p.mode /\ l.flow = p.flow /\ l.enc = p.enc
    BY <1>10, <1>16 DEF TrojanLink, Params, Common
  <2>2. l.pbk = (sec = "reality" /\ i.rkey)
    BY <1>10, <1>16 DEF TrojanLink, Params, Common
  <2>3. Flags(l)
    BY <1>13, <2>1, <2>2 DEF Flags
  <2> HIDE DEF p
  <2>4. Faithful(i, l)
    BY <1>3, <1>4, <1>5, <1>13, <1>16, <2>1, <2>2 DEF Faithful
  <2>5. QED
    BY <1>1, <2>3, <2>4, FaithfulReaches DEF l
<1>17. CASE i.proto = "shadowsocks"
  <2>1. i.sec \in {"none", "tls"} /\ sec \in {"none", "tls"}
    BY <1>1, <1>4, <1>5, <1>17, <1>12 DEF Inbounds, Secs
  <2>2. /\ l.proto = p.proto /\ l.net = p.net /\ l.to = p.to
        /\ l.type = p.type /\ l.mode = p.mode /\ l.flow = p.flow /\ l.enc = p.enc
        /\ l.pbk = p.pbk /\ l.method = i.method /\ l.parts = Parts(i)
    BY <1>11, <1>17 DEF SSLink, Params, Common
  <2>3. l.sec = IF sec = "tls" THEN "tls" ELSE "none"
    BY <1>11, <1>17 DEF SSLink, Params, Common
  <2>4. Flags(l)
    BY <1>13, <2>2 DEF Flags
  <2> HIDE DEF p
  <2>5. l.sec = sec
    BY <2>1, <2>3
  <2>6. Faithful(i, l)
    BY <1>3, <1>13, <1>17, <2>1, <2>2, <2>5 DEF Faithful
  <2>7. QED
    BY <1>1, <2>4, <2>6, FaithfulReaches DEF l
<1>18. QED
  BY <1>6, <1>14, <1>15, <1>16, <1>17 DEF Protos

(* The panel's link of whatever the form has stored reaches it, outside the   *)
(* cases the property names.                                                  *)
THEOREM PanelAlwaysConnects == Spec => []PanelConnects
<1>1. IInv => PanelConnects
  BY StoredIsGood, PanelReaches DEF IInv, PanelConnects
<1>2. QED
  BY <1>1, Invariant, PTL

LinkFields == {"proto", "to", "net", "sec", "type", "mode", "pbk", "flow", "enc", "method", "parts"}

(* The subscription's link at the inbound's own address, writer by writer.    *)
LEMMA OwnIsFaithful ==
    ASSUME NEW i, Good(i), Shareable(i)
    PROVE  LET own == SubOwn(i)
           IN  /\ DOMAIN own = LinkFields /\ own.to = "inbound"
               /\ Flags(own) /\ Faithful(i, own)
<1> DEFINE own == SubOwn(i)
           p == Params(i, "inbound", i.sec)
           q == SubParams(i)
<1>1. i \in Inbounds /\ Sound(i) /\ Fits(i)
  BY DEF Good, Sound
<1>2. i.sec = "reality" => i.rkey /\ i.proto \in {"vless", "trojan"}
  BY DEF Shareable, CanEnableReality
<1>3. i.proto \in Protos /\ i.rkey \in BOOLEAN /\ i.flow \in BOOLEAN /\ i.enc \in BOOLEAN
  BY <1>1 DEF Inbounds
<1>4. i.flow => i.sec \in {"tls", "reality"} /\ i.net = "tcp"
  BY <1>1 DEF Fits, CanEnableTlsFlow
<1>5. /\ DOMAIN q = LinkFields
      /\ q.proto = i.proto /\ q.to = "inbound" /\ q.net = i.net /\ q.sec = i.sec
      /\ q.type = p.type /\ q.mode = p.mode
  BY DEF SubParams, Params, Common, LinkFields
<1>6. q.pbk = (i.sec = "reality" /\ i.rkey)
  BY DEF SubParams, Params, Common
<1>7. q.enc = i.enc
  BY DEF SubParams, Params, Common
<1>8. q.flow = (i.flow /\ i.net = "tcp" /\ i.sec \in {"tls", "reality"})
  BY DEF SubParams, Params, Common
<1>9. q.flow <=> i.flow
  BY <1>4, <1>8
<1>10. q.pbk \in BOOLEAN /\ q.enc \in BOOLEAN /\ q.flow \in BOOLEAN
  BY <1>3, <1>6, <1>7, <1>8
<1> HIDE DEF q
<1>11. /\ i.net = "tcp" => ("http" \in q.type <=> "http" \in i.opt)
       /\ i.net = "xhttp" => ("mode" \in q.mode <=> "mode" \in i.opt)
  BY <1>5 DEF Params, Common, Set
<1> HIDE DEF p
<1>12. CASE i.proto = "vmess"
  <2>1. /\ DOMAIN own = LinkFields
        /\ own.proto = i.proto /\ own.net = i.net /\ own.sec = i.sec /\ own.to = "inbound"
        /\ own.type = Set(i, "tcp", "http") \cup Set(i, "grpc", "multi")
        /\ own.mode = Set(i, "xhttp", "mode")
        /\ own.pbk = FALSE /\ own.flow = FALSE /\ own.enc = FALSE
    BY <1>12 DEF SubOwn, Common, LinkFields
  <2>2. /\ i.net = "tcp" => ("http" \in own.type <=> "http" \in i.opt)
        /\ i.net = "xhttp" => ("mode" \in own.mode <=> "mode" \in i.opt)
    BY <2>1 DEF Set
  <2> HIDE DEF own
  <2>3. Faithful(i, own)
    BY <1>2, <1>12, <2>1, <2>2 DEF Faithful
  <2>4. QED
    BY <2>1, <2>3 DEF Flags, own
<1>13. CASE i.proto \in {"vless", "trojan"}
  <2>1. own = q
    BY <1>13 DEF SubOwn, q
  <2>2. Faithful(i, q)
    BY <1>2, <1>5, <1>11, <1>6, <1>7, <1>9, <1>13 DEF Faithful
  <2>3. QED
    BY <1>5, <1>10, <2>1, <2>2 DEF Flags
<1>14. CASE i.proto = "shadowsocks"
  <2> DEFINE sec == IF i.sec = "tls" THEN "tls" ELSE "none"
  <2>1. own = [q EXCEPT !.method = i.method, !.parts = Parts(i), !.sec = sec]
    BY <1>14 DEF SubOwn, q
  <2>2. sec = i.sec
    BY <1>1, <1>2, <1>14 DEF Inbounds, Secs
  <2> HIDE DEF own, sec
  <2>3. /\ DOMAIN own = LinkFields
        /\ own.proto = q.proto /\ own.net = q.net /\ own.to = q.to /\ own.sec = sec
        /\ own.type = q.type /\ own.mode = q.mode
        /\ own.method = i.method /\ own.parts = Parts(i)
    BY <1>5, <2>1 DEF LinkFields
  <2>4. own.pbk = q.pbk /\ own.flow = q.flow /\ own.enc = q.enc
    BY <1>5, <2>1 DEF LinkFields
  <2>5. Faithful(i, own)
    BY <1>2, <1>5, <1>11, <1>14, <2>2, <2>3 DEF Faithful
  <2>6. Flags(own)
    BY <1>10, <2>4 DEF Flags
  <2>7. QED
    BY <1>5, <2>3, <2>5, <2>6 DEF own
<1>15. QED
  BY <1>3, <1>12, <1>13, <1>14 DEF Protos

(* A proxy only changes where the link leads and which security it has.       *)
LEMMA SubscriptionReaches ==
    ASSUME NEW i, Good(i), Shareable(i) PROVE Reaches(i, FromLink(SubLink(i)))
<1> DEFINE own == SubOwn(i)
           l == SubLink(i)
           sec == IF i.ext = "same" THEN i.sec ELSE i.ext
<1>1. i \in Inbounds
  BY DEF Good, Sound
<1>2. DOMAIN own = LinkFields /\ own.to = "inbound" /\ Flags(own) /\ Faithful(i, own)
  BY OwnIsFaithful
<1>3. CASE i.ext = "off"
  BY <1>1, <1>2, <1>3, FaithfulReaches DEF SubLink
<1>4. CASE i.ext # "off"
  <2>1. l = [own EXCEPT !.to = "proxy", !.sec = sec]
    BY <1>4 DEF SubLink
  <2>2. sec = "reality" => i.sec = "reality"
    BY <1>1 DEF Inbounds
  <2>3. sec = IF i.ext # "same" THEN i.ext ELSE i.sec
    OBVIOUS
  <2>4. own.sec = i.sec
    BY <1>2 DEF Faithful
  <2> HIDE DEF l, own, sec
  <2>5. /\ l.proto = own.proto /\ l.net = own.net /\ l.to = "proxy" /\ l.sec = sec
        /\ l.type = own.type /\ l.mode = own.mode
        /\ l.method = own.method /\ l.parts = own.parts
    BY <1>2, <2>1 DEF LinkFields
  <2>6. l.pbk = own.pbk /\ l.flow = own.flow /\ l.enc = own.enc
    BY <1>2, <2>1 DEF LinkFields
  <2>7. Faithful(i, l)
    BY <1>2, <2>2, <2>3, <2>4, <2>5, <2>6 DEF Faithful
  <2>8. Flags(l)
    BY <1>2, <2>6 DEF Flags
  <2>9. QED
    BY <1>1, <2>7, <2>8, FaithfulReaches DEF l
<1>5. QED
  BY <1>3, <1>4

(* The subscription's link of whatever the form has stored reaches it.        *)
THEOREM SubscriptionAlwaysConnects == Spec => []SubscriptionConnects
<1>1. IInv => SubscriptionConnects
  BY StoredIsGood, SubscriptionReaches DEF IInv, SubscriptionConnects
<1>2. QED
  BY <1>1, Invariant, PTL
===============================================================================
