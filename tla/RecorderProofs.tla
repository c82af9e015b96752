--------------------------- MODULE RecorderProofs ---------------------------
(***************************************************************************)
(* Proofs about Recorder, for any number of requests, hops, pages and      *)
(* waiting events.  The invariant is proved in layers, each of which uses  *)
(* the ones before: types; the hops that are queued, under way and stored; *)
(* the chains; the additional headers; the pages.                          *)
(***************************************************************************)
EXTENDS Recorder, WellFoundedInduction, TLAPS

-----------------------------------------------------------------------------
(* Numbers and streams *)

\* The bounds are numbers.
LEMMA Bounds == MaxHops \in Nat /\ MaxPages \in Nat /\ MaxBacklog \in Nat
BY ConstantsAssumption

Below == {p \in Nat \X Nat : p[1] < p[2]}

\* The order of the natural numbers is well founded.
LEMMA BelowFounded == IsWellFoundedOn(Below, Nat)
BY NatLessThanWellFounded, Zenon DEF OpToRel, Below

\* A set of places that is not empty has a greatest one.
LEMMA Greatest ==
  ASSUME NEW n \in Nat, NEW S \in SUBSET (1..n), S # {}
  PROVE  Max(S) \in S /\ \A y \in S : Max(S) >= y
<1> DEFINE T == {n - y : y \in S}
<1>1. T \subseteq Nat /\ T # {}
  <2>1. \A y \in S : y \in Nat /\ y <= n
    OBVIOUS
  <2>2. \A y \in S : n - y \in Nat
    BY <2>1
  <2> QED BY <2>2
<1>2. PICK t \in T : \A u \in T : ~(<<u, t>> \in Below)
  <2> HIDE DEF T
  <2> QED BY BelowFounded, <1>1, WFMin
<1>3. PICK x \in S : t = n - x
  BY <1>2
<1>4. ASSUME NEW y \in S PROVE x >= y
  <2>1. n - y \in T
    OBVIOUS
  <2>2. ~(n - y < t)
    BY <2>1, <1>1, <1>2 DEF Below
  <2> QED BY <2>2, <1>3
<1> QED BY <1>4 DEF Max

\* The last change of address that counts is the last one that is no frame's, or
\* of any frame while the tab's own is not known.
LEMMA LastCountingIs ==
  ASSUME NEW known, NEW seq \in Seq(Page \cup {Framed}), NEW at, at = LastCounting(known, seq)
  PROVE  \/ at = 0 /\ \A i \in DOMAIN seq : known /\ seq[i] = Framed
         \/ /\ at \in DOMAIN seq
            /\ known => seq[at] # Framed
            /\ \A i \in DOMAIN seq : (known => seq[i] # Framed) => i <= at
<1> DEFINE S == {i \in 1..Len(seq) : known => seq[i] # Framed}
<1>1. at = IF S # {} THEN Max(S) ELSE 0
  BY DEF LastCounting, SelectLastInSeq
<1>2. S \in SUBSET (1..Len(seq)) /\ Len(seq) \in Nat /\ DOMAIN seq = 1..Len(seq)
  OBVIOUS
<1>3. CASE S = {}
  BY <1>1, <1>2, <1>3
<1>4. CASE S # {}
  <2>1. Max(S) \in S /\ \A y \in S : Max(S) >= y
    <3> HIDE DEF S
    <3> QED BY <1>2, <1>4, Greatest
  <2>2. at \in S /\ \A y \in S : at >= y
    BY <2>1, <1>1, <1>4
  <2> QED BY <2>2, <1>2
<1> QED BY <1>3, <1>4

\* An event is put at the end of its stream.
LEMMA EmitStreams ==
  ASSUME TypeOK, NEW kind \in Kinds, NEW event, Emit(kind, event)
  PROVE  /\ DOMAIN streams' = Kinds
         /\ streams'[kind] = Append(streams[kind], event)
         /\ \A k \in Kinds \ {kind} : streams'[k] = streams[k]
         /\ UNCHANGED <<pending, extra, top, mainKnown, rows>>
BY DEF TypeOK, Emit, tabVars

\* An event is taken from the front of its stream.
LEMMA TakeStreams ==
  ASSUME TypeOK, NEW kind \in Kinds, Take(kind)
  PROVE  /\ DOMAIN streams' = Kinds
         /\ streams[kind] # <<>>
         /\ streams'[kind] = Tail(streams[kind])
         /\ \A k \in Kinds \ {kind} : streams'[k] = streams[k]
BY DEF TypeOK, Take

\* A request event takes all changes of address along.
LEMMA CatchUpStreams ==
  ASSUME TypeOK, CatchUp
  PROVE  /\ DOMAIN streams' = Kinds
         /\ streams'.req = Tail(streams.req)
         /\ streams'.nav = <<>> /\ streams'.same = <<>>
         /\ \A k \in Kinds \ {"req", "nav", "same"} : streams'[k] = streams[k]
BY DEF TypeOK, CatchUp, Kinds

\* What is in a stream after one event is taken, and after one is put in.
LEMMA TailHas ==
  ASSUME NEW S, NEW seq \in Seq(S), seq # <<>>
  PROVE  /\ Head(seq) \in S /\ Head(seq) = seq[1] /\ 1 \in DOMAIN seq
         /\ Tail(seq) \in Seq(S) /\ Len(Tail(seq)) = Len(seq) - 1
         /\ DOMAIN Tail(seq) = 1..(Len(seq) - 1)
         /\ \A i \in DOMAIN Tail(seq) : i + 1 \in DOMAIN seq /\ Tail(seq)[i] = seq[i + 1]
         /\ \A i \in DOMAIN seq : i = 1 \/ (i - 1 \in DOMAIN Tail(seq) /\ Tail(seq)[i - 1] = seq[i])
OBVIOUS

LEMMA AppendHas ==
  ASSUME NEW S, NEW seq \in Seq(S), NEW e \in S
  PROVE  /\ Append(seq, e) \in Seq(S) /\ Append(seq, e) # <<>>
         /\ Len(Append(seq, e)) = Len(seq) + 1 /\ Len(seq) \in Nat
         /\ DOMAIN Append(seq, e) = 1..(Len(seq) + 1) /\ DOMAIN seq = 1..Len(seq)
         /\ Append(seq, e)[Len(seq) + 1] = e
         /\ \A i \in DOMAIN seq : Append(seq, e)[i] = seq[i]
OBVIOUS

-----------------------------------------------------------------------------
(* Types *)

\* The streams hold events of their kinds.
StreamsOK ==
  /\ DOMAIN streams = Kinds
  /\ streams.req \in Seq(Started)
  /\ streams.res \in Seq(Part) /\ streams.extra \in Seq(Part)
  /\ streams.done \in Seq(Requests) /\ streams.fail \in Seq(Requests)
  /\ streams.nav \in Seq(Page) /\ streams.same \in Seq(Page \cup {Framed})

\* The numbers used are of their types.
LEMMA Values ==
  /\ 0 \in Page /\ None = 0 /\ NoPending \in Pending
  /\ Page \subseteq Address /\ Framed \in Address
  /\ Unknown \notin Address
BY Bounds DEF Page, None, NoPending, Pending, Hop, Address, Framed, Unknown

\* A stored hop is a row.
LEMMA InsertedType ==
  ASSUME TypeOK, NEW r \in Requests, NEW p \in Pending, p.hop # None, NEW failed \in BOOLEAN
  PROVE  Inserted(r, p, failed) \in Seq(Row)
<1>1. rows[r] \in Seq(Row) /\ extra[r] \in Hop \cup {None}
  BY DEF TypeOK
<1>2. [hop |-> p.hop, status |-> p.status, page |-> p.page, load |-> p.load, push |-> p.push,
       chain |-> p.chain, failed |-> failed, extra |-> extra[r]] \in Row
  BY <1>1 DEF Pending, Row
<1> QED BY <1>1, <1>2 DEF Inserted

\* Storing a hop leaves rows and additional headers well typed.
LEMMA StoreType ==
  ASSUME TypeOK, NEW r \in Requests, NEW p \in Pending, p.hop # None, NEW failed \in BOOLEAN,
         Store(r, p, failed)
  PROVE  rows' \in [Requests -> Seq(Row)] /\ extra' \in [Requests -> Hop \cup {None}]
BY InsertedType DEF TypeOK, Store

\* The place of the tab after the changes of address.
LEMMA CatchUpType ==
  ASSUME TypeOK, streams.req # <<>>, CatchUp
  PROVE  /\ StreamsOK'
         /\ top' \in Address \cup {Unknown}
         /\ mainKnown' \in BOOLEAN
<1>1. StreamsOK'
  <2>1. streams.req \in Seq(Started) /\ <<>> \in Seq(Page) /\ <<>> \in Seq(Page \cup {Framed})
    BY DEF TypeOK
  <2>2. Tail(streams.req) \in Seq(Started)
    BY <2>1, TailHas
  <2>3. /\ streams'["res"] = streams["res"] /\ streams'["extra"] = streams["extra"]
        /\ streams'["done"] = streams["done"] /\ streams'["fail"] = streams["fail"]
    BY CatchUpStreams DEF Kinds
  <2> QED BY <2>1, <2>2, <2>3, CatchUpStreams DEF StreamsOK, TypeOK
<1>2. LastOr(streams.nav, top) \in Address \cup {Unknown}
  <2>1. CASE streams.nav = <<>>
    BY <2>1 DEF LastOr, TypeOK
  <2>2. CASE streams.nav # <<>>
    BY <2>2, Values DEF LastOr, TypeOK
  <2> QED BY <2>1, <2>2
<1>3. top' \in Address \cup {Unknown}
  <2>1. streams.same \in Seq(Page \cup {Framed})
    BY DEF TypeOK
  <2>2. PICK at : at = LastCounting(mainKnown', streams.same)
    OBVIOUS
  <2>3. at = 0 \/ streams.same[at] \in Page \cup {Framed}
    BY <2>1, <2>2, LastCountingIs
  <2>4. top' = IF at # 0 THEN streams.same[at] ELSE LastOr(streams.nav, top)
    BY <2>2 DEF CatchUp
  <2> QED BY <2>3, <2>4, <1>2, Values
<1>4. mainKnown' \in BOOLEAN
  BY DEF CatchUp, TypeOK
<1> QED BY <1>1, <1>3, <1>4

\* The initial states have the types.
LEMMA InitType == Init => TypeOK
<1> SUFFICES ASSUME Init PROVE TypeOK
  OBVIOUS
<1>1. \A S : <<>> \in Seq(S)
  OBVIOUS
<1>2. network \in [Requests -> [state : {"new", "sent", "answered", "ended"}, kept : BOOLEAN,
                               hop : Hop \cup {None}, told : Hop \cup {None}]]
  BY DEF Init
<1>3. DOMAIN streams = Kinds /\ \A k \in Kinds : streams[k] = <<>>
  BY DEF Init
<1>4. place \in [page : Page, load : Page, push : Page]
  BY Values DEF Init
<1>5. pending \in [Requests -> Pending] /\ extra \in [Requests -> Hop \cup {None}]
  BY Values DEF Init
<1>6. top \in Address \cup {Unknown} /\ mainKnown \in BOOLEAN
  BY Values DEF Init
<1>7. rows \in [Requests -> Seq(Row)]
  BY <1>1 DEF Init
<1> QED BY <1>1, <1>2, <1>3, <1>4, <1>5, <1>6, <1>7 DEF TypeOK, Kinds

\* An event in its stream leaves the streams well typed.
EventOf(kind) ==
  CASE kind = "req" -> Started
    [] kind \in {"res", "extra"} -> Part
    [] kind \in {"done", "fail"} -> Requests
    [] kind = "nav" -> Page
    [] kind = "same" -> Page \cup {Framed}

LEMMA StreamTypes == TypeOK => StreamsOK /\ \A kind \in Kinds : streams[kind] \in Seq(EventOf(kind))
BY DEF TypeOK, StreamsOK, Kinds, EventOf

LEMMA EmitType ==
  ASSUME TypeOK, NEW kind \in Kinds, NEW event \in EventOf(kind), Emit(kind, event)
  PROVE  StreamsOK'
<1>1. \A k \in Kinds : streams'[k] \in Seq(EventOf(k))
  <2> TAKE k \in Kinds
  <2>1. streams[k] \in Seq(EventOf(k))
    BY StreamTypes
  <2>2. CASE k = kind
    <3>1. Append(streams[kind], event) \in Seq(EventOf(kind))
      BY <2>1, <2>2
    <3> QED BY <2>2, <3>1, EmitStreams
  <2>3. CASE k # kind
    BY <2>1, <2>3, EmitStreams
  <2> QED BY <2>2, <2>3
<1>2. DOMAIN streams' = Kinds
  BY EmitStreams
<1> QED BY <1>1, <1>2 DEF StreamsOK, EventOf, Kinds

LEMMA TakeType ==
  ASSUME TypeOK, NEW kind \in Kinds, Take(kind)
  PROVE  StreamsOK' /\ Head(streams[kind]) \in EventOf(kind)
<1>1. \A k \in Kinds : streams'[k] \in Seq(EventOf(k))
  <2> TAKE k \in Kinds
  <2>1. streams[k] \in Seq(EventOf(k))
    BY StreamTypes
  <2>2. CASE k = kind
    <3>1. Tail(streams[kind]) \in Seq(EventOf(kind))
      BY <2>1, <2>2, TakeStreams, TailHas
    <3> QED BY <2>2, <3>1, TakeStreams
  <2>3. CASE k # kind
    BY <2>1, <2>3, TakeStreams
  <2> QED BY <2>2, <2>3
<1>2. DOMAIN streams' = Kinds /\ streams[kind] # <<>>
  BY TakeStreams
<1>3. Head(streams[kind]) \in EventOf(kind)
  BY <1>2, StreamTypes, TailHas
<1> QED BY <1>1, <1>2, <1>3 DEF StreamsOK, EventOf, Kinds

\* A request that is on its way has a hop.
Numbered == \A r \in Requests : network[r].state = "sent" => network[r].hop # None

\* What the browser does keeps the types.
LEMMA BrowserType == TypeOK /\ Numbered /\ Browser => TypeOK' /\ Numbered'
<1> SUFFICES ASSUME TypeOK, Numbered, Browser PROVE TypeOK' /\ Numbered'
  OBVIOUS
<1>0. UNCHANGED <<pending, extra, top, mainKnown, rows>>
  BY DEF Browser, Request, Respond, Finish, Break, Tell, Load, Push, FramePush, Emit, tabVars
<1> DEFINE Net == [state : {"new", "sent", "answered", "ended"}, kept : BOOLEAN,
                   hop : Hop \cup {None}, told : Hop \cup {None}]
           Where == [page : Page, load : Page, push : Page]
           Good == network' \in [Requests -> Net] /\ place' \in Where /\ StreamsOK' /\ Numbered'
<1> SUFFICES Good
  BY <1>0 DEF TypeOK, StreamsOK
<1>1. network \in [Requests -> Net] /\ place \in Where
  BY DEF TypeOK
<1>2. ASSUME NEW r \in Requests, Request(r) PROVE Good
  <2> DEFINE h == network[r].hop + 1
             e == [id |-> r, hop |-> h, load |-> place.load, push |-> place.push]
  <2>1. h \in Hop /\ h # None /\ place' = place
    BY <1>1, <1>2, Bounds DEF Request, Hop, None
  <2>2. network' \in [Requests -> Net] /\ Numbered'
    BY <1>1, <1>2, <2>1 DEF Request, Numbered
  <2>3. e \in EventOf("req") /\ "req" \in Kinds
    BY <1>1, <2>1 DEF Started, EventOf, Kinds
  <2>4. Emit("req", e)
    BY <1>2 DEF Request
  <2>5. StreamsOK'
    BY <2>3, <2>4, EmitType
  <2> QED BY <1>1, <2>1, <2>2, <2>5
<1>3. ASSUME NEW r \in Requests, Respond(r) PROVE Good
  <2> DEFINE e == [id |-> r, hop |-> network[r].hop]
  <2>1. network' \in [Requests -> Net] /\ place' = place /\ Numbered'
    BY <1>1, <1>3 DEF Respond, Numbered
  <2>2. e \in EventOf("res") /\ "res" \in Kinds
    BY <1>1, <1>3 DEF Part, EventOf, Kinds, Respond, Numbered
  <2>3. Emit("res", e)
    BY <1>3 DEF Respond
  <2>4. StreamsOK'
    BY <2>2, <2>3, EmitType
  <2> QED BY <1>1, <2>1, <2>4
<1>4. ASSUME NEW r \in Requests, Finish(r) \/ Break(r) PROVE Good
  <2>1. network' \in [Requests -> Net] /\ place' = place /\ Numbered'
    BY <1>1, <1>4 DEF Finish, Break, Numbered
  <2>2. r \in EventOf("done") /\ r \in EventOf("fail") /\ {"done", "fail"} \subseteq Kinds
    BY DEF EventOf, Kinds
  <2>3. Emit("done", r) \/ Emit("fail", r)
    BY <1>4 DEF Finish, Break
  <2>4. StreamsOK'
    BY <2>2, <2>3, EmitType
  <2> QED BY <1>1, <2>1, <2>4
<1>5. ASSUME NEW r \in Requests, Tell(r) PROVE Good
  <2>1. PICK h \in network[r].told + 1 .. network[r].hop :
             /\ network' = [network EXCEPT ![r].told = h]
             /\ Emit("extra", [id |-> r, hop |-> h])
             /\ place' = place
    BY <1>5 DEF Tell
  <2>2. h \in Hop
    BY <1>1, Bounds DEF Hop, None
  <2>3. network' \in [Requests -> Net] /\ Numbered'
    BY <1>1, <2>1, <2>2 DEF Numbered
  <2>4. [id |-> r, hop |-> h] \in EventOf("extra") /\ "extra" \in Kinds
    BY <2>2 DEF Part, EventOf, Kinds
  <2>5. StreamsOK'
    BY <2>1, <2>4, EmitType
  <2> QED BY <1>1, <2>1, <2>3, <2>5
<1>6. CASE Load \/ Push
  <2> DEFINE p == place.page + 1
  <2>1. p \in Page
    BY <1>1, <1>6, Bounds DEF Load, Push, Page
  <2>2. place' \in Where /\ network' = network /\ Numbered'
    BY <1>1, <1>6, <2>1 DEF Load, Push, Numbered
  <2>3. p \in EventOf("nav") /\ p \in EventOf("same") /\ {"nav", "same"} \subseteq Kinds
    BY <2>1 DEF EventOf, Kinds
  <2>4. Emit("nav", p) \/ Emit("same", p)
    BY <1>6 DEF Load, Push
  <2>5. StreamsOK'
    BY <2>3, <2>4, EmitType
  <2> QED BY <1>1, <2>2, <2>5
<1>7. CASE FramePush
  <2>1. Framed \in EventOf("same") /\ "same" \in Kinds
    BY DEF EventOf, Kinds
  <2>2. StreamsOK'
    BY <1>7, <2>1, EmitType DEF FramePush
  <2> QED BY <1>1, <1>7, <2>2 DEF FramePush, Numbered
<1> QED BY <1>2, <1>3, <1>4, <1>5, <1>6, <1>7 DEF Browser

\* What the loop does keeps the types.
LEMMA WatchType == TypeOK /\ Numbered /\ Watch => TypeOK' /\ Numbered'
<1> SUFFICES ASSUME TypeOK, Numbered, Watch PROVE TypeOK' /\ Numbered'
  OBVIOUS
<1>0. network' = network /\ place' = place
  BY DEF Watch, OnRequest, OnNav, OnSameDoc, OnExtra, OnResponse, OnEnd
<1> DEFINE Good == /\ StreamsOK'
                   /\ pending' \in [Requests -> Pending]
                   /\ extra' \in [Requests -> Hop \cup {None}]
                   /\ top' \in Address \cup {Unknown}
                   /\ mainKnown' \in BOOLEAN
                   /\ rows' \in [Requests -> Seq(Row)]
<1> SUFFICES Good
  BY <1>0 DEF TypeOK, StreamsOK, Numbered
<1>1. /\ pending \in [Requests -> Pending] /\ extra \in [Requests -> Hop \cup {None}]
      /\ top \in Address \cup {Unknown} /\ mainKnown \in BOOLEAN /\ rows \in [Requests -> Seq(Row)]
  BY DEF TypeOK
<1>2. CASE OnRequest
  <2> DEFINE e == Head(streams.req)
             prev == pending[e.id]
             redirected == Active(e.id) /\ e.hop > 1
             chain == IF redirected THEN Chained(prev, e) ELSE <<>>
  <2>1. streams.req # <<>> /\ CatchUp
    BY <1>2 DEF OnRequest
  <2>2. e \in Started /\ prev \in Pending
    <3>1. e \in Started
      BY <2>1, TailHas DEF TypeOK
    <3> QED BY <3>1, <1>1 DEF Started
  <2>3. StreamsOK' /\ top' \in Address \cup {Unknown} /\ mainKnown' \in BOOLEAN
    BY <2>1, CatchUpType
  <2>4. chain \in Seq(Hop)
    <3>1. <<>> \in Seq(Hop) /\ prev.chain \in Seq(Hop) /\ prev.hop \in Hop \cup {None}
      BY <2>2 DEF Pending
    <3>2. CASE redirected
      <4>1. prev.hop \in Hop
        BY <3>1, <3>2 DEF Active
      <4>2. Append(prev.chain, prev.hop) \in Seq(Hop)
        BY <3>1, <4>1
      <4> QED BY <3>2, <4>2 DEF Chained
    <3> QED BY <3>1, <3>2
  <2>5. Begun(e, chain) \in Pending
    <3>1. (IF top' = Unknown THEN e.load ELSE top') \in Address
      BY <2>2, <2>3, Values DEF Started
    <3> HIDE DEF chain
    <3> QED BY <2>2, <2>4, <3>1 DEF Begun, Started, Pending
  <2>6. pending' \in [Requests -> Pending]
    <3>1. pending' = [pending EXCEPT ![e.id] = IF network[e.id].kept THEN Begun(e, chain) ELSE NoPending]
      BY <1>2 DEF OnRequest
    <3> HIDE DEF chain
    <3> QED BY <3>1, <2>5, <1>1, Values
  <2>7. rows' \in [Requests -> Seq(Row)] /\ extra' \in [Requests -> Hop \cup {None}]
    <3>1. CASE redirected
      <4> DEFINE p == [prev EXCEPT !.status = e.hop - 1]
      <4>1. e.hop - 1 \in Hop
        BY <2>2, <3>1, Bounds DEF Started, Hop
      <4>2. p \in Pending /\ p.hop # None
        BY <2>2, <3>1, <4>1 DEF Pending, Active
      <4>3. Store(e.id, p, FALSE)
        BY <1>2, <3>1 DEF OnRequest
      <4>4. e.id \in Requests
        BY <2>2 DEF Started
      <4> QED
        <5> HIDE DEF p
        <5> QED BY <4>2, <4>3, <4>4, StoreType
    <3>2. CASE ~redirected
      BY <1>1, <1>2, <3>2 DEF OnRequest
    <3> QED BY <3>1, <3>2
  <2> QED BY <2>3, <2>6, <2>7
<1>3. CASE OnNav
  <2>1. Take("nav") /\ "nav" \in Kinds
    BY <1>3 DEF OnNav, Kinds
  <2>2. StreamsOK' /\ Head(streams.nav) \in Page
    BY <2>1, TakeType DEF EventOf
  <2> QED BY <1>1, <1>3, <2>2, Values DEF OnNav
<1>4. CASE OnSameDoc
  <2>1. Take("same") /\ "same" \in Kinds
    BY <1>4 DEF OnSameDoc, Kinds
  <2>2. StreamsOK' /\ Head(streams.same) \in Page \cup {Framed}
    BY <2>1, TakeType DEF EventOf
  <2> QED BY <1>1, <1>4, <2>2, Values DEF OnSameDoc
<1>5. CASE OnExtra
  <2>1. Take("extra") /\ "extra" \in Kinds
    BY <1>5 DEF OnExtra, Kinds
  <2>2. StreamsOK' /\ Head(streams.extra) \in Part
    BY <2>1, TakeType DEF EventOf
  <2> QED BY <1>1, <1>5, <2>2 DEF OnExtra, Part, tabVars
<1>6. CASE OnResponse
  <2>1. Take("res") /\ "res" \in Kinds
    BY <1>6 DEF OnResponse, Kinds
  <2>2. StreamsOK' /\ Head(streams.res) \in Part
    BY <2>1, TakeType DEF EventOf
  <2> DEFINE e == Head(streams.res)
  <2>3. [pending[e.id] EXCEPT !.status = e.hop] \in Pending
    BY <1>1, <2>2 DEF Part, Pending
  <2>4. pending' \in [Requests -> Pending]
    BY <1>1, <1>6, <2>3 DEF OnResponse
  <2> QED BY <1>1, <1>6, <2>2, <2>4 DEF OnResponse, tabVars
<1>7. ASSUME NEW kind \in {"done", "fail"}, OnEnd(kind) PROVE Good
  <2>1. Take(kind) /\ kind \in Kinds
    BY <1>7 DEF OnEnd, Kinds
  <2> DEFINE r == Head(streams[kind])
  <2>2. StreamsOK' /\ r \in Requests
    BY <2>1, TakeType DEF EventOf
  <2>3. CASE Active(r)
    <3>1. pending[r] \in Pending /\ pending[r].hop # None /\ (kind = "fail") \in BOOLEAN
      BY <1>1, <2>2, <2>3 DEF Active
    <3>2. Store(r, pending[r], kind = "fail") /\ pending' = [pending EXCEPT ![r] = NoPending]
      BY <1>7, <2>3 DEF OnEnd
    <3>3. rows' \in [Requests -> Seq(Row)] /\ extra' \in [Requests -> Hop \cup {None}]
      BY <3>1, <3>2, <2>2, StoreType
    <3> QED BY <1>1, <1>7, <2>2, <3>2, <3>3, Values DEF OnEnd, tabVars
  <2>4. CASE ~Active(r)
    BY <1>1, <1>7, <2>2, <2>4 DEF OnEnd, tabVars
  <2> QED BY <2>3, <2>4
<1> QED BY <1>2, <1>3, <1>4, <1>5, <1>6, <1>7 DEF Watch

\* The types are an invariant.
LEMMA StepType == TypeOK /\ Numbered /\ [Next]_vars => TypeOK' /\ Numbered'
<1>1. TypeOK /\ Numbered /\ UNCHANGED vars => TypeOK' /\ Numbered'
  BY DEF TypeOK, Numbered, vars, tabVars
<1> QED BY <1>1, BrowserType, WatchType DEF Next

-----------------------------------------------------------------------------
(* Hops: queued, under way, stored *)

\* The events of a request in a stream are its hops from "next" to "last", in order.
Upcoming(seq, r, next, last) ==
  /\ next <= last + 1
  /\ \A i \in DOMAIN seq : seq[i].id = r => seq[i].hop \in next..last
  /\ \A i, j \in DOMAIN seq : i < j /\ seq[i].id = r /\ seq[j].id = r => seq[i].hop < seq[j].hop
  /\ \A h \in next..last : \E i \in DOMAIN seq : seq[i].id = r /\ seq[i].hop = h

\* The browser sends the next hop of a request.
LEMMA UpcomingAppend ==
  ASSUME NEW seq \in Seq(Started), NEW r \in Requests, NEW next \in Nat, NEW last \in Nat,
         Upcoming(seq, r, next, last), NEW e \in Started
  PROVE  /\ e.id # r => Upcoming(Append(seq, e), r, next, last)
         /\ e.id = r /\ e.hop = last + 1 => Upcoming(Append(seq, e), r, next, last + 1)
<1> DEFINE new == Append(seq, e)
<1>1. /\ DOMAIN new = 1..(Len(seq) + 1) /\ DOMAIN seq = 1..Len(seq) /\ Len(seq) \in Nat
      /\ new[Len(seq) + 1] = e /\ \A i \in DOMAIN seq : new[i] = seq[i] /\ seq[i].hop \in Int
  <2>1. \A i \in DOMAIN seq : seq[i] \in Started
    OBVIOUS
  <2>2. \A i \in DOMAIN seq : seq[i].hop \in Int
    BY <2>1, Bounds DEF Started, Hop
  <2> QED BY <2>2, AppendHas
<1> HIDE DEF new
<1>2. ASSUME e.id # r PROVE Upcoming(new, r, next, last)
  <2>1. \A i \in DOMAIN new : new[i].id = r => i \in DOMAIN seq /\ new[i] = seq[i]
    BY <1>1, <1>2
  <2>2. \A i \in DOMAIN seq : i \in DOMAIN new /\ new[i] = seq[i]
    BY <1>1
  <2> QED BY <2>1, <2>2 DEF Upcoming
<1>3. ASSUME e.id = r, e.hop = last + 1 PROVE Upcoming(new, r, next, last + 1)
  <2>1. \A i \in DOMAIN new : new[i].id = r => new[i].hop \in next..(last + 1)
    BY <1>1, <1>3 DEF Upcoming
  <2>2. \A i, j \in DOMAIN new : i < j /\ new[i].id = r /\ new[j].id = r => new[i].hop < new[j].hop
    BY <1>1, <1>3 DEF Upcoming
  <2>3. \A h \in next..(last + 1) : \E i \in DOMAIN new : new[i].id = r /\ new[i].hop = h
    <3> TAKE h \in next..(last + 1)
    <3>1. CASE h = last + 1
      <4>1. Len(seq) + 1 \in DOMAIN new
        BY <1>1
      <4> QED BY <1>1, <1>3, <3>1, <4>1
    <3>2. CASE h \in next..last
      <4>1. PICK i \in DOMAIN seq : seq[i].id = r /\ seq[i].hop = h
        BY <3>2 DEF Upcoming
      <4>2. i \in DOMAIN new
        BY <1>1
      <4> QED BY <1>1, <4>1, <4>2
    <3> QED BY <3>1, <3>2
  <2>4. next <= (last + 1) + 1
    BY DEF Upcoming
  <2> QED BY <2>1, <2>2, <2>3, <2>4, Zenon DEF Upcoming
<1> QED BY <1>2, <1>3 DEF new

\* The loop takes the first event: if it is of the request, it is the next hop.
LEMMA UpcomingTail ==
  ASSUME NEW seq \in Seq(Started), seq # <<>>, NEW r \in Requests, NEW next \in Nat, NEW last \in Nat,
         Upcoming(seq, r, next, last)
  PROVE  /\ Head(seq).id # r => Upcoming(Tail(seq), r, next, last)
         /\ Head(seq).id = r => Head(seq).hop = next /\ Upcoming(Tail(seq), r, next + 1, last)
<1> DEFINE e == Head(seq)
           new == Tail(seq)
<1>1. /\ e = seq[1] /\ 1 \in DOMAIN seq /\ DOMAIN new = 1..(Len(seq) - 1)
      /\ DOMAIN seq = 1..Len(seq) /\ Len(seq) \in Nat
      /\ \A i \in DOMAIN new : i + 1 \in DOMAIN seq /\ new[i] = seq[i + 1]
      /\ \A i \in DOMAIN seq : i = 1 \/ (i - 1 \in DOMAIN new /\ new[i - 1] = seq[i])
      /\ \A i \in DOMAIN seq : seq[i].hop \in Int
  <2>1. \A i \in DOMAIN seq : seq[i] \in Started
    OBVIOUS
  <2>2. \A i \in DOMAIN seq : seq[i].hop \in Int
    BY <2>1, Bounds DEF Started, Hop
  <2>3. DOMAIN seq = 1..Len(seq) /\ Len(seq) \in Nat
    OBVIOUS
  <2> QED BY <2>2, <2>3, TailHas
<1> HIDE DEF new, e
<1>2. \A i, j \in DOMAIN new : i < j /\ new[i].id = r /\ new[j].id = r => new[i].hop < new[j].hop
  <2> TAKE i, j \in DOMAIN new
  <2>1. i + 1 \in DOMAIN seq /\ j + 1 \in DOMAIN seq /\ new[i] = seq[i + 1] /\ new[j] = seq[j + 1]
    BY <1>1
  <2>2. i < j => i + 1 < j + 1
    BY <1>1
  <2> QED BY <2>1, <2>2 DEF Upcoming
<1>3. ASSUME e.id # r PROVE Upcoming(new, r, next, last)
  <2>1. \A i \in DOMAIN new : new[i].id = r => new[i].hop \in next..last
    BY <1>1 DEF Upcoming
  <2>2. \A h \in next..last : \E i \in DOMAIN new : new[i].id = r /\ new[i].hop = h
    <3> TAKE h \in next..last
    <3>1. PICK i \in DOMAIN seq : seq[i].id = r /\ seq[i].hop = h
      BY DEF Upcoming
    <3>2. i # 1
      BY <1>1, <1>3, <3>1
    <3> QED BY <1>1, <3>1, <3>2
  <2> QED BY <1>2, <2>1, <2>2 DEF Upcoming
<1>4. ASSUME e.id = r PROVE e.hop = next /\ Upcoming(new, r, next + 1, last)
  <2>1. e.hop \in next..last
    BY <1>1, <1>4 DEF Upcoming
  <2>2. e.hop = next
    <3>1. PICK i \in DOMAIN seq : seq[i].id = r /\ seq[i].hop = next
      BY <2>1 DEF Upcoming
    <3>2. i = 1 \/ seq[1].hop < seq[i].hop
      <4>1. i = 1 \/ 1 < i
        BY <1>1
      <4> QED BY <1>1, <1>4, <3>1, <4>1 DEF Upcoming
    <3> QED BY <1>1, <2>1, <3>1, <3>2
  <2>3. \A i \in DOMAIN new : new[i].id = r => new[i].hop \in (next + 1)..last
    <3> SUFFICES ASSUME NEW i \in DOMAIN new, new[i].id = r PROVE new[i].hop \in (next + 1)..last
      OBVIOUS
    <3>1. i + 1 \in DOMAIN seq /\ new[i] = seq[i + 1] /\ 1 < i + 1
      BY <1>1
    <3>2. seq[1].hop < seq[i + 1].hop /\ seq[i + 1].hop \in next..last
      BY <1>1, <1>4, <3>1 DEF Upcoming
    <3> QED BY <1>1, <2>2, <3>1, <3>2
  <2>4. \A h \in (next + 1)..last : \E i \in DOMAIN new : new[i].id = r /\ new[i].hop = h
    <3> TAKE h \in (next + 1)..last
    <3>1. PICK i \in DOMAIN seq : seq[i].id = r /\ seq[i].hop = h
      BY DEF Upcoming
    <3>2. i # 1
      BY <1>1, <2>2, <3>1
    <3> QED BY <1>1, <3>1, <3>2
  <2>5. next + 1 <= last + 1
    BY <2>1, <2>2
  <2> QED BY <1>2, <2>2, <2>3, <2>4, <2>5 DEF Upcoming
<1> QED BY <1>3, <1>4 DEF new, e

\* The hop of a request that has not started yet for the loop.
NextHop(r) == IF Active(r) THEN pending[r].hop + 1 ELSE Len(rows[r]) + 1

\* The rows of a request are its first hops, the one under way comes next, and
\* then those of the stream.
HopOK(r) ==
  /\ \A i \in DOMAIN rows[r] : rows[r][i].hop = i
  /\ Active(r) => pending[r].hop = Len(rows[r]) + 1
  /\ network[r].kept => Upcoming(streams.req, r, NextHop(r), network[r].hop)
  /\ ~network[r].kept => ~Active(r) /\ rows[r] = <<>>

HopInv == \A r \in Requests : HopOK(r)

LEMMA Typed ==
  ASSUME TypeOK, NEW r \in Requests
  PROVE  /\ rows[r] \in Seq(Row) /\ Len(rows[r]) \in Nat /\ pending[r] \in Pending
         /\ pending[r].hop \in Nat /\ network[r].hop \in Nat /\ network[r].told \in Nat
         /\ NextHop(r) \in Nat /\ network[r].kept \in BOOLEAN /\ extra[r] \in Nat
<1>1. rows[r] \in Seq(Row) /\ pending[r] \in Pending /\ network[r].kept \in BOOLEAN
  BY DEF TypeOK
<1>2. network[r].hop \in Hop \cup {None} /\ network[r].told \in Hop \cup {None} /\ extra[r] \in Hop \cup {None}
  BY DEF TypeOK
<1>3. pending[r].hop \in Hop \cup {None}
  BY <1>1 DEF Pending
<1>4. Len(rows[r]) \in Nat
  BY <1>1
<1> QED BY <1>1, <1>2, <1>3, <1>4, Bounds DEF Hop, None, NextHop

\* A step that leaves a request alone.
LEMMA HopStays ==
  ASSUME NEW r \in Requests, HopOK(r), streams'.req = streams.req,
         rows'[r] = rows[r], pending'[r].hop = pending[r].hop,
         network'[r].hop = network[r].hop, network'[r].kept = network[r].kept
  PROVE  HopOK(r)'
BY DEF HopOK, NextHop, Active

\* A response is noted in what is kept of its hop, and nowhere else.
LEMMA ResponseKeeps ==
  ASSUME TypeOK, OnResponse, NEW r \in Requests
  PROVE  /\ pending'[r].hop = pending[r].hop /\ pending'[r].chain = pending[r].chain
         /\ pending'[r].page = pending[r].page
         /\ pending'[r].load = pending[r].load /\ pending'[r].push = pending[r].push
<1> DEFINE e == Head(streams.res)
<1>1. pending \in [Requests -> Pending] /\ pending[r] \in Pending
  BY DEF TypeOK
<1>2. pending' = IF Active(e.id) THEN [pending EXCEPT ![e.id].status = e.hop] ELSE pending
  BY DEF OnResponse
<1> HIDE DEF e
<1> QED BY <1>1, <1>2 DEF Pending

\* What the browser does.
LEMMA BrowserHops ==
  ASSUME TypeOK, HopInv, Browser, NEW r \in Requests
  PROVE  HopOK(r)'
<1>0. HopOK(r) /\ "req" \in Kinds
  BY DEF HopInv, Kinds
<1>1. ASSUME NEW q \in Requests, Request(q) PROVE HopOK(r)'
  <2> DEFINE h == network[q].hop + 1
             e == [id |-> q, hop |-> h, load |-> place.load, push |-> place.push]
  <2>1. e \in Started
    <3>1. h \in Hop
      BY <1>1, Typed, Bounds DEF Request, Hop
    <3>2. place.load \in Page /\ place.push \in Page
      BY DEF TypeOK
    <3> QED BY <3>1, <3>2 DEF Started
  <2>2. Emit("req", e)
    BY <1>1 DEF Request
  <2>3. streams'.req = Append(streams.req, e) /\ rows' = rows /\ pending' = pending
    BY <1>0, <2>2, EmitStreams
  <2>4. /\ network'[r].kept = network[r].kept
        /\ network'[r].hop = IF r = q THEN h ELSE network[r].hop
    BY <1>1 DEF Request, TypeOK
  <2>5. NextHop(r)' = NextHop(r) /\ Active(r)' = Active(r)
    BY <2>3 DEF NextHop, Active
  <2>6. network[r].kept => Upcoming(Append(streams.req, e), r, NextHop(r), network'[r].hop)
    <3>1. streams.req \in Seq(Started) /\ NextHop(r) \in Nat /\ network[r].hop \in Nat
      BY Typed DEF TypeOK
    <3>2. e.id = q /\ e.hop = network[q].hop + 1
      OBVIOUS
    <3> HIDE DEF e
    <3>3. CASE r = q
      BY <1>0, <2>1, <2>4, <3>1, <3>2, <3>3, UpcomingAppend DEF HopOK
    <3>4. CASE r # q
      BY <1>0, <2>1, <2>4, <3>1, <3>2, <3>4, UpcomingAppend DEF HopOK
    <3> QED BY <3>3, <3>4
  <2> HIDE DEF e, h
  <2> QED BY <1>0, <2>3, <2>4, <2>5, <2>6 DEF HopOK
<1>2. CASE \/ \E q \in Requests : Respond(q) \/ Finish(q) \/ Break(q) \/ Tell(q)
           \/ Load \/ Push \/ FramePush
  <2>1. PICK kind \in Kinds \ {"req"} : \E event : Emit(kind, event)
    BY <1>2 DEF Respond, Finish, Break, Tell, Load, Push, FramePush, Kinds
  <2>2. streams'.req = streams.req /\ rows' = rows /\ pending' = pending
    BY <1>0, <2>1, EmitStreams
  <2>3. network'[r].hop = network[r].hop /\ network'[r].kept = network[r].kept
    <3>1. ASSUME NEW q \in Requests, Respond(q) \/ Finish(q) \/ Break(q)
          PROVE  network'[r].hop = network[r].hop /\ network'[r].kept = network[r].kept
      <4>1. PICK state : network' = [network EXCEPT ![q].state = state]
        BY <3>1 DEF Respond, Finish, Break
      <4> QED BY <4>1 DEF TypeOK
    <3>2. ASSUME NEW q \in Requests, Tell(q)
          PROVE  network'[r].hop = network[r].hop /\ network'[r].kept = network[r].kept
      <4>1. PICK h : network' = [network EXCEPT ![q].told = h]
        BY <3>2 DEF Tell
      <4> QED BY <4>1 DEF TypeOK
    <3>3. CASE Load \/ Push \/ FramePush
      BY <3>3 DEF Load, Push, FramePush
    <3> QED BY <1>2, <3>1, <3>2, <3>3
  <2> QED BY <1>0, <2>2, <2>3, HopStays
<1> QED BY <1>1, <1>2 DEF Browser

\* A hop is stored: it was under way, and is the last row now.
LEMMA StoredHop ==
  ASSUME TypeOK, NEW r \in Requests, HopOK(r), Active(r), NEW p, p.hop = pending[r].hop, NEW failed,
         Store(r, p, failed)
  PROVE  /\ Len(rows'[r]) = Len(rows[r]) + 1
         /\ \A i \in DOMAIN rows'[r] : rows'[r][i].hop = i
         /\ \A q \in Requests \ {r} : rows'[q] = rows[q]
<1>1. rows[r] \in Seq(Row) /\ pending[r].hop = Len(rows[r]) + 1
  BY Typed DEF HopOK
<1>2. rows'[r] = Inserted(r, p, failed) /\ \A q \in Requests \ {r} : rows'[q] = rows[q]
  BY DEF Store, TypeOK
<1> DEFINE row == [hop |-> p.hop, status |-> p.status, page |-> p.page, load |-> p.load, push |-> p.push,
                   chain |-> p.chain, failed |-> failed, extra |-> extra[r]]
<1>3. rows'[r] = Append(rows[r], row) /\ row.hop = Len(rows[r]) + 1
  BY <1>1, <1>2 DEF Inserted
<1> HIDE DEF row
<1> QED BY <1>1, <1>2, <1>3 DEF HopOK

LEMMA OnRequestHops ==
  ASSUME TypeOK, HopInv, OnRequest, NEW r \in Requests
  PROVE  HopOK(r)'
<1> DEFINE e == Head(streams.req)
           prev == pending[e.id]
           redirected == Active(e.id) /\ e.hop > 1
<1>1. streams.req \in Seq(Started) /\ streams.req # <<>> /\ CatchUp /\ HopOK(r)
  BY DEF TypeOK, OnRequest, HopInv
<1>2. e \in Started /\ streams'.req = Tail(streams.req)
  BY <1>1, TailHas, CatchUpStreams
<1>3. network' = network /\ NextHop(r) \in Nat /\ network[r].hop \in Nat
  BY Typed DEF OnRequest
<1>4. PICK chain : pending' = [pending EXCEPT ![e.id] =
                                 IF network[e.id].kept THEN Begun(e, chain) ELSE NoPending]
  BY DEF OnRequest
<1>5. IF redirected THEN Store(e.id, [prev EXCEPT !.status = e.hop - 1], FALSE) ELSE UNCHANGED rows
  BY DEF OnRequest
<1>6. CASE r # e.id
  <2>1. pending'[r] = pending[r]
    BY <1>4, <1>6 DEF TypeOK
  <2>2. rows'[r] = rows[r]
    BY <1>2, <1>5, <1>6 DEF Store, TypeOK
  <2>3. NextHop(r)' = NextHop(r) /\ Active(r)' = Active(r)
    BY <2>1, <2>2 DEF NextHop, Active
  <2>4. network[r].kept => Upcoming(Tail(streams.req), r, NextHop(r), network[r].hop)
    BY <1>1, <1>3, <1>6, UpcomingTail DEF HopOK
  <2> QED BY <1>1, <1>2, <1>3, <2>1, <2>2, <2>3, <2>4 DEF HopOK
<1>7. CASE r = e.id /\ ~network[r].kept
  <2>1. ~Active(r) /\ rows[r] = <<>>
    BY <1>1, <1>7 DEF HopOK
  <2>2. rows'[r] = <<>>
    BY <1>5, <1>7, <2>1
  <2>3. pending'[r].hop = None
    BY <1>4, <1>7 DEF TypeOK, NoPending
  <2> QED BY <1>3, <1>7, <2>2, <2>3 DEF HopOK, Active
<1>8. CASE r = e.id /\ network[r].kept
  <2>1. e.hop = NextHop(r) /\ Upcoming(Tail(streams.req), r, NextHop(r) + 1, network[r].hop)
    BY <1>1, <1>3, <1>8, UpcomingTail DEF HopOK
  <2>2. pending'[r].hop = e.hop
    BY <1>4, <1>8 DEF TypeOK, Begun
  <2>3. e.hop > 0 /\ e.hop \in Nat /\ Active(r)'
    BY <1>2, <2>2, Bounds DEF Started, Hop, Active, None
  <2>4. e.hop = Len(rows'[r]) + 1 /\ \A i \in DOMAIN rows'[r] : rows'[r][i].hop = i
    <3>1. CASE Active(r)
      <4>1. pending[r].hop = Len(rows[r]) + 1 /\ Len(rows[r]) \in Nat /\ e.hop = Len(rows[r]) + 2
        BY <1>1, <2>1, <3>1, Typed DEF HopOK, NextHop
      <4> DEFINE p == [prev EXCEPT !.status = e.hop - 1]
      <4>2. redirected
        BY <1>8, <3>1, <4>1
      <4>3. Store(r, p, FALSE)
        BY <1>5, <1>8, <4>2
      <4>4. p.hop = pending[r].hop
        BY <1>8, Typed DEF Pending
      <4>5. Len(rows'[r]) = Len(rows[r]) + 1 /\ \A i \in DOMAIN rows'[r] : rows'[r][i].hop = i
        <5> HIDE DEF p
        <5> QED BY <1>1, <3>1, <4>3, <4>4, StoredHop
      <4> QED BY <4>1, <4>5
    <3>2. CASE ~Active(r)
      <4>1. rows'[r] = rows[r]
        BY <1>5, <1>8, <3>2
      <4> QED BY <1>1, <2>1, <3>2, <4>1 DEF HopOK, NextHop
    <3> QED BY <3>1, <3>2
  <2>5. NextHop(r)' = NextHop(r) + 1
    BY <2>1, <2>2, <2>3 DEF NextHop
  <2> QED BY <1>2, <1>3, <1>8, <2>1, <2>2, <2>3, <2>4, <2>5 DEF HopOK
<1> QED BY <1>6, <1>7, <1>8, Typed

LEMMA OnEndHops ==
  ASSUME TypeOK, HopInv, NEW kind \in {"done", "fail"}, OnEnd(kind), NEW r \in Requests
  PROVE  HopOK(r)'
<1> DEFINE q == Head(streams[kind])
<1>1. Take(kind) /\ kind \in Kinds /\ network' = network /\ HopOK(r)
  BY DEF OnEnd, Kinds, HopInv
<1>2. q \in Requests /\ streams'.req = streams.req
  BY <1>1, TakeType, TakeStreams DEF EventOf, Kinds
<1>3. CASE ~Active(q)
  BY <1>1, <1>2, <1>3, HopStays DEF OnEnd
<1>4. CASE Active(q)
  <2>1. Store(q, pending[q], kind = "fail") /\ pending' = [pending EXCEPT ![q] = NoPending]
    BY <1>4 DEF OnEnd
  <2>2. HopOK(q)
    BY <1>2 DEF HopInv
  <2>3. /\ Len(rows'[q]) = Len(rows[q]) + 1 /\ \A i \in DOMAIN rows'[q] : rows'[q][i].hop = i
        /\ \A s \in Requests \ {q} : rows'[s] = rows[s]
    <3>1. PICK failed : failed = (kind = "fail")
      OBVIOUS
    <3> QED BY <1>2, <1>4, <2>1, <2>2, <3>1, StoredHop
  <2>4. CASE r # q
    BY <1>1, <1>2, <2>1, <2>3, <2>4, HopStays DEF TypeOK
  <2>5. CASE r = q
    <3>1. ~Active(r)' /\ network[r].kept
      BY <1>1, <1>4, <2>1, <2>5 DEF Active, NoPending, TypeOK, HopOK
    <3>2. NextHop(r)' = NextHop(r)
      BY <1>4, <2>2, <2>3, <2>5, <3>1 DEF NextHop, HopOK
    <3> QED BY <1>1, <1>2, <2>3, <2>5, <3>1, <3>2 DEF HopOK
  <2> QED BY <2>4, <2>5
<1> QED BY <1>3, <1>4

\* The rows of a request are its hops in their order.
LEMMA StepHops == TypeOK /\ HopInv /\ [Next]_vars => HopInv'
<1> SUFFICES ASSUME TypeOK, HopInv, [Next]_vars, NEW r \in Requests PROVE HopOK(r)'
  BY DEF HopInv
<1>0. HopOK(r)
  BY DEF HopInv
<1>1. CASE Browser
  BY <1>1, BrowserHops
<1>2. CASE OnRequest
  BY <1>2, OnRequestHops
<1>3. CASE \E kind \in {"done", "fail"} : OnEnd(kind)
  BY <1>3, OnEndHops
<1>4. CASE OnNav \/ OnSameDoc \/ OnExtra \/ OnResponse
  <2>1. PICK kind \in Kinds \ {"req"} : Take(kind)
    BY <1>4 DEF OnNav, OnSameDoc, OnExtra, OnResponse, Kinds
  <2>2. streams'.req = streams.req
    BY <2>1, TakeStreams DEF Kinds
  <2>3. network' = network /\ rows' = rows
    BY <1>4 DEF OnNav, OnSameDoc, OnExtra, OnResponse
  <2>4. pending'[r].hop = pending[r].hop
    <3>1. CASE OnNav \/ OnSameDoc \/ OnExtra
      BY <3>1 DEF OnNav, OnSameDoc, OnExtra
    <3>2. CASE OnResponse
      BY <3>2, ResponseKeeps
    <3> QED BY <1>4, <3>1, <3>2
  <2> QED BY <1>0, <2>2, <2>3, <2>4, HopStays
<1>5. CASE UNCHANGED vars
  BY <1>0, <1>5, HopStays DEF vars
<1> QED BY <1>1, <1>2, <1>3, <1>4, <1>5 DEF Next, Watch

-----------------------------------------------------------------------------
(* Chains of redirects *)

Ends == {"done", "fail"}

\* The end of a request is sent once, and after it nothing else happens to it.
EndsOnce(r) ==
  /\ \A kind \in Ends : Queued(kind, r) => network[r].state = "ended"
  /\ ~(Queued("done", r) /\ Queued("fail", r))
  /\ \A kind \in Ends : \A i, j \in DOMAIN streams[kind] :
       streams[kind][i] = r /\ streams[kind][j] = r => i = j

EndsInv == \A r \in Requests : EndsOnce(r)

\* A step that sends no end and takes none.
LEMMA EndsStay ==
  ASSUME NEW r \in Requests, EndsOnce(r), \A kind \in Ends : streams'[kind] = streams[kind],
         network[r].state = "ended" => network'[r].state = "ended"
  PROVE  EndsOnce(r)' /\ (EndTaken(r) => EndTaken(r)')
BY DEF EndsOnce, EndTaken, Queued, Ends

\* A browser that goes on with a request has not ended it.
LEMMA BrowserEnds ==
  ASSUME TypeOK, EndsInv, Browser, NEW r \in Requests
  PROVE  EndsOnce(r)' /\ (EndTaken(r) => EndTaken(r)')
<1>0. EndsOnce(r) /\ Ends \subseteq Kinds /\ network \in [Requests -> [state : {"new", "sent", "answered", "ended"},
         kept : BOOLEAN, hop : Hop \cup {None}, told : Hop \cup {None}]]
  BY DEF EndsInv, Ends, Kinds, TypeOK
<1>1. ASSUME NEW q \in Requests, Finish(q) \/ Break(q) PROVE EndsOnce(r)' /\ (EndTaken(r) => EndTaken(r)')
  <2>1. PICK kind \in Ends : Emit(kind, q)
    BY <1>1 DEF Finish, Break, Ends
  <2>2. /\ streams'[kind] = Append(streams[kind], q) /\ streams[kind] \in Seq(Requests)
        /\ \A k \in Ends \ {kind} : streams'[k] = streams[k]
    BY <1>0, <2>1, EmitStreams, StreamTypes DEF EventOf, Ends
  <2>3. /\ network[q].state # "ended" /\ network'[q].state = "ended"
        /\ \A s \in Requests \ {q} : network'[s] = network[s]
    BY <1>0, <1>1 DEF Finish, Break
  <2>4. \A i \in DOMAIN streams'[kind] :
           \/ i \in DOMAIN streams[kind] /\ streams'[kind][i] = streams[kind][i]
           \/ i = Len(streams[kind]) + 1 /\ streams'[kind][i] = q
    BY <2>2, AppendHas
  <2>5. CASE r = q
    <3>1. \A k \in Ends : ~Queued(k, r)
      BY <1>0, <2>3, <2>5 DEF EndsOnce
    <3>2. \A i \in DOMAIN streams'[kind] : streams'[kind][i] = r => i = Len(streams[kind]) + 1
      BY <2>4, <3>1 DEF Queued
    <3>3. \A k \in Ends \ {kind} : ~Queued(k, r)'
      BY <2>2, <3>1 DEF Queued
    <3>4. \A k \in Ends : \A i, j \in DOMAIN streams'[k] :
            streams'[k][i] = r /\ streams'[k][j] = r => i = j
      BY <3>2, <3>3 DEF Queued
    <3>5. network'[r].state = "ended" /\ ~EndTaken(r)
      BY <2>3, <2>5 DEF EndTaken
    <3> QED BY <3>3, <3>4, <3>5 DEF EndsOnce, Ends
  <2>6. CASE r # q
    <3>1. \A k \in Ends : Queued(k, r)' => Queued(k, r)
      <4>1. Queued(kind, r)' => Queued(kind, r)
        BY <2>4, <2>6 DEF Queued
      <4> QED BY <2>2, <4>1 DEF Queued
    <3>2. \A k \in Ends : \A i, j \in DOMAIN streams'[k] :
            streams'[k][i] = r /\ streams'[k][j] = r => i = j
      <4>1. \A i, j \in DOMAIN streams'[kind] :
              streams'[kind][i] = r /\ streams'[kind][j] = r => i = j
        BY <1>0, <2>4, <2>6 DEF EndsOnce
      <4>2. \A k \in Ends \ {kind} : \A i, j \in DOMAIN streams'[k] :
              streams'[k][i] = r /\ streams'[k][j] = r => i = j
        BY <1>0, <2>2 DEF EndsOnce
      <4> QED BY <4>1, <4>2
    <3>3. network'[r] = network[r]
      BY <2>3, <2>6
    <3> QED BY <1>0, <3>1, <3>2, <3>3 DEF EndsOnce, EndTaken, Ends
  <2> QED BY <2>5, <2>6
<1>2. CASE \/ \E q \in Requests : Request(q) \/ Respond(q) \/ Tell(q)
           \/ Load \/ Push \/ FramePush
  <2>1. PICK kind \in Kinds \ Ends : \E event : Emit(kind, event)
    BY <1>2 DEF Request, Respond, Tell, Load, Push, FramePush, Kinds, Ends
  <2>2. \A k \in Ends : streams'[k] = streams[k]
    BY <1>0, <2>1, EmitStreams
  <2>3. network[r].state = "ended" => network'[r].state = "ended"
    <3>1. ASSUME NEW q \in Requests, Request(q) \/ Respond(q)
          PROVE  network[q].state # "ended" /\ \A s \in Requests \ {q} : network'[s] = network[s]
      BY <1>0, <3>1 DEF Request, Respond
    <3>2. ASSUME NEW q \in Requests, Tell(q) PROVE network'[r].state = network[r].state
      BY <1>0, <3>2 DEF Tell
    <3>3. CASE Load \/ Push \/ FramePush
      BY <3>3 DEF Load, Push, FramePush
    <3> QED BY <1>2, <3>1, <3>2, <3>3
  <2> QED BY <1>0, <2>2, <2>3, EndsStay
<1> QED BY <1>1, <1>2 DEF Browser

\* The end that is taken was the only one.
LEMMA OnEndEnds ==
  ASSUME TypeOK, EndsInv, NEW kind \in Ends, OnEnd(kind), NEW r \in Requests
  PROVE  EndsOnce(r)' /\ (EndTaken(r) => EndTaken(r)') /\ (r = Head(streams[kind]) => EndTaken(r)')
<1>1. Take(kind) /\ Ends \subseteq Kinds /\ kind \in Kinds /\ network' = network /\ EndsOnce(r)
  BY DEF OnEnd, Kinds, EndsInv, Ends
<1>2. /\ streams[kind] \in Seq(Requests) /\ streams[kind] # <<>> /\ streams'[kind] = Tail(streams[kind])
      /\ \A k \in Ends \ {kind} : streams'[k] = streams[k]
  BY <1>1, TakeStreams, StreamTypes DEF EventOf, Ends
<1>3. /\ Head(streams[kind]) = streams[kind][1] /\ 1 \in DOMAIN streams[kind]
      /\ \A i \in DOMAIN streams'[kind] : i \in Nat /\ i > 0 /\ i + 1 \in DOMAIN streams[kind]
                                        /\ streams'[kind][i] = streams[kind][i + 1]
  BY <1>2, TailHas
<1>4. \A k \in Ends : Queued(k, r)' => Queued(k, r)
  <2>1. Queued(kind, r)' => Queued(kind, r)
    BY <1>3 DEF Queued
  <2> QED BY <1>2, <2>1 DEF Queued
<1>5. \A k \in Ends : \A i, j \in DOMAIN streams'[k] :
        streams'[k][i] = r /\ streams'[k][j] = r => i = j
  <2>1. \A i, j \in DOMAIN streams'[kind] :
          streams'[kind][i] = r /\ streams'[kind][j] = r => i = j
    <3> SUFFICES ASSUME NEW i \in DOMAIN streams'[kind], NEW j \in DOMAIN streams'[kind],
                        streams'[kind][i] = r, streams'[kind][j] = r
                 PROVE  i = j
      OBVIOUS
    <3>1. i + 1 = j + 1
      BY <1>1, <1>3 DEF EndsOnce
    <3> QED BY <1>3, <3>1
  <2>2. \A k \in Ends \ {kind} : \A i, j \in DOMAIN streams'[k] :
          streams'[k][i] = r /\ streams'[k][j] = r => i = j
    BY <1>1, <1>2 DEF EndsOnce
  <2> QED BY <2>1, <2>2
<1>6. ASSUME r = Head(streams[kind]) PROVE EndTaken(r)'
  <2>1. Queued(kind, r)
    BY <1>3, <1>6 DEF Queued
  <2>2. ~Queued(kind, r)'
    <3> SUFFICES ASSUME NEW i \in DOMAIN streams'[kind], streams'[kind][i] = r PROVE FALSE
      BY DEF Queued
    <3>1. i + 1 = 1
      BY <1>1, <1>3, <1>6 DEF EndsOnce
    <3> QED BY <1>3, <3>1
  <2>3. \A k \in Ends : ~Queued(k, r)'
    <3>1. \A k \in Ends \ {kind} : ~Queued(k, r)
      BY <1>1, <2>1 DEF EndsOnce, Ends
    <3> QED BY <1>4, <2>2, <3>1
  <2> QED BY <1>1, <2>1, <2>3 DEF EndTaken, EndsOnce, Ends
<1> QED BY <1>1, <1>4, <1>5, <1>6 DEF EndsOnce, EndTaken, Ends

\* An end that was taken stays taken.
LEMMA StepEnds ==
  ASSUME TypeOK, EndsInv, [Next]_vars, NEW r \in Requests
  PROVE  EndsOnce(r)' /\ (EndTaken(r) => EndTaken(r)')
<1>0. EndsOnce(r) /\ Ends \subseteq Kinds
  BY DEF EndsInv, Ends, Kinds
<1>1. CASE Browser
  BY <1>1, BrowserEnds
<1>2. CASE \E kind \in {"done", "fail"} : OnEnd(kind)
  BY <1>2, OnEndEnds DEF Ends
<1>3. CASE OnRequest
  <2>1. CatchUp /\ network' = network
    BY <1>3 DEF OnRequest
  <2>2. \A k \in Ends : streams'[k] = streams[k]
    BY <2>1, CatchUpStreams DEF Ends, Kinds
  <2> QED BY <1>0, <2>1, <2>2, EndsStay
<1>4. CASE OnNav \/ OnSameDoc \/ OnExtra \/ OnResponse
  <2>1. PICK kind \in Kinds \ Ends : Take(kind)
    BY <1>4 DEF OnNav, OnSameDoc, OnExtra, OnResponse, Kinds, Ends
  <2>2. \A k \in Ends : streams'[k] = streams[k]
    BY <1>0, <2>1, TakeStreams
  <2>3. network' = network
    BY <1>4 DEF OnNav, OnSameDoc, OnExtra, OnResponse
  <2> QED BY <1>0, <2>2, <2>3, EndsStay
<1>5. CASE UNCHANGED vars
  BY <1>0, <1>5, EndsStay DEF vars
<1> QED BY <1>1, <1>2, <1>3, <1>4, <1>5 DEF Next, Watch

\* A request without a hop under way has ended if it has rows; chains are linked.
ChainOK(r) ==
  /\ ~Active(r) /\ rows[r] # <<>> => EndTaken(r)
  /\ Active(r) => Links(pending[r].chain, pending[r].hop)
  /\ Active(r) /\ ~EndTaken(r) => Len(pending[r].chain) = pending[r].hop - 1
  /\ \A i \in DOMAIN rows[r] : Links(rows[r][i].chain, rows[r][i].hop)

ChainInv == \A r \in Requests : ChainOK(r)

\* A step that leaves a request alone, but may take its end.
LEMMA ChainStays ==
  ASSUME NEW r \in Requests, ChainOK(r), EndTaken(r) => EndTaken(r)', rows'[r] = rows[r],
         pending'[r].hop = pending[r].hop, pending'[r].chain = pending[r].chain
  PROVE  ChainOK(r)'
<1>1. Active(r)' = Active(r)
  BY DEF Active
<1> QED BY <1>1 DEF ChainOK, Links

\* A chain goes on with the hop that leads to the next one.
LEMMA ChainGrows ==
  ASSUME NEW chain \in Seq(Hop), NEW hop \in Hop, Links(chain, hop)
  PROVE  Links(Append(chain, hop), hop + 1) /\ Len(Append(chain, hop)) = Len(chain) + 1
<1>1. Len(chain) \in Nat /\ hop \in Nat /\ \A i \in DOMAIN chain : chain[i] \in Nat
  BY Bounds DEF Hop
<1> DEFINE new == Append(chain, hop)
<1>2. /\ DOMAIN new = 1..(Len(chain) + 1) /\ DOMAIN chain = 1..Len(chain) /\ Len(new) = Len(chain) + 1
      /\ new[Len(chain) + 1] = hop /\ \A i \in DOMAIN chain : new[i] = chain[i]
  BY AppendHas
<1> HIDE DEF new
<1>3. ASSUME NEW i \in DOMAIN new PROVE new[i] + Len(new) = (hop + 1) + i - 1
  <2>1. CASE i = Len(chain) + 1
    BY <1>1, <1>2, <2>1
  <2>2. CASE i \in DOMAIN chain
    <3>1. chain[i] + Len(chain) = hop + i - 1
      BY <2>2 DEF Links
    <3> QED BY <1>1, <1>2, <2>2, <3>1
  <2> QED BY <1>1, <1>2, <2>1, <2>2
<1> QED BY <1>2, <1>3 DEF Links, new

\* The row of a hop has the chain that was kept of it.
LEMMA StoredChain ==
  ASSUME TypeOK, NEW r \in Requests, ChainOK(r), Active(r), NEW p, p.hop = pending[r].hop,
         p.chain = pending[r].chain, NEW failed, Store(r, p, failed)
  PROVE  /\ \A i \in DOMAIN rows'[r] : Links(rows'[r][i].chain, rows'[r][i].hop)
         /\ rows'[r] # <<>>
<1>1. rows[r] \in Seq(Row)
  BY Typed
<1>2. rows'[r] = Inserted(r, p, failed)
  BY DEF Store, TypeOK
<1> DEFINE row == [hop |-> p.hop, status |-> p.status, page |-> p.page, load |-> p.load, push |-> p.push,
                   chain |-> p.chain, failed |-> failed, extra |-> extra[r]]
<1>3. rows'[r] = Append(rows[r], row) /\ row.hop = pending[r].hop /\ row.chain = pending[r].chain
  BY <1>1, <1>2 DEF Inserted
<1> HIDE DEF row
<1>4. /\ DOMAIN rows'[r] = 1..(Len(rows[r]) + 1) /\ DOMAIN rows[r] = 1..Len(rows[r]) /\ Len(rows[r]) \in Nat
      /\ rows'[r][Len(rows[r]) + 1] = row /\ \A i \in DOMAIN rows[r] : rows'[r][i] = rows[r][i]
      /\ rows'[r] # <<>>
  BY <1>1, <1>3
<1>5. Links(row.chain, row.hop)
  BY <1>3 DEF ChainOK
<1>6. ASSUME NEW i \in DOMAIN rows'[r] PROVE Links(rows'[r][i].chain, rows'[r][i].hop)
  <2>1. CASE i = Len(rows[r]) + 1
    BY <1>4, <1>5, <2>1
  <2>2. CASE i \in DOMAIN rows[r]
    BY <1>4, <2>2 DEF ChainOK
  <2> QED BY <1>4, <2>1, <2>2
<1> QED BY <1>4, <1>6

LEMMA OnRequestChains ==
  ASSUME TypeOK, HopInv, ChainInv, OnRequest, NEW r \in Requests, EndTaken(r) => EndTaken(r)'
  PROVE  ChainOK(r)'
<1> DEFINE e == Head(streams.req)
           prev == pending[e.id]
           redirected == Active(e.id) /\ e.hop > 1
           chain == IF redirected THEN Chained(prev, e) ELSE <<>>
<1>1. streams.req \in Seq(Started) /\ streams.req # <<>> /\ HopOK(r) /\ ChainOK(r)
  BY DEF TypeOK, OnRequest, HopInv, ChainInv
<1>2. e \in Started /\ NextHop(r) \in Nat /\ network[r].hop \in Nat /\ Len(rows[r]) \in Nat
  BY <1>1, TailHas, Typed
<1>3. pending' = [pending EXCEPT ![e.id] = IF network[e.id].kept THEN Begun(e, chain) ELSE NoPending]
  BY DEF OnRequest
<1>4. IF redirected THEN Store(e.id, [prev EXCEPT !.status = e.hop - 1], FALSE) ELSE UNCHANGED rows
  BY DEF OnRequest
<1>5. CASE r # e.id
  <2>1. pending'[r] = pending[r]
    BY <1>3, <1>5 DEF TypeOK
  <2>2. rows'[r] = rows[r]
    BY <1>2, <1>4, <1>5 DEF Store, TypeOK
  <2> QED BY <1>1, <2>1, <2>2, ChainStays
<1>6. CASE r = e.id /\ ~network[r].kept
  <2>1. ~Active(r) /\ rows[r] = <<>>
    BY <1>1, <1>6 DEF HopOK
  <2>2. rows'[r] = <<>>
    BY <1>4, <1>6, <2>1
  <2>3. pending'[r].hop = None
    BY <1>3, <1>6 DEF TypeOK, NoPending
  <2> QED BY <2>2, <2>3 DEF ChainOK, Active
<1>7. CASE r = e.id /\ network[r].kept
  <2>1. e.hop = NextHop(r)
    BY <1>1, <1>2, <1>7, UpcomingTail DEF HopOK
  <2>2. pending'[r].hop = e.hop /\ pending'[r].chain = chain
    <3>1. pending'[r] = Begun(e, chain)
      BY <1>3, <1>7 DEF TypeOK
    <3> HIDE DEF chain
    <3> QED BY <3>1 DEF Begun
  <2>3. e.hop > 0 /\ e.hop \in Nat /\ Active(r)'
    BY <1>2, <2>2, Bounds DEF Started, Hop, Active, None
  <2>4. CASE Active(r)
    <3>1. pending[r].hop = Len(rows[r]) + 1 /\ e.hop = pending[r].hop + 1
      BY <1>1, <2>1, <2>4 DEF HopOK, NextHop
    <3>2. redirected /\ chain = Append(pending[r].chain, pending[r].hop)
      <4>1. e.hop > 1
        BY <1>2, <3>1
      <4>2. Active(e.id)
        BY <1>7, <2>4
      <4>3. redirected
        BY <4>1, <4>2
      <4> QED BY <1>7, <4>3 DEF Chained
    <3>3. pending[r].chain \in Seq(Hop) /\ pending[r].hop \in Hop
      BY <2>4, Typed DEF Pending, Active, TypeOK
    <3>4. Links(chain, e.hop) /\ Len(chain) = Len(pending[r].chain) + 1
      <4>1. Links(pending[r].chain, pending[r].hop)
        BY <1>1, <2>4 DEF ChainOK
      <4> HIDE DEF chain
      <4> QED BY <3>1, <3>2, <3>3, <4>1, ChainGrows
    <3>5. /\ \A i \in DOMAIN rows'[r] : Links(rows'[r][i].chain, rows'[r][i].hop)
          /\ rows'[r] # <<>>
      <4> DEFINE p == [prev EXCEPT !.status = e.hop - 1]
      <4>1. Store(r, p, FALSE)
        BY <1>4, <1>7, <3>2
      <4>2. p.hop = pending[r].hop /\ p.chain = pending[r].chain
        BY <1>7, Typed DEF Pending
      <4> HIDE DEF p
      <4> QED BY <1>1, <2>4, <4>1, <4>2, StoredChain
    <3>6. ~EndTaken(r)' => Len(chain) = e.hop - 1
      <4>1. ~EndTaken(r)' => Len(pending[r].chain) = pending[r].hop - 1
        BY <1>1, <2>4 DEF ChainOK
      <4> HIDE DEF chain
      <4> QED BY <2>3, <3>1, <3>3, <3>4, <4>1, Bounds DEF Hop
    <3> HIDE DEF chain, e
    <3> QED BY <2>2, <2>3, <3>4, <3>5, <3>6 DEF ChainOK
  <2>5. CASE ~Active(r)
    <3>1. rows'[r] = rows[r] /\ chain = <<>>
      BY <1>4, <1>7, <2>5
    <3>2. e.hop = Len(rows[r]) + 1
      BY <2>1, <2>5 DEF NextHop
    <3>3. rows[r] # <<>> => EndTaken(r)'
      BY <1>1, <2>5 DEF ChainOK
    <3>4. ~EndTaken(r)' => Len(chain) = e.hop - 1
      <4>1. rows[r] = <<>> => Len(rows[r]) = 0
        OBVIOUS
      <4>2. Len(chain) = 0
        BY <3>1
      <4> QED BY <3>2, <3>3, <4>1, <4>2
    <3>5. Links(chain, e.hop)
      BY <3>1 DEF Links
    <3> HIDE DEF chain, e
    <3> QED BY <1>1, <2>2, <2>3, <3>1, <3>4, <3>5 DEF ChainOK
  <2> QED BY <2>4, <2>5
<1> QED BY <1>5, <1>6, <1>7, Typed

LEMMA OnEndChains ==
  ASSUME TypeOK, EndsInv, ChainInv, NEW kind \in Ends, OnEnd(kind), NEW r \in Requests
  PROVE  ChainOK(r)'
<1> DEFINE q == Head(streams[kind])
<1>1. Take(kind) /\ kind \in Kinds /\ ChainOK(r) /\ kind \in {"done", "fail"}
  BY DEF OnEnd, Kinds, ChainInv, Ends
<1>2. q \in Requests
  BY <1>1, TakeType DEF EventOf
<1>3. (EndTaken(r) => EndTaken(r)') /\ (r = q => EndTaken(r)')
  BY OnEndEnds
<1>4. CASE ~Active(q)
  BY <1>1, <1>3, <1>4, ChainStays DEF OnEnd
<1>5. CASE Active(q)
  <2>1. Store(q, pending[q], kind = "fail") /\ pending' = [pending EXCEPT ![q] = NoPending]
    BY <1>5 DEF OnEnd
  <2>2. CASE r # q
    <3>1. rows'[r] = rows[r]
      BY <1>2, <2>1, <2>2 DEF Store, TypeOK
    <3> QED BY <1>1, <1>3, <2>1, <2>2, <3>1, ChainStays DEF TypeOK
  <2>3. CASE r = q
    <3>1. \A i \in DOMAIN rows'[r] : Links(rows'[r][i].chain, rows'[r][i].hop)
      <4>1. PICK failed : failed = (kind = "fail")
        OBVIOUS
      <4> QED BY <1>1, <1>5, <2>1, <2>3, <4>1, StoredChain
    <3>2. ~Active(r)'
      BY <2>1, <2>3 DEF Active, NoPending, TypeOK
    <3> QED BY <1>3, <2>3, <3>1, <3>2 DEF ChainOK
  <2> QED BY <2>2, <2>3
<1> QED BY <1>4, <1>5

\* Chains stay linked.
LEMMA StepChains == TypeOK /\ HopInv /\ EndsInv /\ ChainInv /\ [Next]_vars => ChainInv'
<1> SUFFICES ASSUME TypeOK, HopInv, EndsInv, ChainInv, [Next]_vars, NEW r \in Requests PROVE ChainOK(r)'
  BY DEF ChainInv
<1>0. ChainOK(r) /\ (EndTaken(r) => EndTaken(r)')
  BY StepEnds DEF ChainInv
<1>1. CASE Browser
  <2>1. rows' = rows /\ pending' = pending
    BY <1>1 DEF Browser, Request, Respond, Finish, Break, Tell, Load, Push, FramePush, Emit
  <2> QED BY <1>0, <2>1, ChainStays
<1>2. CASE OnRequest
  BY <1>0, <1>2, OnRequestChains
<1>3. CASE \E kind \in {"done", "fail"} : OnEnd(kind)
  BY <1>3, OnEndChains DEF Ends
<1>4. CASE OnNav \/ OnSameDoc \/ OnExtra
  <2>1. rows' = rows /\ pending' = pending
    BY <1>4 DEF OnNav, OnSameDoc, OnExtra
  <2> QED BY <1>0, <2>1, ChainStays
<1>5. CASE OnResponse
  <2>1. rows' = rows
    BY <1>5 DEF OnResponse
  <2> QED BY <1>0, <1>5, <2>1, ResponseKeeps, ChainStays
<1>6. CASE UNCHANGED vars
  BY <1>0, <1>6, ChainStays DEF vars
<1> QED BY <1>1, <1>2, <1>3, <1>4, <1>5, <1>6 DEF Next, Watch

-----------------------------------------------------------------------------
(* Additional headers *)

\* The events of a request in the stream of additional headers are in order, after
\* those up to "used" and none after "told".
Later(seq, r, used, told) ==
  /\ \A k \in DOMAIN seq : seq[k].id = r => used < seq[k].hop /\ seq[k].hop <= told
  /\ \A k, l \in DOMAIN seq : k < l /\ seq[k].id = r /\ seq[l].id = r => seq[k].hop < seq[l].hop

\* Those of a request that were merged are different, those that wait come after them.
ExtraOK(r) ==
  /\ \A i \in DOMAIN rows[r] : rows[r][i].extra \in Nat /\ rows[r][i].extra <= network[r].told
  /\ \A i, j \in DOMAIN rows[r] : i # j /\ rows[r][i].extra # None => rows[r][i].extra # rows[r][j].extra
  /\ extra[r] <= network[r].told
  /\ extra[r] # None => \A i \in DOMAIN rows[r] : rows[r][i].extra < extra[r]
  /\ Later(streams.extra, r, extra[r], network[r].told)
  /\ \A i \in DOMAIN rows[r] : Later(streams.extra, r, rows[r][i].extra, network[r].told)

ExtraInv == \A r \in Requests : ExtraOK(r)

\* Headers of a later hop are sent.
LEMMA LaterAppend ==
  ASSUME NEW seq \in Seq(Part), NEW r \in Requests, NEW used \in Nat, NEW told \in Nat, used <= told,
         Later(seq, r, used, told), NEW e \in Part
  PROVE  /\ e.id # r => Later(Append(seq, e), r, used, told)
         /\ e.id = r /\ e.hop > told => Later(Append(seq, e), r, used, e.hop)
<1> DEFINE new == Append(seq, e)
<1>1. /\ DOMAIN new = 1..(Len(seq) + 1) /\ DOMAIN seq = 1..Len(seq) /\ Len(seq) \in Nat
      /\ new[Len(seq) + 1] = e /\ \A i \in DOMAIN seq : new[i] = seq[i] /\ seq[i].hop \in Int
      /\ e.hop \in Int
  <2>1. \A i \in DOMAIN seq : seq[i] \in Part
    OBVIOUS
  <2>2. e.hop \in Int /\ \A i \in DOMAIN seq : seq[i].hop \in Int
    BY <2>1, Bounds DEF Part, Hop
  <2> QED BY <2>2, AppendHas
<1> HIDE DEF new
<1>2. ASSUME e.id # r PROVE Later(new, r, used, told)
  <2>1. \A i \in DOMAIN new : new[i].id = r => i \in DOMAIN seq /\ new[i] = seq[i]
    BY <1>1, <1>2
  <2> QED BY <2>1 DEF Later
<1>3. ASSUME e.id = r, e.hop > told PROVE Later(new, r, used, e.hop)
  <2>1. \A k \in DOMAIN new : new[k].id = r => used < new[k].hop /\ new[k].hop <= e.hop
    BY <1>1, <1>3 DEF Later
  <2>2. \A k, l \in DOMAIN new : k < l /\ new[k].id = r /\ new[l].id = r => new[k].hop < new[l].hop
    BY <1>1, <1>3 DEF Later
  <2> QED BY <2>1, <2>2 DEF Later
<1> QED BY <1>2, <1>3 DEF new

\* The first headers of the stream are taken.
LEMMA LaterTail ==
  ASSUME NEW seq \in Seq(Part), seq # <<>>, NEW r \in Requests, NEW used, NEW told \in Nat,
         Later(seq, r, used, told)
  PROVE  /\ Later(Tail(seq), r, used, told)
         /\ Head(seq).id = r => /\ used < Head(seq).hop /\ Head(seq).hop <= told
                                /\ Later(Tail(seq), r, Head(seq).hop, told)
<1> DEFINE e == Head(seq)
           new == Tail(seq)
<1>1. /\ e = seq[1] /\ 1 \in DOMAIN seq
      /\ \A i \in DOMAIN new : i \in Nat /\ i > 0 /\ i + 1 \in DOMAIN seq /\ new[i] = seq[i + 1]
  BY TailHas
<1> HIDE DEF new, e
<1>2. \A k, l \in DOMAIN new : k < l /\ new[k].id = r /\ new[l].id = r => new[k].hop < new[l].hop
  <2> TAKE k, l \in DOMAIN new
  <2>1. k < l => k + 1 < l + 1
    BY <1>1
  <2> QED BY <1>1, <2>1 DEF Later
<1>3. Later(new, r, used, told)
  BY <1>1, <1>2 DEF Later
<1>4. ASSUME e.id = r PROVE used < e.hop /\ e.hop <= told /\ Later(new, r, e.hop, told)
  <2>1. \A k \in DOMAIN new : 1 < k + 1
    BY <1>1
  <2>2. \A k \in DOMAIN new : new[k].id = r => e.hop < new[k].hop /\ new[k].hop <= told
    BY <1>1, <1>4, <2>1 DEF Later
  <2> QED BY <1>1, <1>2, <1>4, <2>2 DEF Later
<1> QED BY <1>3, <1>4 DEF new, e

\* A step that leaves the headers of a request alone.
LEMMA ExtraStays ==
  ASSUME NEW r \in Requests, ExtraOK(r), streams'.extra = streams.extra, extra'[r] = extra[r],
         rows'[r] = rows[r], network'[r].told = network[r].told
  PROVE  ExtraOK(r)'
BY DEF ExtraOK, Later

\* Headers that were merged are used up.
LEMMA StoredExtra ==
  ASSUME TypeOK, NEW r \in Requests, ExtraOK(r), NEW p, NEW failed, Store(r, p, failed),
         streams'.extra = streams.extra, network' = network
  PROVE  ExtraOK(r)'
<1>1. /\ rows[r] \in Seq(Row) /\ extra[r] \in Nat /\ network[r].told \in Nat
      /\ streams.extra \in Seq(Part)
  BY Typed DEF TypeOK
<1>2. rows'[r] = Inserted(r, p, failed) /\ extra'[r] = None
  BY DEF Store, TypeOK
<1> DEFINE row == [hop |-> p.hop, status |-> p.status, page |-> p.page, load |-> p.load, push |-> p.push,
                   chain |-> p.chain, failed |-> failed, extra |-> extra[r]]
<1>3. rows'[r] = Append(rows[r], row) /\ row.extra = extra[r]
  BY <1>1, <1>2 DEF Inserted
<1> HIDE DEF row
<1>4. /\ DOMAIN rows'[r] = 1..(Len(rows[r]) + 1) /\ DOMAIN rows[r] = 1..Len(rows[r]) /\ Len(rows[r]) \in Nat
      /\ rows'[r][Len(rows[r]) + 1] = row /\ \A i \in DOMAIN rows[r] : rows'[r][i] = rows[r][i]
  BY <1>1, <1>3
<1>5. \A i \in DOMAIN rows'[r] :
         \/ i = Len(rows[r]) + 1 /\ rows'[r][i].extra = extra[r]
         \/ i \in DOMAIN rows[r] /\ rows'[r][i].extra = rows[r][i].extra
  BY <1>3, <1>4
<1>6. Later(streams.extra, r, None, network[r].told)
  <2>1. \A k \in DOMAIN streams.extra : streams.extra[k].id = r => streams.extra[k].hop > None
    <3>1. \A k \in DOMAIN streams.extra : streams.extra[k] \in Part
      BY <1>1
    <3> QED BY <3>1, Bounds DEF Part, Hop, None
  <2> QED BY <2>1 DEF ExtraOK, Later
<1>7. \A i \in DOMAIN rows'[r] : /\ rows'[r][i].extra \in Nat /\ rows'[r][i].extra <= network[r].told
                                 /\ Later(streams.extra, r, rows'[r][i].extra, network[r].told)
  BY <1>1, <1>5 DEF ExtraOK
<1>8. \A i, j \in DOMAIN rows'[r] : i # j /\ rows'[r][i].extra # None => rows'[r][i].extra # rows'[r][j].extra
  <2> SUFFICES ASSUME NEW i \in DOMAIN rows'[r], NEW j \in DOMAIN rows'[r], i # j, rows'[r][i].extra # None
               PROVE  rows'[r][i].extra # rows'[r][j].extra
    OBVIOUS
  <2>1. CASE i \in DOMAIN rows[r] /\ j \in DOMAIN rows[r]
    BY <1>4, <2>1 DEF ExtraOK
  <2>0. \A k \in DOMAIN rows[r] : /\ rows'[r][k].extra = rows[r][k].extra
                                 /\ rows[r][k].extra \in Nat
                                 /\ extra[r] # None => rows[r][k].extra < extra[r]
    BY <1>4 DEF ExtraOK
  <2>2. CASE i = Len(rows[r]) + 1 /\ j \in DOMAIN rows[r]
    BY <1>1, <1>3, <1>4, <2>0, <2>2
  <2>3. CASE j = Len(rows[r]) + 1 /\ i \in DOMAIN rows[r]
    BY <1>1, <1>3, <1>4, <2>0, <2>3
  <2> QED BY <1>4, <2>1, <2>2, <2>3
<1>9. None <= network[r].told
  BY <1>1 DEF None
<1> QED BY <1>2, <1>6, <1>7, <1>8, <1>9 DEF ExtraOK, Later

LEMMA TellExtra ==
  ASSUME TypeOK, ExtraInv, NEW q \in Requests, Tell(q), NEW r \in Requests
  PROVE  ExtraOK(r)'
<1>1. PICK h \in network[q].told + 1 .. network[q].hop :
           network' = [network EXCEPT ![q].told = h] /\ Emit("extra", [id |-> q, hop |-> h])
  BY DEF Tell
<1> DEFINE e == [id |-> q, hop |-> h]
<1>2. /\ e \in Part /\ e.id = q /\ e.hop = h /\ h > network[q].told /\ h \in Nat
      /\ network[r].told \in Nat /\ extra[r] \in Nat /\ ExtraOK(r) /\ streams.extra \in Seq(Part)
  <2>1. network[q].hop \in Hop \cup {None} /\ network[q].told \in Hop \cup {None}
    BY DEF TypeOK
  <2>2. h \in Hop /\ h > network[q].told
    BY <2>1, Bounds DEF Hop, None
  <2> QED BY <2>2, Typed, Bounds DEF Part, Hop, ExtraInv, TypeOK
<1>3. streams'.extra = Append(streams.extra, e) /\ rows' = rows /\ extra' = extra
  BY <1>1, EmitStreams DEF Kinds
<1>4. network'[r].told = IF r = q THEN h ELSE network[r].told
  BY <1>1 DEF TypeOK
<1> HIDE DEF e
<1>5. ASSUME NEW used \in Nat, used <= network[r].told, Later(streams.extra, r, used, network[r].told)
      PROVE  Later(streams'.extra, r, used, network'[r].told)
  <2>1. CASE r = q
    BY <1>2, <1>3, <1>4, <1>5, <2>1, LaterAppend
  <2>2. CASE r # q
    BY <1>2, <1>3, <1>4, <1>5, <2>2, LaterAppend
  <2> QED BY <2>1, <2>2
<1>6. network[r].told <= network'[r].told /\ network'[r].told \in Nat
  BY <1>2, <1>4
<1>7. \A i \in DOMAIN rows[r] : /\ rows[r][i].extra \in Nat /\ rows[r][i].extra <= network'[r].told
                                /\ Later(streams'.extra, r, rows[r][i].extra, network'[r].told)
  BY <1>2, <1>5, <1>6 DEF ExtraOK
<1>8. extra[r] <= network'[r].told /\ Later(streams'.extra, r, extra[r], network'[r].told)
  BY <1>2, <1>5, <1>6 DEF ExtraOK
<1> QED BY <1>2, <1>3, <1>7, <1>8 DEF ExtraOK, Later

LEMMA OnExtraExtra ==
  ASSUME TypeOK, ExtraInv, OnExtra, NEW r \in Requests
  PROVE  ExtraOK(r)'
<1> DEFINE e == Head(streams.extra)
<1>1. Take("extra") /\ "extra" \in Kinds /\ ExtraOK(r) /\ network' = network /\ rows' = rows
  BY DEF OnExtra, Kinds, ExtraInv
<1>2. /\ streams.extra \in Seq(Part) /\ streams.extra # <<>> /\ streams'.extra = Tail(streams.extra)
      /\ e \in Part /\ network[r].told \in Nat
  BY <1>1, TakeStreams, TakeType, Typed DEF TypeOK, EventOf
<1>3. extra'[r] = IF r = e.id THEN e.hop ELSE extra[r]
  BY DEF OnExtra, TypeOK
<1> HIDE DEF e
<1>4. \A i \in DOMAIN rows[r] : Later(streams'.extra, r, rows[r][i].extra, network[r].told)
  BY <1>1, <1>2, LaterTail DEF ExtraOK
<1>5. /\ extra'[r] <= network[r].told /\ Later(streams'.extra, r, extra'[r], network[r].told)
      /\ extra'[r] # None => \A i \in DOMAIN rows[r] : rows[r][i].extra < extra'[r]
  <2>1. CASE r = e.id
    <3>1. e.hop <= network[r].told /\ Later(streams'.extra, r, e.hop, network[r].told)
      BY <1>1, <1>2, <2>1, LaterTail DEF ExtraOK, e
    <3>2. \A i \in DOMAIN rows[r] : rows[r][i].extra < e.hop
      BY <1>1, <1>2, <2>1, LaterTail DEF ExtraOK, e
    <3> QED BY <1>3, <2>1, <3>1, <3>2
  <2>2. CASE r # e.id
    <3>1. Later(streams'.extra, r, extra[r], network[r].told)
      BY <1>1, <1>2, LaterTail DEF ExtraOK
    <3> QED BY <1>1, <1>3, <2>2, <3>1 DEF ExtraOK
  <2> QED BY <2>1, <2>2
<1> QED BY <1>1, <1>4, <1>5 DEF ExtraOK, Later

\* Headers that were merged are different and behind those that wait.
LEMMA StepExtra == TypeOK /\ ExtraInv /\ [Next]_vars => ExtraInv'
<1> SUFFICES ASSUME TypeOK, ExtraInv, [Next]_vars, NEW r \in Requests PROVE ExtraOK(r)'
  BY DEF ExtraInv
<1>0. ExtraOK(r) /\ "extra" \in Kinds
  BY DEF ExtraInv, Kinds
<1>1. CASE \E q \in Requests : Tell(q)
  BY <1>1, TellExtra
<1>2. CASE OnExtra
  BY <1>2, OnExtraExtra
<1>3. CASE \/ \E q \in Requests : Request(q) \/ Respond(q) \/ Finish(q) \/ Break(q)
           \/ Load \/ Push \/ FramePush
  <2>1. PICK kind \in Kinds \ {"extra"} : \E event : Emit(kind, event)
    BY <1>3 DEF Request, Respond, Finish, Break, Load, Push, FramePush, Kinds
  <2>2. streams'.extra = streams.extra /\ rows' = rows /\ extra' = extra
    BY <1>0, <2>1, EmitStreams
  <2>3. network'[r].told = network[r].told
    <3>1. ASSUME NEW q \in Requests, Request(q) PROVE network'[r].told = network[r].told
      <4>1. PICK h : network' = [network EXCEPT ![q].state = "sent", ![q].hop = h]
        BY <3>1 DEF Request
      <4> QED BY <4>1 DEF TypeOK
    <3>2. ASSUME NEW q \in Requests, Respond(q) \/ Finish(q) \/ Break(q)
          PROVE  network'[r].told = network[r].told
      <4>1. PICK state : network' = [network EXCEPT ![q].state = state]
        BY <3>2 DEF Respond, Finish, Break
      <4> QED BY <4>1 DEF TypeOK
    <3>3. CASE Load \/ Push \/ FramePush
      BY <3>3 DEF Load, Push, FramePush
    <3> QED BY <1>3, <3>1, <3>2, <3>3
  <2> QED BY <1>0, <2>2, <2>3, ExtraStays
<1>4. CASE OnNav \/ OnSameDoc \/ OnResponse
  <2>1. PICK kind \in Kinds \ {"extra"} : Take(kind)
    BY <1>4 DEF OnNav, OnSameDoc, OnResponse, Kinds
  <2>2. streams'.extra = streams.extra
    BY <1>0, <2>1, TakeStreams
  <2>3. network' = network /\ rows' = rows /\ extra' = extra
    BY <1>4 DEF OnNav, OnSameDoc, OnResponse
  <2> QED BY <1>0, <2>2, <2>3, ExtraStays
<1>5. ASSUME streams'.extra = streams.extra, network' = network,
             \/ UNCHANGED <<rows, extra>>
             \/ \E q \in Requests : \E p : \E failed : Store(q, p, failed)
      PROVE  ExtraOK(r)'
  <2>1. ASSUME NEW q \in Requests, NEW p, NEW failed, Store(q, p, failed) PROVE ExtraOK(r)'
    <3>1. CASE q = r
      BY <1>0, <1>5, <2>1, <3>1, StoredExtra
    <3>2. CASE q # r
      <4>1. rows'[r] = rows[r] /\ extra'[r] = extra[r]
        BY <2>1, <3>2 DEF Store, TypeOK
      <4> QED BY <1>0, <1>5, <4>1, ExtraStays
    <3> QED BY <3>1, <3>2
  <2> QED BY <1>0, <1>5, <2>1, ExtraStays
<1>6. CASE OnRequest
  <2>1. streams'.extra = streams.extra
    BY <1>6, CatchUpStreams DEF OnRequest, Kinds
  <2>2. Head(streams.req).id \in Requests
    <3>1. streams.req \in Seq(Started) /\ streams.req # <<>>
      BY <1>6 DEF OnRequest, TypeOK
    <3>2. Head(streams.req) \in Started
      BY <3>1, TailHas
    <3> QED BY <3>2 DEF Started
  <2>3. \/ UNCHANGED <<rows, extra>>
        \/ \E q \in Requests : \E p : \E failed : Store(q, p, failed)
    BY <1>6, <2>2 DEF OnRequest
  <2> QED BY <1>5, <1>6, <2>1, <2>3 DEF OnRequest
<1>7. ASSUME NEW kind \in {"done", "fail"}, OnEnd(kind) PROVE ExtraOK(r)'
  <2>1. Take(kind) /\ kind \in Kinds /\ network' = network
    BY <1>7 DEF OnEnd, Kinds
  <2>2. streams'.extra = streams.extra /\ Head(streams[kind]) \in Requests
    BY <1>0, <2>1, TakeStreams, TakeType DEF EventOf
  <2>3. \/ UNCHANGED <<rows, extra>>
        \/ \E q \in Requests : \E p : \E failed : Store(q, p, failed)
    BY <1>7, <2>2 DEF OnEnd
  <2> QED BY <1>5, <2>1, <2>2, <2>3
<1>8. CASE UNCHANGED vars
  BY <1>0, <1>8, ExtraStays DEF vars
<1> QED BY <1>1, <1>2, <1>3, <1>4, <1>6, <1>7, <1>8 DEF Next, Browser, Watch

-----------------------------------------------------------------------------
(* Pages *)

\* The last change of the tab's own address in the stream goes to p.
LastPage(seq, p) ==
  \A i \in DOMAIN seq :
    seq[i] \in Page /\ (\A j \in DOMAIN seq : seq[j] \in Page => j <= i) => seq[i] = p

NoPage(seq) == \A i \in DOMAIN seq : seq[i] \notin Page

\* A hop that is filed under a page is filed under the last one of either kind
\* before it, or a later one.
Filed(p) == p.page \in Page => AtLast(p.page, p.load, p.push)

\* The tab was at load and push when e was sent: it is there still, or went on to
\* pages that are later than all e saw.
SentBefore(e, load, push) ==
  /\ load = e.load \/ (load > e.load /\ load > e.push)
  /\ push = e.push \/ (push > e.load /\ push > e.push)

\* What the events that wait say of the place of the tab; when none of a page
\* waits, the page that the loop knows is the last one of either kind, and an
\* address that could not be asked for is still that of the first page.
PlaceOK ==
  /\ place.load <= place.page /\ place.push <= place.page
  /\ \A i \in DOMAIN streams.req : SentBefore(streams.req[i], place.load, place.push)
  /\ streams.nav # <<>> => place.load # 0 /\ streams.nav[Len(streams.nav)] = place.load
  /\ LastPage(streams.same, place.push)
  /\ ~NoPage(streams.same) => place.push # 0
  /\ streams.nav = <<>> /\ NoPage(streams.same) /\ top \in Page => AtLast(top, place.load, place.push)
  /\ streams.nav = <<>> /\ NoPage(streams.same) /\ top = Unknown => place.push = 0

FiledOK(r) == Filed(pending[r]) /\ \A i \in DOMAIN rows[r] : Filed(rows[r][i])

PageInv == PlaceOK /\ \A r \in Requests : FiledOK(r)

LEMMA FramedNoPage == Framed \notin Page /\ Unknown \notin Page /\ Page \subseteq Nat
BY Bounds DEF Framed, Unknown, Page

\* A change of address is sent.
LEMMA LastPageAppend ==
  ASSUME NEW seq \in Seq(Page \cup {Framed}), NEW p, LastPage(seq, p)
  PROVE  /\ LastPage(Append(seq, Framed), p)
         /\ NoPage(Append(seq, Framed)) <=> NoPage(seq)
         /\ \A q \in Page : LastPage(Append(seq, q), q) /\ ~NoPage(Append(seq, q))
<1>1. ASSUME NEW e \in Page \cup {Framed}
      PROVE  /\ DOMAIN Append(seq, e) = 1..(Len(seq) + 1) /\ DOMAIN seq = 1..Len(seq) /\ Len(seq) \in Nat
             /\ Append(seq, e)[Len(seq) + 1] = e
             /\ \A i \in DOMAIN seq : Append(seq, e)[i] = seq[i]
  BY AppendHas
<1>2. LastPage(Append(seq, Framed), p) /\ (NoPage(Append(seq, Framed)) <=> NoPage(seq))
  <2> DEFINE new == Append(seq, Framed)
  <2>1. /\ DOMAIN new = 1..(Len(seq) + 1) /\ DOMAIN seq = 1..Len(seq) /\ Len(seq) \in Nat
        /\ new[Len(seq) + 1] = Framed /\ \A i \in DOMAIN seq : new[i] = seq[i]
    BY <1>1
  <2> HIDE DEF new
  <2>2. \A i \in DOMAIN new : new[i] \in Page => i \in DOMAIN seq
    BY <2>1, FramedNoPage
  <2>3. \A i \in DOMAIN seq : i \in DOMAIN new
    BY <2>1
  <2>4. LastPage(new, p)
    BY <2>1, <2>2, <2>3 DEF LastPage
  <2>5. NoPage(new) <=> NoPage(seq)
    BY <2>1, <2>2, <2>3 DEF NoPage
  <2> QED BY <2>4, <2>5 DEF new
<1>3. ASSUME NEW q \in Page PROVE LastPage(Append(seq, q), q) /\ ~NoPage(Append(seq, q))
  <2> DEFINE new == Append(seq, q)
  <2>1. DOMAIN new = 1..(Len(seq) + 1) /\ Len(seq) \in Nat /\ new[Len(seq) + 1] = q
    BY <1>1
  <2> HIDE DEF new
  <2>2. Len(seq) + 1 \in DOMAIN new /\ \A i \in DOMAIN new : Len(seq) + 1 <= i => i = Len(seq) + 1
    BY <2>1
  <2> QED BY <2>1, <2>2 DEF LastPage, NoPage, new
<1> QED BY <1>2, <1>3

\* A change of address is taken.
LEMMA LastPageTail ==
  ASSUME NEW seq \in Seq(Page \cup {Framed}), seq # <<>>, NEW p, LastPage(seq, p)
  PROVE  /\ LastPage(Tail(seq), p)
         /\ Head(seq) \notin Page /\ NoPage(Tail(seq)) => NoPage(seq)
         /\ Head(seq) \in Page /\ NoPage(Tail(seq)) => Head(seq) = p
<1> DEFINE e == Head(seq)
           new == Tail(seq)
<1>1. /\ e = seq[1] /\ 1 \in DOMAIN seq
      /\ \A i \in DOMAIN new : i \in Nat /\ i > 0 /\ i + 1 \in DOMAIN seq /\ new[i] = seq[i + 1]
      /\ \A i \in DOMAIN seq : i \in Nat
      /\ \A i \in DOMAIN seq : i = 1 \/ (i - 1 \in DOMAIN new /\ new[i - 1] = seq[i])
  BY TailHas
<1> HIDE DEF new, e
<1>2. LastPage(new, p)
  <2> SUFFICES ASSUME NEW i \in DOMAIN new, new[i] \in Page,
                      \A j \in DOMAIN new : new[j] \in Page => j <= i
               PROVE  new[i] = p
    BY DEF LastPage
  <2>1. \A j \in DOMAIN seq : seq[j] \in Page => j <= i + 1
    <3> TAKE j \in DOMAIN seq
    <3>1. CASE j = 1
      BY <1>1, <3>1
    <3>2. CASE j # 1
      <4>1. j - 1 \in DOMAIN new /\ new[j - 1] = seq[j]
        BY <1>1, <3>2
      <4>2. seq[j] \in Page => j - 1 <= i
        BY <4>1
      <4> QED BY <1>1, <4>2
    <3> QED BY <3>1, <3>2
  <2> QED BY <1>1, <2>1 DEF LastPage
<1>3. e \notin Page /\ NoPage(new) => NoPage(seq)
  BY <1>1 DEF NoPage
<1>4. e \in Page /\ NoPage(new) => e = p
  <2> SUFFICES ASSUME e \in Page, NoPage(new) PROVE e = p
    OBVIOUS
  <2>1. \A j \in DOMAIN seq : seq[j] \in Page => j <= 1
    <3> TAKE j \in DOMAIN seq
    <3>1. j = 1 \/ seq[j] \notin Page
      BY <1>1 DEF NoPage
    <3> QED BY <3>1
  <2> QED BY <1>1, <2>1 DEF LastPage
<1> QED BY <1>2, <1>3, <1>4 DEF new, e

\* The place of the tab, as numbers.
LEMMA PlaceTyped ==
  ASSUME TypeOK
  PROVE  /\ place.page \in Nat /\ place.load \in Nat /\ place.push \in Nat
         /\ streams.req \in Seq(Started) /\ streams.nav \in Seq(Page)
         /\ streams.same \in Seq(Page \cup {Framed})
         /\ \A i \in DOMAIN streams.req : streams.req[i].load \in Nat /\ streams.req[i].push \in Nat
<1>1. place \in [page : Page, load : Page, push : Page] /\ streams.req \in Seq(Started)
  BY DEF TypeOK
<1>2. \A i \in DOMAIN streams.req : streams.req[i] \in Started
  BY <1>1
<1>3. \A i \in DOMAIN streams.req : streams.req[i].load \in Page /\ streams.req[i].push \in Page
  BY <1>2 DEF Started
<1> QED BY <1>1, <1>3, FramedNoPage DEF TypeOK

\* The next page is later than all that a request event that waits has seen.
LEMMA SeenBefore ==
  ASSUME TypeOK, PlaceOK
  PROVE  \A i \in DOMAIN streams.req :
           /\ SentBefore(streams.req[i], place.page + 1, place.push)
           /\ SentBefore(streams.req[i], place.load, place.page + 1)
<1> TAKE i \in DOMAIN streams.req
<1>1. SentBefore(streams.req[i], place.load, place.push)
      /\ place.load <= place.page /\ place.push <= place.page
  BY DEF PlaceOK
<1>2. /\ streams.req[i].load \in Nat /\ streams.req[i].push \in Nat
      /\ place.load \in Nat /\ place.push \in Nat /\ place.page \in Nat
  BY PlaceTyped
<1>3. streams.req[i].load <= place.page /\ streams.req[i].push <= place.page
  BY <1>1, <1>2 DEF SentBefore
<1> QED BY <1>1, <1>2, <1>3 DEF SentBefore

\* A step that leaves the place of the tab and what is said of it alone.
LEMMA PlaceStays ==
  ASSUME PlaceOK, place' = place, top' = top, streams'.req = streams.req,
         streams'.nav = streams.nav, streams'.same = streams.same
  PROVE  PlaceOK'
BY DEF PlaceOK, LastPage, NoPage

\* The tab goes on, and requests are sent from where it is.
LEMMA BrowserPages == TypeOK /\ PlaceOK /\ Browser => PlaceOK'
<1> SUFFICES ASSUME TypeOK, PlaceOK, Browser PROVE PlaceOK'
  OBVIOUS
<1>1. ASSUME NEW r \in Requests, Request(r) PROVE PlaceOK'
  <2> DEFINE e == [id |-> r, hop |-> network[r].hop + 1, load |-> place.load, push |-> place.push]
  <2>1. Emit("req", e) /\ place' = place /\ "req" \in Kinds
    BY <1>1 DEF Request, Kinds
  <2>2. /\ streams'.req = Append(streams.req, e) /\ top' = top
        /\ streams'["nav"] = streams["nav"] /\ streams'["same"] = streams["same"]
    BY <2>1, EmitStreams DEF Kinds
  <2>3. \A i \in DOMAIN streams'.req : SentBefore(streams'.req[i], place.load, place.push)
    <3>1. /\ DOMAIN streams'.req = 1..(Len(streams.req) + 1) /\ DOMAIN streams.req = 1..Len(streams.req)
          /\ Len(streams.req) \in Nat /\ streams'.req[Len(streams.req) + 1] = e
          /\ \A i \in DOMAIN streams.req : streams'.req[i] = streams.req[i]
      <4>1. streams.req \in Seq(Started \cup {e}) /\ e \in Started \cup {e}
        <5> HIDE DEF e
        <5> QED BY PlaceTyped
      <4> HIDE DEF e
      <4> QED BY <2>2, <4>1, AppendHas
    <3>2. e.load = place.load /\ e.push = place.push
      OBVIOUS
    <3> HIDE DEF e
    <3> TAKE i \in DOMAIN streams'.req
    <3>3. CASE i \in DOMAIN streams.req
      BY <3>1, <3>3 DEF PlaceOK
    <3>4. CASE i = Len(streams.req) + 1
      BY <3>1, <3>2, <3>4 DEF SentBefore
    <3> QED BY <3>1, <3>3, <3>4
  <2> QED BY <2>1, <2>2, <2>3 DEF PlaceOK, LastPage, NoPage
<1>2. ASSUME NEW r \in Requests, Respond(r) \/ Finish(r) \/ Break(r) \/ Tell(r) PROVE PlaceOK'
  <2>1. (\E kind \in Kinds \ {"req", "nav", "same"} : \E event : Emit(kind, event)) /\ place' = place
    BY <1>2 DEF Respond, Finish, Break, Tell, Kinds
  <2>2. /\ streams'["req"] = streams["req"] /\ streams'["nav"] = streams["nav"]
        /\ streams'["same"] = streams["same"] /\ top' = top
    BY <2>1, EmitStreams DEF Kinds
  <2> QED BY <2>1, <2>2, PlaceStays
<1>3. CASE Load
  <2> DEFINE p == place.page + 1
  <2>1. Emit("nav", p) /\ place' = [place EXCEPT !.page = p, !.load = p] /\ "nav" \in Kinds
    BY <1>3 DEF Load, Kinds
  <2>2. /\ streams'.nav = Append(streams.nav, p)
        /\ streams'["req"] = streams["req"] /\ streams'["same"] = streams["same"]
    BY <2>1, EmitStreams DEF Kinds
  <2>3. place'.page = p /\ place'.load = p /\ place'.push = place.push
    BY <2>1 DEF TypeOK
  <2>4. streams'.nav # <<>> /\ streams'.nav[Len(streams'.nav)] = p
    <3>1. streams.nav \in Seq(Page \cup {p}) /\ p \in Page \cup {p}
      <4> HIDE DEF p
      <4> QED BY PlaceTyped
    <3> HIDE DEF p
    <3> QED BY <2>2, <3>1, AppendHas
  <2>5. \A i \in DOMAIN streams.req : SentBefore(streams.req[i], p, place.push)
    BY SeenBefore
  <2>6. p <= p /\ place.push <= p /\ p # 0
    BY PlaceTyped DEF PlaceOK
  <2> HIDE DEF p
  <2> QED BY <2>2, <2>3, <2>4, <2>5, <2>6 DEF PlaceOK, LastPage, NoPage
<1>4. CASE Push
  <2> DEFINE p == place.page + 1
  <2>1. /\ Emit("same", p) /\ place' = [place EXCEPT !.page = p, !.push = p] /\ "same" \in Kinds
        /\ place.page < MaxPages
    BY <1>4 DEF Push, Kinds
  <2>2. /\ streams'.same = Append(streams.same, p)
        /\ streams'["req"] = streams["req"] /\ streams'["nav"] = streams["nav"]
    BY <2>1, EmitStreams DEF Kinds
  <2>3. place'.page = p /\ place'.push = p /\ place'.load = place.load
    BY <2>1 DEF TypeOK
  <2>4. p \in Page
    <3>1. place.page \in Nat /\ MaxPages \in Nat
      BY PlaceTyped, Bounds
    <3> QED BY <2>1, <3>1 DEF Page
  <2>5. LastPage(streams'.same, p) /\ ~NoPage(streams'.same)
    <3> HIDE DEF p
    <3>1. streams.same \in Seq(Page \cup {Framed}) /\ LastPage(streams.same, place.push)
      BY PlaceTyped DEF PlaceOK
    <3>2. LastPage(Append(streams.same, p), p) /\ ~NoPage(Append(streams.same, p))
      BY <2>4, <3>1, LastPageAppend
    <3> QED BY <2>2, <3>2
  <2>6. \A i \in DOMAIN streams.req : SentBefore(streams.req[i], place.load, p)
    BY SeenBefore
  <2>7. p <= p /\ place.load <= p /\ p # 0
    BY PlaceTyped DEF PlaceOK
  <2> HIDE DEF p
  <2> QED BY <2>2, <2>3, <2>5, <2>6, <2>7 DEF PlaceOK, LastPage, NoPage
<1>5. CASE FramePush
  <2>1. Emit("same", Framed) /\ place' = place /\ "same" \in Kinds
    BY <1>5 DEF FramePush, Kinds
  <2>2. /\ streams'.same = Append(streams.same, Framed) /\ top' = top
        /\ streams'["req"] = streams["req"] /\ streams'["nav"] = streams["nav"]
    BY <2>1, EmitStreams DEF Kinds
  <2>3. LastPage(streams'.same, place.push) /\ (NoPage(streams'.same) <=> NoPage(streams.same))
    <3>1. streams.same \in Seq(Page \cup {Framed}) /\ LastPage(streams.same, place.push)
      BY PlaceTyped DEF PlaceOK
    <3>2. /\ LastPage(Append(streams.same, Framed), place.push)
          /\ NoPage(Append(streams.same, Framed)) <=> NoPage(streams.same)
      BY <3>1, LastPageAppend
    <3> QED BY <2>2, <3>2
  <2> QED BY <2>1, <2>2, <2>3 DEF PlaceOK, LastPage, NoPage
<1> QED BY <1>1, <1>2, <1>3, <1>4, <1>5 DEF Browser

\* After the changes of address the loop knows the last page of either kind, if it
\* knows a page; if it still could not ask, there was no change.
LEMMA CatchUpPages ==
  ASSUME TypeOK, PlaceOK, CatchUp
  PROVE  /\ top' \in Page => AtLast(top', place.load, place.push)
         /\ top' = Unknown => place.push = 0
<1>1. PICK at : at = LastCounting(mainKnown', streams.same)
  OBVIOUS
<1>2. top' = IF at # 0 THEN streams.same[at] ELSE LastOr(streams.nav, top)
  BY <1>1 DEF CatchUp
<1>3. /\ streams.same \in Seq(Page \cup {Framed}) /\ place.load \in Nat /\ place.push \in Nat
      /\ streams.nav \in Seq(Page)
  BY PlaceTyped
<1>4. \/ at = 0 /\ \A i \in DOMAIN streams.same : streams.same[i] = Framed
      \/ /\ at # 0 /\ at \in DOMAIN streams.same
         /\ \A i \in DOMAIN streams.same : (mainKnown' => streams.same[i] # Framed) => i <= at
  <2>1. \A i \in DOMAIN streams.same : i # 0
    BY <1>3
  <2> QED BY <1>1, <1>3, <2>1, LastCountingIs
<1>5. CASE at = 0
  <2>1. NoPage(streams.same)
    BY <1>4, <1>5, FramedNoPage DEF NoPage
  <2>2. CASE streams.nav = <<>>
    BY <1>2, <1>5, <2>1, <2>2 DEF LastOr, PlaceOK
  <2>3. CASE streams.nav # <<>>
    <3>1. top' = place.load /\ place.load # 0
      BY <1>2, <1>5, <2>3 DEF LastOr, PlaceOK
    <3>2. place.load \in Page
      BY DEF TypeOK
    <3> QED BY <3>1, <3>2, FramedNoPage DEF AtLast
  <2> QED BY <2>2, <2>3
<1>6. CASE at # 0
  <2>1. \A i \in DOMAIN streams.same : streams.same[i] \in Page => i <= at
    BY <1>4, <1>6, FramedNoPage
  <2>2. top' = streams.same[at] /\ at \in DOMAIN streams.same
    BY <1>2, <1>4, <1>6
  <2>3. top' \in Page => top' = place.push /\ place.push # 0
    BY <2>1, <2>2 DEF PlaceOK, LastPage, NoPage
  <2>4. top' # Unknown
    <3>1. streams.same[at] \in Page \cup {Framed}
      BY <1>3, <2>2
    <3> QED BY <2>2, <3>1, Values DEF Address
  <2>5. top' \in Page => AtLast(top', place.load, place.push)
    BY <2>3 DEF AtLast
  <2> QED BY <2>4, <2>5
<1> QED BY <1>5, <1>6

\* The place of the tab and the page of every hop are as the events say.
LEMMA WatchPlace == TypeOK /\ PlaceOK /\ Watch => PlaceOK'
<1> SUFFICES ASSUME TypeOK, PlaceOK, Watch PROVE PlaceOK'
  OBVIOUS
<1>1. place' = place
  BY DEF Watch, OnRequest, OnNav, OnSameDoc, OnExtra, OnResponse, OnEnd
<1>2. CASE OnRequest
  <2>1. CatchUp /\ streams.req # <<>>
    BY <1>2 DEF OnRequest
  <2>2. streams'.req = Tail(streams.req) /\ streams'.nav = <<>> /\ streams'.same = <<>>
    BY <2>1, CatchUpStreams
  <2>3. \A i \in DOMAIN streams'.req : \E k \in DOMAIN streams.req : streams'.req[i] = streams.req[k]
    <3>1. streams.req \in Seq(Started)
      BY PlaceTyped
    <3> QED BY <2>1, <2>2, <3>1, TailHas
  <2>4. DOMAIN streams'.same = {}
    BY <2>2
  <2>5. /\ top' \in Page => AtLast(top', place.load, place.push)
        /\ top' = Unknown => place.push = 0
    BY <2>1, CatchUpPages
  <2> QED BY <1>1, <2>2, <2>3, <2>4, <2>5 DEF PlaceOK, LastPage, NoPage
<1>3. CASE OnNav
  <2>1. Take("nav") /\ "nav" \in Kinds /\ top' = Head(streams.nav)
    BY <1>3 DEF OnNav, Kinds
  <2>2. /\ streams.nav # <<>> /\ streams'.nav = Tail(streams.nav)
        /\ streams'["req"] = streams["req"] /\ streams'["same"] = streams["same"]
    BY <2>1, TakeStreams DEF Kinds
  <2>3. streams.nav \in Seq(Page) /\ streams.nav[Len(streams.nav)] = place.load
    BY <2>2, PlaceTyped DEF PlaceOK
  <2>4. streams'.nav # <<>> => streams'.nav[Len(streams'.nav)] = place.load
    BY <2>2, <2>3
  <2>5. streams'.nav = <<>> => top' = place.load
    <3> SUFFICES ASSUME Tail(streams.nav) = <<>> PROVE Head(streams.nav) = place.load
      BY <2>1, <2>2
    <3>1. Len(streams.nav) = 1
      <4>1. Len(Tail(streams.nav)) = Len(streams.nav) - 1 /\ Len(Tail(streams.nav)) = 0
        BY <2>2, <2>3, TailHas
      <4> QED BY <2>3, <4>1
    <3> QED BY <2>3, <3>1
  <2>6. top' = place.load => AtLast(top', place.load, place.push)
    BY <2>2 DEF PlaceOK, AtLast
  <2>7. top' # Unknown
    BY <2>1, <2>2, <2>3, FramedNoPage
  <2> QED BY <1>1, <2>2, <2>4, <2>5, <2>6, <2>7 DEF PlaceOK, LastPage, NoPage
<1>4. CASE OnSameDoc
  <2> DEFINE e == Head(streams.same)
  <2>1. Take("same") /\ "same" \in Kinds /\ top' = IF mainKnown /\ e = Framed THEN top ELSE e
    BY <1>4 DEF OnSameDoc, Kinds
  <2>2. /\ streams.same # <<>> /\ streams'.same = Tail(streams.same)
        /\ streams'["req"] = streams["req"] /\ streams'["nav"] = streams["nav"]
    BY <2>1, TakeStreams DEF Kinds
  <2>3. /\ LastPage(Tail(streams.same), place.push)
        /\ e \notin Page /\ NoPage(Tail(streams.same)) => NoPage(streams.same)
        /\ e \in Page /\ NoPage(Tail(streams.same)) => e = place.push
        /\ e \in Page \cup {Framed} /\ (e \in Page => place.push # 0)
        /\ NoPage(streams.same) => NoPage(Tail(streams.same))
    <3>1. streams.same \in Seq(Page \cup {Framed}) /\ LastPage(streams.same, place.push)
      BY PlaceTyped DEF PlaceOK
    <3>2. e = streams.same[1] /\ 1 \in DOMAIN streams.same /\ e \in Page \cup {Framed}
      BY <2>2, <3>1, TailHas
    <3>3. e \in Page => place.push # 0
      BY <3>2 DEF PlaceOK, NoPage
    <3>4. NoPage(streams.same) => NoPage(Tail(streams.same))
      BY <2>2, <3>1, TailHas DEF NoPage
    <3> QED BY <2>2, <3>1, <3>2, <3>3, <3>4, LastPageTail
  <2> HIDE DEF e
  <2>5. streams'.nav = <<>> /\ NoPage(streams'.same) =>
          /\ top' \in Page => AtLast(top', place.load, place.push)
          /\ top' = Unknown => place.push = 0
    <3>1. CASE e \in Page
      BY <2>1, <2>2, <2>3, <3>1, FramedNoPage DEF AtLast
    <3>2. CASE e \notin Page
      BY <2>1, <2>2, <2>3, <3>2, FramedNoPage, Values DEF PlaceOK, Address
    <3> QED BY <3>1, <3>2
  <2> QED BY <1>1, <2>2, <2>3, <2>5 DEF PlaceOK
<1>5. CASE OnExtra \/ OnResponse \/ \E kind \in {"done", "fail"} : OnEnd(kind)
  <2>1. PICK kind \in Kinds \ {"req", "nav", "same"} : Take(kind)
    BY <1>5 DEF OnExtra, OnResponse, OnEnd, Kinds
  <2>2. /\ streams'["req"] = streams["req"] /\ streams'["nav"] = streams["nav"]
        /\ streams'["same"] = streams["same"]
    BY <2>1, TakeStreams DEF Kinds
  <2>3. top' = top
    BY <1>5 DEF OnExtra, OnResponse, OnEnd, tabVars
  <2> QED BY <1>1, <2>2, <2>3, PlaceStays
<1> QED BY <1>2, <1>3, <1>4, <1>5 DEF Watch

\* A stored hop keeps the page it was filed under.
LEMMA StoredPage ==
  ASSUME TypeOK, NEW r \in Requests, \A i \in DOMAIN rows[r] : Filed(rows[r][i]),
         NEW p, Filed(p), NEW failed, Store(r, p, failed)
  PROVE  \A i \in DOMAIN rows'[r] : Filed(rows'[r][i])
<1>1. rows[r] \in Seq(Row) /\ rows'[r] = Inserted(r, p, failed)
  BY Typed DEF Store, TypeOK
<1> DEFINE row == [hop |-> p.hop, status |-> p.status, page |-> p.page, load |-> p.load, push |-> p.push,
                   chain |-> p.chain, failed |-> failed, extra |-> extra[r]]
<1>2. rows'[r] = Append(rows[r], row)
  BY <1>1 DEF Inserted
<1>3. Filed(row)
  BY DEF Filed
<1> HIDE DEF row
<1>4. \A i \in DOMAIN rows'[r] : rows'[r][i] = row \/ (i \in DOMAIN rows[r] /\ rows'[r][i] = rows[r][i])
  BY <1>1, <1>2
<1> QED BY <1>3, <1>4

LEMMA OnRequestPages ==
  ASSUME TypeOK, PageInv, OnRequest, NEW r \in Requests
  PROVE  FiledOK(r)'
<1> DEFINE e == Head(streams.req)
           prev == pending[e.id]
           redirected == Active(e.id) /\ e.hop > 1
<1>1. /\ streams.req \in Seq(Started) /\ streams.req # <<>> /\ CatchUp
      /\ PlaceOK /\ FiledOK(r)
  BY DEF TypeOK, OnRequest, PageInv
<1>2. e \in Started /\ e = streams.req[1] /\ 1 \in DOMAIN streams.req
  BY <1>1, TailHas
<1>3. PICK chain : pending' = [pending EXCEPT ![e.id] =
                                 IF network[e.id].kept THEN Begun(e, chain) ELSE NoPending]
  BY DEF OnRequest
<1>4. IF redirected THEN Store(e.id, [prev EXCEPT !.status = e.hop - 1], FALSE) ELSE UNCHANGED rows
  BY DEF OnRequest
<1>5. CASE r # e.id
  <2>1. pending'[r] = pending[r]
    BY <1>3, <1>5 DEF TypeOK
  <2>2. rows'[r] = rows[r]
    BY <1>4, <1>5 DEF Store, TypeOK
  <2> QED BY <1>1, <2>1, <2>2 DEF FiledOK
<1>6. CASE r = e.id
  <2>1. SentBefore(e, place.load, place.push)
    BY <1>1, <1>2 DEF PlaceOK
  <2>2. /\ top' \in Page => AtLast(top', place.load, place.push)
        /\ top' = Unknown => place.push = 0
    BY <1>1, CatchUpPages
  <2>3. e.load \in Nat /\ e.push \in Nat /\ place.load \in Nat /\ place.push \in Nat
    BY <1>2, PlaceTyped
  <2>4. top' \in Page => AtLast(top', e.load, e.push)
    BY <2>1, <2>2, <2>3, FramedNoPage DEF AtLast, SentBefore
  <2>5. Filed(Begun(e, chain))
    <3>1. /\ Begun(e, chain).load = e.load /\ Begun(e, chain).push = e.push
          /\ Begun(e, chain).page = IF top' = Unknown THEN e.load ELSE top'
      BY DEF Begun
    <3>2. top' = Unknown => AtLast(e.load, e.load, e.push)
      BY <2>1, <2>2, <2>3 DEF AtLast, SentBefore
    <3> QED BY <2>4, <3>1, <3>2 DEF Filed
  <2>6. Filed(NoPending)
    BY DEF Filed, NoPending, AtLast
  <2>7. Filed(pending'[r])
    <3>1. pending'[r] = IF network[r].kept THEN Begun(e, chain) ELSE NoPending
      BY <1>3, <1>6 DEF TypeOK
    <3> QED BY <2>5, <2>6, <3>1
  <2>8. \A i \in DOMAIN rows'[r] : Filed(rows'[r][i])
    <3>1. CASE redirected
      <4> DEFINE p == [prev EXCEPT !.status = e.hop - 1]
      <4>1. Store(r, p, FALSE)
        BY <1>4, <1>6, <3>1
      <4>2. p.page = prev.page /\ p.load = prev.load /\ p.push = prev.push
        BY <1>6, Typed DEF Pending
      <4>3. Filed(p)
        <5> HIDE DEF p
        <5> QED BY <1>1, <1>6, <4>2 DEF FiledOK, Filed
      <4> HIDE DEF p
      <4> QED BY <1>1, <4>1, <4>3, StoredPage DEF FiledOK
    <3>2. CASE ~redirected
      BY <1>1, <1>4, <3>2 DEF FiledOK
    <3> QED BY <3>1, <3>2
  <2> QED BY <2>7, <2>8 DEF FiledOK
<1> QED BY <1>5, <1>6

LEMMA OnEndPages ==
  ASSUME TypeOK, PageInv, NEW kind \in {"done", "fail"}, OnEnd(kind), NEW r \in Requests
  PROVE  FiledOK(r)'
<1> DEFINE q == Head(streams[kind])
<1>1. Take(kind) /\ kind \in Kinds /\ FiledOK(r)
  BY DEF OnEnd, Kinds, PageInv
<1>2. q \in Requests
  BY <1>1, TakeType DEF EventOf
<1>3. CASE ~Active(q)
  BY <1>1, <1>3 DEF OnEnd, FiledOK
<1>4. CASE Active(q)
  <2>1. Store(q, pending[q], kind = "fail") /\ pending' = [pending EXCEPT ![q] = NoPending]
    BY <1>4 DEF OnEnd
  <2>2. CASE r # q
    <3>1. pending'[r] = pending[r] /\ rows'[r] = rows[r]
      BY <2>1, <2>2 DEF Store, TypeOK
    <3> QED BY <1>1, <3>1 DEF FiledOK
  <2>3. CASE r = q
    <3>1. pending'[r] = NoPending /\ Filed(NoPending)
      BY <2>1, <2>3 DEF TypeOK, Filed, NoPending, AtLast
    <3>2. \A i \in DOMAIN rows'[r] : Filed(rows'[r][i])
      <4>1. PICK failed : failed = (kind = "fail")
        OBVIOUS
      <4> QED BY <1>1, <2>1, <2>3, <4>1, StoredPage DEF FiledOK
    <3> QED BY <3>1, <3>2 DEF FiledOK
  <2> QED BY <2>2, <2>3
<1> QED BY <1>3, <1>4

\* Every hop is filed under the last page of either kind before it, or a later one.
LEMMA StepPages == TypeOK /\ PageInv /\ [Next]_vars => PageInv'
<1> SUFFICES ASSUME TypeOK, PageInv, [Next]_vars PROVE PageInv'
  OBVIOUS
<1>1. PlaceOK'
  <2>1. CASE UNCHANGED vars
    BY <2>1, PlaceStays DEF vars, tabVars, PageInv
  <2> QED BY <2>1, BrowserPages, WatchPlace DEF PageInv, Next
<1>2. ASSUME NEW r \in Requests PROVE FiledOK(r)'
  <2>0. FiledOK(r)
    BY DEF PageInv
  <2>1. CASE Browser
    <3>1. pending' = pending /\ rows' = rows
      BY <2>1 DEF Browser, Request, Respond, Finish, Break, Tell, Load, Push, FramePush, Emit
    <3> QED BY <2>0, <3>1 DEF FiledOK
  <2>2. CASE OnNav \/ OnSameDoc \/ OnExtra
    BY <2>0, <2>2 DEF OnNav, OnSameDoc, OnExtra, FiledOK
  <2>3. CASE OnResponse
    <3>1. rows' = rows
      BY <2>3 DEF OnResponse
    <3>2. /\ pending'[r].page = pending[r].page /\ pending'[r].load = pending[r].load
          /\ pending'[r].push = pending[r].push
      <4>1. pending[r] \in Pending /\ pending \in [Requests -> Pending]
        BY DEF TypeOK
      <4>2. PICK h : pending' = [pending EXCEPT ![Head(streams.res).id].status = h] \/ pending' = pending
        BY <2>3 DEF OnResponse
      <4> QED BY <4>1, <4>2 DEF Pending
    <3> QED BY <2>0, <3>1, <3>2 DEF FiledOK, Filed
  <2>4. CASE UNCHANGED vars
    BY <2>0, <2>4 DEF vars, FiledOK
  <2> QED BY <2>1, <2>2, <2>3, <2>4, OnRequestPages, OnEndPages DEF Next, Watch
<1> QED BY <1>1, <1>2 DEF PageInv

-----------------------------------------------------------------------------
(* The invariant *)

\* All layers together.
IInv == TypeOK /\ Numbered /\ HopInv /\ EndsInv /\ ChainInv /\ ExtraInv /\ PageInv

LEMMA InitInv == Init => IInv
<1> SUFFICES ASSUME Init PROVE IInv
  OBVIOUS
<1>1. TypeOK
  BY InitType
<1>2. ASSUME NEW r \in Requests
      PROVE  /\ network[r].state = "new" /\ network[r].hop = None /\ network[r].told = None
             /\ pending[r] = NoPending /\ extra[r] = None /\ rows[r] = <<>>
  BY DEF Init
<1>3. \A k \in Kinds : streams[k] = <<>>
  BY DEF Init
<1>4. /\ streams.req = <<>> /\ streams.nav = <<>> /\ streams.same = <<>> /\ streams.extra = <<>>
      /\ streams.done = <<>> /\ streams.fail = <<>>
  BY <1>3 DEF Kinds
<1>5. Numbered
  BY <1>2 DEF Numbered
<1>6. ASSUME NEW r \in Requests PROVE ~Active(r) /\ NextHop(r) = 1
  BY <1>2 DEF Active, NextHop, NoPending
<1>7. HopInv
  <2> SUFFICES ASSUME NEW r \in Requests PROVE HopOK(r)
    BY DEF HopInv
  <2>1. Upcoming(<<>>, r, 1, None)
    BY DEF Upcoming, None
  <2> QED BY <1>2, <1>4, <1>6, <2>1 DEF HopOK
<1>8. EndsInv
  BY <1>4 DEF EndsInv, EndsOnce, Queued, Ends
<1>9. ChainInv
  BY <1>2, <1>6 DEF ChainInv, ChainOK
<1>10. ExtraInv
  BY <1>2, <1>4 DEF ExtraInv, ExtraOK, Later, None
<1>11. PageInv
  <2>1. PlaceOK
    BY <1>4, Values, FramedNoPage DEF PlaceOK, LastPage, NoPage, Init, AtLast
  <2>2. \A r \in Requests : FiledOK(r)
    BY <1>2 DEF FiledOK, Filed, NoPending, AtLast
  <2> QED BY <2>1, <2>2 DEF PageInv
<1> QED BY <1>1, <1>5, <1>7, <1>8, <1>9, <1>10, <1>11 DEF IInv

LEMMA StepInv == IInv /\ [Next]_vars => IInv'
<1>1. TypeOK /\ EndsInv /\ [Next]_vars => EndsInv'
  BY StepEnds DEF EndsInv
<1> QED BY <1>1, StepType, StepHops, StepChains, StepExtra, StepPages DEF IInv

\* What the layers say of the rows.
LEMMA InvShows == IInv => RowsFollowHops /\ ExtraMergedOnce
<1> SUFFICES ASSUME IInv PROVE RowsFollowHops /\ ExtraMergedOnce
  OBVIOUS
<1>1. HopsInOrder
  BY DEF IInv, HopInv, HopOK, HopsInOrder
<1>2. ChainIsLinked
  BY DEF IInv, ChainInv, ChainOK, ChainIsLinked
<1>3. ExtraMergedOnce
  BY DEF IInv, ExtraInv, ExtraOK, ExtraMergedOnce
<1>4. PageIsRecent
  BY DEF IInv, PageInv, FiledOK, Filed, PageIsRecent
<1> QED BY <1>1, <1>2, <1>3, <1>4 DEF IInv, RowsFollowHops

\* For any number of requests, hops, pages and waiting events, and whatever order
\* select! takes them in: the rows of a request are its hops in their order, once
\* each, linked to those before them, and filed under the page of the last load or
\* of the last change within the document before the hop, or a later page (watch of
\* germal-recorder/src/record.rs).
THEOREM RowsFollow == Spec => []RowsFollowHops
<1>1. IInv => RowsFollowHops
  BY InvShows
<1> QED BY InitInv, StepInv, <1>1, PTL DEF Spec

\* The additional headers of a hop are merged into one row at most: those that
\* were used are removed, and later ones are of later hops (store! of watch).
THEOREM ExtraOnce == Spec => []ExtraMergedOnce
<1>1. IInv => ExtraMergedOnce
  BY InvShows
<1> QED BY InitInv, StepInv, <1>1, PTL DEF Spec

=============================================================================
