------------------------------ MODULE Recorder ------------------------------
(***************************************************************************)
(* The recorder of Germal watches one tab of a browser: watch of           *)
(* germal-recorder/src/record.rs.                                          *)
(*                                                                         *)
(* The browser reports what its network does as events.  It sends them in  *)
(* order, but every kind of event has a stream of its own, and the loop of *)
(* watch takes the next event of any stream that has one: tokio::select!   *)
(* chooses at random.  While the loop waits for the browser to hand over a *)
(* body, events of every kind pile up.                                     *)
(*                                                                         *)
(* A request keeps its id over redirects; each of its hops is a row of the *)
(* table of requests.  Pages are numbered as the tab goes to them, by a    *)
(* load or within the document (pushState).  The model keeps which hop a   *)
(* response, the additional headers (ExtraInfo) and a row belong to, and   *)
(* leaves out what they contain; the two kinds of ExtraInfo are treated    *)
(* alike and are one stream here.  Rows are never lost by the database.    *)
(***************************************************************************)
EXTENDS Naturals, SequencesExt

CONSTANTS
  Requests,     \* ids of requests
  MaxHops,      \* bound: hops of a request
  MaxPages,     \* bound: pages the tab goes to
  MaxBacklog    \* bound: events that wait in the streams

ASSUME ConstantsAssumption == {MaxHops, MaxPages, MaxBacklog} \subseteq Nat

VARIABLES
  network,      \* the browser: how far each request is
  place,        \* the browser: the page it is on, and the last one of each kind
  streams,      \* events that were sent and not yet taken, by kind
  pending,      \* hops that have started, by request
  extra,        \* ExtraInfo by request: the hop it belongs to, or None
  top,          \* top_url
  mainKnown,    \* main_frame is known
  rows          \* the rows of each request, in the order they were inserted

tabVars == <<top, mainKnown>>
vars    == <<network, place, streams, pending, extra, tabVars, rows>>

None    == 0
Hop     == 1..MaxHops
Page    == 0..MaxPages
Framed  == MaxPages + 1   \* the address of an embedded frame
Unknown == MaxPages + 2   \* the address of the tab could not be asked for

Address == Page \cup {Framed}
Kinds   == {"req", "res", "done", "fail", "extra", "nav", "same"}

\* What a request event says: its hop, and where the tab was when it was sent.
Started == [id : Requests, hop : Hop, load : Page, push : Page]
Part    == [id : Requests, hop : Hop]
Pending == [hop : Hop \cup {None}, status : Hop \cup {None}, page : Address,
            load : Page, push : Page, chain : Seq(Hop)]
Row     == [hop : Hop, status : Hop \cup {None}, page : Address, load : Page, push : Page,
            chain : Seq(Hop), failed : BOOLEAN, extra : Hop \cup {None}]

NoPending == [hop |-> None, status |-> None, page |-> 0, load |-> 0, push |-> 0, chain |-> <<>>]

TypeOK ==
  /\ network \in [Requests -> [state : {"new", "sent", "answered", "ended"}, kept : BOOLEAN,
                               hop : Hop \cup {None}, told : Hop \cup {None}]]
  /\ place \in [page : Page, load : Page, push : Page]
  /\ DOMAIN streams = Kinds
  /\ streams.req \in Seq(Started)
  /\ streams.res \in Seq(Part) /\ streams.extra \in Seq(Part)
  /\ streams.done \in Seq(Requests) /\ streams.fail \in Seq(Requests)
  /\ streams.nav \in Seq(Page) /\ streams.same \in Seq(Page \cup {Framed})
  /\ pending \in [Requests -> Pending]
  /\ extra \in [Requests -> Hop \cup {None}]
  /\ top \in Address \cup {Unknown}
  /\ mainKnown \in BOOLEAN
  /\ rows \in [Requests -> Seq(Row)]

Init ==
  /\ network \in [Requests -> [state : {"new"}, kept : BOOLEAN, hop : {None}, told : {None}]]
  /\ place = [page |-> 0, load |-> 0, push |-> 0]
  /\ streams = [k \in Kinds |-> <<>>]
  /\ pending = [r \in Requests |-> NoPending]
  /\ extra = [r \in Requests |-> None]
  /\ top \in {0, Unknown}
  /\ mainKnown = FALSE
  /\ rows = [r \in Requests |-> <<>>]

-----------------------------------------------------------------------------
(* The browser *)

Waiting == Len(streams.req) + Len(streams.res) + Len(streams.done) + Len(streams.fail)
           + Len(streams.extra) + Len(streams.nav) + Len(streams.same)

Emit(kind, event) ==
  /\ Waiting < MaxBacklog
  /\ streams' = [streams EXCEPT ![kind] = Append(@, event)]
  /\ UNCHANGED <<pending, extra, tabVars, rows>>

\* A request starts, or goes on to its next hop: the event of a later hop
\* carries the response of the one before.
Request(r) ==
  LET h == network[r].hop + 1
  IN  /\ network[r].state \in {"new", "sent"}
      /\ network[r].hop < MaxHops
      /\ network' = [network EXCEPT ![r].state = "sent", ![r].hop = h]
      /\ Emit("req", [id |-> r, hop |-> h, load |-> place.load, push |-> place.push])
      /\ UNCHANGED place

\* The response of the last hop.
Respond(r) ==
  /\ network[r].state = "sent"
  /\ network' = [network EXCEPT ![r].state = "answered"]
  /\ Emit("res", [id |-> r, hop |-> network[r].hop])
  /\ UNCHANGED place

\* The request has been loaded, or has failed.
Finish(r) ==
  /\ network[r].state = "answered"
  /\ network' = [network EXCEPT ![r].state = "ended"]
  /\ Emit("done", r)
  /\ UNCHANGED place

Break(r) ==
  /\ network[r].state \in {"sent", "answered"}
  /\ network' = [network EXCEPT ![r].state = "ended"]
  /\ Emit("fail", r)
  /\ UNCHANGED place

\* ExtraInfo of a hop, at any time after the hop started, or never.
Tell(r) ==
  \E h \in network[r].told + 1 .. network[r].hop :
    /\ network' = [network EXCEPT ![r].told = h]
    /\ Emit("extra", [id |-> r, hop |-> h])
    /\ UNCHANGED place

Load ==
  LET p == place.page + 1
  IN  /\ place.page < MaxPages
      /\ place' = [place EXCEPT !.page = p, !.load = p]
      /\ Emit("nav", p)
      /\ UNCHANGED network

Push ==
  LET p == place.page + 1
  IN  /\ place.page < MaxPages
      /\ place' = [place EXCEPT !.page = p, !.push = p]
      /\ Emit("same", p)
      /\ UNCHANGED network

\* An embedded frame changes its address within its document.
FramePush ==
  /\ Emit("same", Framed)
  /\ UNCHANGED <<network, place>>

-----------------------------------------------------------------------------
(* The loop of watch *)

Take(kind) ==
  /\ streams[kind] # <<>>
  /\ streams' = [streams EXCEPT ![kind] = Tail(@)]

Active(r) == pending[r].hop # None

\* The last element of a sequence, or what there was before.
LastOr(seq, before) == IF seq = <<>> THEN before ELSE seq[Len(seq)]

\* Changes of address within a document count for the frame of the tab, and for
\* every frame while that one is not known: the place of the last one, 0 if none.
LastCounting(known, seq) == SelectLastInSeq(seq, LAMBDA p : known => p # Framed)

\* store!: the row of a hop; ExtraInfo that has arrived is merged and used up.
Inserted(r, p, failed) ==
  Append(rows[r],
    [hop |-> p.hop, status |-> p.status, page |-> p.page, load |-> p.load, push |-> p.push,
     chain |-> p.chain, failed |-> failed, extra |-> extra[r]])

\* Variant: ExtraInfo is read and stays.
StoreKeepingExtra(r, p, failed) ==
  /\ rows' = [rows EXCEPT ![r] = Inserted(r, p, failed)]
  /\ UNCHANGED extra

Store(r, p, failed) ==
  /\ rows' = [rows EXCEPT ![r] = Inserted(r, p, failed)]
  /\ extra' = [extra EXCEPT ![r] = None]

\* Variant: the request is handled before the changes of address.
StayOnPage ==
  /\ streams' = [streams EXCEPT !.req = Tail(@)]
  /\ UNCHANGED tabVars

\* The changes of address that have arrived come first: loads, then changes
\* within the document.
CatchUp ==
  /\ streams' = [streams EXCEPT !.req = Tail(@), !.nav = <<>>, !.same = <<>>]
  /\ mainKnown' = (mainKnown \/ streams.nav # <<>>)
  /\ top' = LET at == LastCounting(mainKnown', streams.same)
            IN  IF at # 0 THEN streams.same[at] ELSE LastOr(streams.nav, top)

\* What is kept of a hop that starts: its document stands in for an unknown
\* address of the tab.
Begun(e, chain) ==
  [hop |-> e.hop, status |-> None, page |-> IF top' = Unknown THEN e.load ELSE top',
   load |-> e.load, push |-> e.push, chain |-> chain]

\* Variant: the hop that starts is put into its own chain.
ChainedToItself(prev, e) == Append(prev.chain, e.hop)

\* The chain of a hop names the hops that led to it.
Chained(prev, e) == Append(prev.chain, prev.hop)

\* Variant: a redirect replaces the hop before it.
OnRequestReplacing ==
  /\ streams.req # <<>>
  /\ CatchUp
  /\ LET e == Head(streams.req)
         chain == IF Active(e.id) THEN Chained(pending[e.id], e) ELSE <<>>
     IN  pending' = [pending EXCEPT ![e.id] =
                       IF network[e.id].kept THEN Begun(e, chain) ELSE NoPending]
  /\ UNCHANGED <<network, place, rows, extra>>

\* A hop starts: the hop before it is stored with the response it got.  Only
\* requests of the recorded types are kept.
OnRequest ==
  /\ streams.req # <<>>
  /\ CatchUp
  /\ LET e == Head(streams.req)
         prev == pending[e.id]
         redirected == Active(e.id) /\ e.hop > 1
         chain == IF redirected THEN Chained(prev, e) ELSE <<>>
     IN  /\ IF redirected
            THEN Store(e.id, [prev EXCEPT !.status = e.hop - 1], FALSE)
            ELSE UNCHANGED <<rows, extra>>
         /\ pending' = [pending EXCEPT ![e.id] =
                          IF network[e.id].kept THEN Begun(e, chain) ELSE NoPending]
  /\ UNCHANGED <<network, place>>

OnNav ==
  /\ Take("nav")
  /\ top' = Head(streams.nav)
  /\ mainKnown' = TRUE
  /\ UNCHANGED <<network, place, pending, extra, rows>>

OnSameDoc ==
  /\ Take("same")
  /\ top' = IF mainKnown /\ Head(streams.same) = Framed THEN top ELSE Head(streams.same)
  /\ UNCHANGED <<network, place, pending, extra, mainKnown, rows>>

OnExtra ==
  /\ Take("extra")
  /\ extra' = [extra EXCEPT ![Head(streams.extra).id] = Head(streams.extra).hop]
  /\ UNCHANGED <<network, place, pending, tabVars, rows>>

OnResponse ==
  /\ Take("res")
  /\ LET e == Head(streams.res)
     IN  pending' = IF Active(e.id) THEN [pending EXCEPT ![e.id].status = e.hop] ELSE pending
  /\ UNCHANGED <<network, place, extra, tabVars, rows>>

\* Variant: only a request with a response has a row.
OnEndAnswered(kind) ==
  /\ Take(kind)
  /\ LET r == Head(streams[kind])
     IN  IF Active(r) /\ pending[r].status # None
         THEN /\ Store(r, pending[r], kind = "fail")
              /\ pending' = [pending EXCEPT ![r] = NoPending]
         ELSE UNCHANGED <<rows, extra, pending>>
  /\ UNCHANGED <<network, place, tabVars>>

\* A request has been loaded, or has failed: its last hop is stored.
OnEnd(kind) ==
  /\ Take(kind)
  /\ LET r == Head(streams[kind])
     IN  IF Active(r)
         THEN /\ Store(r, pending[r], kind = "fail")
              /\ pending' = [pending EXCEPT ![r] = NoPending]
         ELSE UNCHANGED <<rows, extra, pending>>
  /\ UNCHANGED <<network, place, tabVars>>

-----------------------------------------------------------------------------
Browser == \/ \E r \in Requests : Request(r) \/ Respond(r) \/ Finish(r) \/ Break(r) \/ Tell(r)
           \/ Load \/ Push \/ FramePush

Watch == \/ OnRequest \/ OnNav \/ OnSameDoc \/ OnExtra \/ OnResponse
         \/ \E kind \in {"done", "fail"} : OnEnd(kind)

Next == Browser \/ Watch

Spec == Init /\ [][Next]_vars

\* The loop runs, and its random choice leaves out no kind of event for ever;
\* the browser need not do anything.
FairSpec ==
  /\ Spec
  /\ WF_vars(OnRequest) /\ WF_vars(OnNav) /\ WF_vars(OnSameDoc)
  /\ WF_vars(OnExtra) /\ WF_vars(OnResponse)
  /\ \A kind \in {"done", "fail"} : WF_vars(OnEnd(kind))

-----------------------------------------------------------------------------
(* Properties *)

\* The rows of a request are its hops, in their order, each one once, and the
\* hop under way is the one after them ("the hop before is finished first",
\* redirects in watch) although ends and starts are taken in any order.
HopsInOrder ==
  \A r \in Requests :
    /\ \A i \in DOMAIN rows[r] : rows[r][i].hop = i
    /\ Active(r) => pending[r].hop = Len(rows[r]) + 1

\* A chain of redirects ends at the hop it was recorded for and misses none in
\* between ("the URLs of all hops before", Pending.chain); it goes back to the
\* first hop unless the end of the request was taken before its start.
Links(chain, hop) == \A i \in DOMAIN chain : chain[i] + Len(chain) = hop + i - 1
Queued(kind, r)   == \E i \in DOMAIN streams[kind] : streams[kind][i] = r
EndTaken(r)       == network[r].state = "ended" /\ ~Queued("done", r) /\ ~Queued("fail", r)
ChainIsLinked ==
  \A r \in Requests :
    /\ Active(r) => Links(pending[r].chain, pending[r].hop)
    /\ Active(r) /\ ~EndTaken(r) => Len(pending[r].chain) = pending[r].hop - 1
    /\ \A i \in DOMAIN rows[r] : Links(rows[r][i].chain, rows[r][i].hop)

\* The additional headers of one hop show up in one row at most.
ExtraMergedOnce ==
  \A r \in Requests : \A i, j \in DOMAIN rows[r] :
    i # j /\ rows[r][i].extra # None => rows[r][i].extra # rows[r][j].extra

\* Pages are numbered in the order the tab goes to them; 0 says that there was no
\* load, or no change within the document.
AtLast(page, load, push) == \/ page >= load /\ page >= push
                            \/ page # 0 /\ page \in {load, push}

\* A request that is filed under a page of the tab is filed under the one that
\* the last load before it led to, the one that the last change within the
\* document before it led to, or a page the tab went to later.  Loads and changes
\* come from two channels, so that of the two only the order within each is known.
PageIsRecent ==
  \A r \in Requests : \A i \in DOMAIN rows[r] :
    LET row == rows[r][i]
    IN  row.page \in Page => AtLast(row.page, row.load, row.push)

\* "Else a fetch right after pushState is filed under the page before" (watch):
\* no page at all that was left before the request.  Not so when the tab both
\* loaded and changed within the document shortly before it.
PageNotLeft ==
  \A r \in Requests : \A i \in DOMAIN rows[r] :
    LET row == rows[r][i]
    IN  row.page \in Page => row.page >= row.load /\ row.page >= row.push

\* Whatever order select! takes the events of the browser in, the rows of a
\* request follow its hops: in order and once each, linked without a gap to the
\* hops before, and under the page of the last load or of the last change within
\* the document before the request, or a later page (watch).
RowsFollowHops == TypeOK /\ HopsInOrder /\ ChainIsLinked /\ PageIsRecent

\* A hop that is under way when the end of its request is still to be taken
\* gets its row.
LastHopStored ==
  \A r \in Requests :
    Active(r) /\ pending[r].hop = network[r].hop /\ (Queued("done", r) \/ Queued("fail", r))
    ~> Len(rows[r]) = network[r].hop

\* "NULL = the transfer failed" (the column status of requests).
NullMeansFailed ==
  \A r \in Requests : \A i \in DOMAIN rows[r] : rows[r][i].status = None => rows[r][i].failed

=============================================================================
