----------------------------- MODULE PagedServer -----------------------------
(***************************************************************************)
(* The packet pipeline with the allocator (WithAllocator,                  *)
(* WithRSAllocator): PacketManager composed with Allocator.                *)
(*                                                                         *)
(* recvPacket takes a page for the packet it waits for under the order id  *)
(* the packet will get; the handler of a read takes a second one for the   *)
(* data; the controller releases both when it has sent the reply; Serve    *)
(* frees the allocator when it returns, while the controller may go on.    *)
(***************************************************************************)
EXTENDS PacketManager

VARIABLES
  available, used, made,  \* the allocator
  recvPage,    \* the page recvPacket reads into, 0 for none
  toRelease,   \* the packet sent whose pages the controller releases next, or 0
  pagesOf      \* history: the pages each packet's content and reply data are in

bufferVars == <<available, used, made, recvPage, toRelease, pagesOf>>
pagedVars == <<vars, bufferVars>>

Alloc == INSTANCE Allocator WITH OrderIDs <- 0..(OrderWrap - 1)

PagedTypeOK ==
  /\ TypeOK /\ Alloc!PagesTypeOK
  /\ recvPage \in 0..made /\ toRelease \in 0..Len(arrived)
  /\ pagesOf \in [Packets -> SUBSET (1..made)]

PagedInit ==
  /\ Init /\ Alloc!InitPages
  /\ recvPage = 0 /\ toRelease = 0
  /\ pagesOf = [n \in Packets |-> {}]

-----------------------------------------------------------------------------
(* Serve.                                                                  *)

\* Mutant: the page is taken under the id of the packet before.
AwaitPacketEarly ==
  /\ svPc = "reading" /\ recvPage = 0
  /\ Alloc!GetPage(OrderID(Len(arrived)))
  /\ recvPage' = Alloc!NextPage
  /\ UNCHANGED <<vars, toRelease, pagesOf>>

\* recvPacket(getNextOrderID()) takes its page before it reads.
AwaitPacket ==
  /\ svPc = "reading" /\ recvPage = 0
  /\ Alloc!GetPage(OrderID(Len(arrived) + 1))
  /\ recvPage' = Alloc!NextPage
  /\ UNCHANGED <<vars, toRelease, pagesOf>>

RecvIntoPage(kind) ==
  /\ recvPage # 0 /\ RecvPacket(kind)
  /\ pagesOf' = [pagesOf EXCEPT ![Len(arrived) + 1] = {recvPage}]
  /\ recvPage' = 0
  /\ UNCHANGED <<available, used, made, toRelease>>

\* The page of the packet that did not come is not released.
StopWithPage == recvPage # 0 /\ StopReading /\ UNCHANGED bufferVars

\* The deferred Free of Serve.
ServeReturnsAndFrees ==
  /\ ServeReturns /\ Alloc!Free
  /\ UNCHANGED <<recvPage, toRelease, pagesOf>>

-----------------------------------------------------------------------------
(* The workers and the controller.                                         *)

\* getDataSlice, called once by the handler of a read whose handle is open.
GetDataSlice(w) ==
  /\ wkPc[w] = "serving" /\ arrived[wkPkt[w]] = "rw"
  /\ Cardinality(pagesOf[wkPkt[w]]) = 1
  /\ Alloc!GetPage(OrderID(wkPkt[w]))
  /\ pagesOf' = [pagesOf EXCEPT ![wkPkt[w]] = @ \cup {Alloc!NextPage}]
  /\ UNCHANGED <<vars, recvPage, toRelease>>

SendFromPage(out, in) ==
  /\ toRelease = 0 /\ SendReply(out, in)
  /\ toRelease' = in
  /\ UNCHANGED <<available, used, made, recvPage, pagesOf>>

\* Mutant: nothing is released.
ForgetPages ==
  /\ toRelease # 0 /\ toRelease' = 0
  /\ UNCHANGED <<vars, available, used, made, recvPage, pagesOf>>

\* ReleasePages(in.orderID()), after sendPacket.
ReleaseSent ==
  /\ toRelease # 0
  /\ Alloc!ReleasePages(OrderID(toRelease))
  /\ toRelease' = 0
  /\ UNCHANGED <<vars, recvPage, pagesOf>>

NothingToSendFromPages == toRelease = 0 /\ NothingToSend /\ UNCHANGED bufferVars

\* The steps that do not touch a page.
OtherStep ==
  \/ PushPacket \/ Dispatcher \/ Ended
  \/ \E w \in Workers : Worker(w)
  \/ ControllerTakesRequest \/ ControllerTakesResponse \/ ControllerStops

PagedNext ==
  \/ AwaitPacket \/ (\E kind \in Kinds : RecvIntoPage(kind))
  \/ StopWithPage \/ ServeReturnsAndFrees
  \/ \E w \in RWWorkers : GetDataSlice(w)
  \/ \E out \in outgoing, in \in incoming : SendFromPage(out, in)
  \/ ReleaseSent \/ NothingToSendFromPages
  \/ OtherStep /\ UNCHANGED bufferVars

PagedSpec == PagedInit /\ [][PagedNext]_pagedVars

-----------------------------------------------------------------------------
(* Properties.                                                             *)

Unsent == (1..Len(arrived)) \ Items(sent)

Elsewhere(n) ==
  Items(available) \cup (UNION {pagesOf[m] : m \in Unsent \ {n}})
    \cup (IF svPc = "reading" THEN {recvPage} ELSE {})

\* Until the reply to a packet has been sent nobody else writes into the pages
\* that hold the packet and the reply's data, although pages are reused.
PagesKeptUntilSent == \A n \in Unsent : pagesOf[n] \cap Elsewhere(n) = {}

\* Between two rounds of the controller the pages in use are those of the
\* packets not answered yet and the one recvPacket waits with: none is lost.
NoPageLost ==
  toRelease = 0 /\ svPc # "returned" =>
    UNION {Items(used[id]) : id \in DOMAIN used} =
      (UNION {pagesOf[n] : n \in Unsent}) \cup ({recvPage} \ {0})

\* When Serve has returned the allocator holds no page, and what the controller
\* releases later does not bring any back.
NothingHeldAfterServe ==
  svPc = "returned" => available = <<>> /\ \A id \in DOMAIN used : used[id] = <<>>
=============================================================================
