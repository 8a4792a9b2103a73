-------------------------- MODULE ClientListProof --------------------------
(***************************************************************************)
(* Proofs about ClientList, for every heap, id range, timeout and layout.  *)
(*                                                                         *)
(* The list is described without walking it: born numbers the sessions in  *)
(* the order they were opened, and every link leads to the newest session  *)
(* older than its owner.  Around that, the inductive invariant says where  *)
(* each loop's cursors stand and what the loop has established so far.     *)
(***************************************************************************)
EXTENDS ClientList, TLAPS

USE PointerAssumption, ValueAssumption

\* Sessions are numbered apart, below served.
Numbered ==
    /\ \A c \in allocated : born[c] < served
    /\ \A c, d \in allocated : born[c] = born[d] => c = d

\* A cursor stands on a live session, or on bytes that are no address.
OnList(p) == p \in allocated \/ (p = WILD /\ Overrun)

\* timeout_check_client: last_client is the predecessor of client whenever
\* the cursor has left the head of the list.
SweepCursor ==
    pc = "sweep" =>
        /\ OnList(client)
        /\ \/ client = list_client
           \/ last_client \in allocated /\ next_client[last_client] = client

\* Every session the sweep has passed was due when it was passed, after the
\* sweep began.
SweepProgress ==
    /\ sweep_at <= now
    /\ pc = "sweep" /\ client \in allocated =>
          \A d \in allocated : born[d] > born[client] => timeout[d] >= sweep_at

\* No session the lookup has passed carries the id it wants.
LookupProgress ==
    /\ pc = "lookup" => OnList(client) \/ (client = NULL /\ allocated = {})
    /\ pc = "lookup" /\ client \in allocated =>
          \A d \in allocated : born[d] > born[client] => xid[d] # want

\* Where idclient stands relative to a session opened less than XID_MOD
\* sessions ago.
IdWindow ==
    \A c \in allocated :
        LET k == served - born[c]
        IN  k < XID_MOD =>
                idclient = IF xid[c] + k < XID_MOD THEN xid[c] + k
                           ELSE xid[c] + k - XID_MOD

IInv ==
    /\ TypeOK
    /\ Numbered
    /\ ListOrder
    /\ SweepCursor
    /\ SweepProgress
    /\ SweepComplete
    /\ LookupProgress
    /\ FirstClientStays
    /\ IdWindow
    /\ SameIdFarApart
    /\ NoStaleUse

-----------------------------------------------------------------------------
(* Type correctness.                                                       *)

LEMMA TypeInit == Init => TypeOK
BY DEF Init, TypeOK, Pointer

\* Every action of the list keeps every variable within its type.
LEMMA TypeStep == TypeOK /\ [Next]_vars => TypeOK'
<1> SUFFICES ASSUME TypeOK, [Next]_vars PROVE TypeOK'
    OBVIOUS
<1> USE DEF TypeOK, Pointer, In, heap, locals, history
<1>1. ASSUME NEW c \in Cell, NEW k \in Keys, Register(c, k) PROVE TypeOK'
    BY <1>1 DEF Register, KeysRead, NextId, FrontLink
<1>2. CASE OutOfMemory
    BY <1>2 DEF OutOfMemory
<1>3. ASSUME NEW id \in WireId, BeginLookup(id) PROVE TypeOK'
    BY <1>3 DEF BeginLookup
<1>4. CASE LookupHit
    BY <1>4 DEF LookupHit
<1>5. CASE LookupAdvance
    BY <1>5 DEF LookupAdvance
<1>6. CASE LookupMiss \/ RejectMatched \/ SweepEnd
    BY <1>6 DEF LookupMiss, RejectMatched, SweepEnd, Return
<1>7. CASE BeginSweep
    BY <1>7 DEF BeginSweep
<1>8. CASE SweepKeep
    BY <1>8 DEF SweepKeep, InBody
<1>9. CASE SweepDropHead
    BY <1>9 DEF SweepDropHead, InBody, Free
<1>10. CASE SweepDropInner
    BY <1>10 DEF SweepDropInner, InBody, Free
<1>11. CASE BadCursor
    BY <1>11 DEF BadCursor, FaultAt
<1>12. CASE Tick
    BY <1>12 DEF Tick
<1>13. CASE UNCHANGED vars
    BY <1>13 DEF vars
<1>14. QED
    BY <1>1, <1>2, <1>3, <1>4, <1>5, <1>6, <1>7, <1>8, <1>9, <1>10, <1>11,
       <1>12, <1>13 DEF Next, SweepStep

\* Type correctness of the list, whatever malloc, the clock and the packets
\* do.
THEOREM TypeCorrect == Spec => []TypeOK
BY TypeInit, TypeStep, PTL DEF Spec

-----------------------------------------------------------------------------
(* The invariant.                                                          *)

LEMMA InvInit == Init => IInv
BY TypeInit DEF Init, IInv, Numbered, ListOrder, LinksTo, SweepCursor,
    SweepProgress, SweepComplete, LookupProgress, FirstClientStays, IdWindow,
    SameIdFarApart, NoStaleUse, TypeOK

\* What a step that leaves the heap alone leaves true of it.
LEMMA HeapUntouched ==
    ASSUME IInv, UNCHANGED <<heap, list_client, idclient, served>>
    PROVE  Numbered' /\ ListOrder' /\ FirstClientStays' /\ IdWindow' /\ SameIdFarApart'
BY DEF IInv, heap, Numbered, ListOrder, LinksTo, FirstClientStays, IdWindow,
       SameIdFarApart

\* A link that leads to a live session leads to the newest older one.
LEMMA LinkTarget ==
    ASSUME IInv, NEW c \in allocated, next_client[c] \in allocated
    PROVE  /\ born[next_client[c]] < born[c]
           /\ \A d \in allocated : born[d] < born[c] => born[d] <= born[next_client[c]]
BY DEF IInv, ListOrder, LinksTo, TypeOK

\* What a cursor finds behind a link that is not NULL.
LEMMA LinkOnList ==
    ASSUME IInv, NEW c \in allocated, next_client[c] # NULL
    PROVE  OnList(next_client[c])
BY DEF IInv, ListOrder, LinksTo, OnList, TypeOK

LEMMA RegisterInv ==
    ASSUME IInv, NEW c \in Cell, NEW k \in Keys, Register(c, k)
    PROVE  Numbered' /\ ListOrder' /\ SweepCursor' /\ SweepProgress' /\ SweepComplete'
           /\ LookupProgress' /\ FirstClientStays' /\ IdWindow' /\ SameIdFarApart'
           /\ NoStaleUse'
<1> USE DEF Register, KeysRead, NextId, FrontLink, IInv, In
<1>1. Numbered'
    BY DEF Numbered, TypeOK
<1>2. ListOrder'
    BY DEF Numbered, ListOrder, LinksTo, TypeOK
<1>3. SweepCursor' /\ LookupProgress'
    BY DEF SweepCursor, LookupProgress
<1>4. SweepProgress'
    BY DEF SweepProgress
<1>5. SweepComplete'
    BY DEF SweepComplete, SweepProgress, TypeOK
<1>6. FirstClientStays'
    <2>1. SUFFICES ASSUME ~Overrun
                   PROVE  \E d \in allocated' : born'[d] = 0 /\ next_client'[d] = NULL
        BY DEF FirstClientStays
    <2>2. CASE served = 0
        BY <2>1, <2>2 DEF ListOrder, LinksTo, TypeOK
    <2>3. CASE served > 0
        BY <2>1, <2>3 DEF FirstClientStays, TypeOK
    <2>4. QED
        BY <2>2, <2>3 DEF TypeOK
<1>7. IdWindow'
    <2>1. SUFFICES ASSUME NEW d \in allocated', served' - born'[d] < XID_MOD
                   PROVE  idclient' = IF xid'[d] + (served' - born'[d]) < XID_MOD
                                      THEN xid'[d] + (served' - born'[d])
                                      ELSE xid'[d] + (served' - born'[d]) - XID_MOD
        BY DEF IdWindow
    <2>2. CASE d = c
        BY <2>1, <2>2 DEF TypeOK
    <2>3. CASE d # c
        BY <2>1, <2>3 DEF TypeOK, IdWindow, Numbered
    <2>4. QED
        BY <2>2, <2>3
<1>8. SameIdFarApart'
    <2>1. SUFFICES ASSUME NEW a \in allocated', NEW b \in allocated',
                          xid'[a] = xid'[b], born'[a] < born'[b]
                   PROVE  born'[b] - born'[a] >= XID_MOD
        BY DEF SameIdFarApart
    <2>2. CASE a = c
        BY <2>1, <2>2 DEF TypeOK, Numbered
    <2>3. CASE a # c /\ b = c
        BY <2>1, <2>3 DEF TypeOK, Numbered, IdWindow
    <2>4. CASE a # c /\ b # c
        BY <2>1, <2>4 DEF TypeOK, SameIdFarApart
    <2>5. QED
        BY <2>2, <2>3, <2>4
<1>9. NoStaleUse'
    BY DEF NoStaleUse
<1>10. QED
    BY <1>1, <1>2, <1>3, <1>4, <1>5, <1>6, <1>7, <1>8, <1>9

LEMMA SweepKeepInv ==
    ASSUME IInv, SweepKeep
    PROVE  SweepCursor' /\ SweepProgress' /\ SweepComplete' /\ LookupProgress' /\ NoStaleUse'
<1> USE DEF SweepKeep, InBody, In, heap, history
<1>1. OnList(next_client[client])
    BY LinkOnList
<1>2. SweepCursor'
    BY <1>1 DEF SweepCursor, OnList
<1>3. SweepProgress'
    <2>1. SUFFICES ASSUME next_client[client] \in allocated, NEW d \in allocated,
                          born[d] > born[next_client[client]]
                   PROVE  timeout[d] >= sweep_at
        BY DEF SweepProgress, IInv
    <2>2. CASE d = client
        BY <2>2 DEF Overdue, IInv, SweepProgress, TypeOK
    <2>3. CASE d # client
        <3>1. born[d] > born[client]
            BY <2>1, <2>3, LinkTarget DEF IInv, Numbered, TypeOK
        <3>2. QED
            BY <3>1 DEF IInv, SweepProgress
    <2>4. QED
        BY <2>2, <2>3
<1>4. SweepComplete' /\ LookupProgress' /\ NoStaleUse'
    BY DEF IInv, SweepComplete, LookupProgress, NoStaleUse
<1>5. QED
    BY <1>2, <1>3, <1>4

\* Removing a session from the list leaves the others numbered apart, their
\* ids in the window and the first client in place.
LEMMA RemovalInv ==
    ASSUME IInv, InBody, Free(client), UNCHANGED <<idclient, served>>,
           next_client' = next_client
               \/ \E l \in allocated :
                     /\ next_client[l] = client
                     /\ next_client' = [next_client EXCEPT ![l] = next_client[client]]
    PROVE  Numbered' /\ FirstClientStays' /\ IdWindow' /\ SameIdFarApart'
<1> USE DEF IInv, InBody, Free, In
<1>1. Numbered'
    BY DEF Numbered
<1>2. FirstClientStays'
    <2>1. SUFFICES ASSUME ~Overrun, served > 0
                   PROVE  \E d \in allocated' : born'[d] = 0 /\ next_client'[d] = NULL
        BY DEF FirstClientStays
    <2>2. PICK d \in allocated : born[d] = 0 /\ next_client[d] = NULL
        BY <2>1 DEF FirstClientStays
    <2>3. d # client /\ next_client'[d] = NULL
        BY <2>2 DEF TypeOK
    <2>4. QED
        BY <2>2, <2>3
<1>3. IdWindow'
    BY DEF IdWindow
<1>4. SameIdFarApart'
    BY DEF SameIdFarApart
<1>5. QED
    BY <1>1, <1>2, <1>3, <1>4

LEMMA SweepDropHeadInv ==
    ASSUME IInv, SweepDropHead
    PROVE  Numbered' /\ ListOrder' /\ SweepCursor' /\ SweepProgress' /\ SweepComplete'
           /\ LookupProgress' /\ FirstClientStays' /\ IdWindow' /\ SameIdFarApart'
           /\ NoStaleUse'
<1> USE DEF SweepDropHead, InBody, In, history
<1>1. Numbered' /\ FirstClientStays' /\ IdWindow' /\ SameIdFarApart'
    BY RemovalInv
<1>2. OnList(next_client[client])
    BY LinkOnList
<1>3. \A d \in allocated : born[d] <= born[client]
    BY DEF IInv, ListOrder, LinksTo, Numbered, TypeOK
<1>4. ListOrder'
    <2>1. LinksTo(list_client, served)'
        <3>1. CASE next_client[client] = WILD
            BY <1>2, <3>1 DEF OnList, LinksTo, IInv, TypeOK
        <3>2. CASE next_client[client] \in allocated
            BY <1>3, <3>2, LinkTarget DEF LinksTo, IInv, Numbered, TypeOK, Free
        <3>3. QED
            BY <1>2, <3>1, <3>2 DEF OnList
    <2>2. ASSUME NEW c \in allocated'
          PROVE  LinksTo(next_client[c], born[c])'
        <3>1. next_client[c] # client
            BY <1>3, <2>2, LinkTarget DEF Free, IInv, TypeOK
        <3>2. QED
            BY <3>1, <2>2 DEF IInv, ListOrder, LinksTo, Free
    <2>3. QED
        BY <2>1, <2>2 DEF ListOrder
<1>5. SweepCursor'
    BY <1>2, LinkTarget DEF SweepCursor, OnList, Free, IInv, TypeOK
<1>6. SweepProgress'
    <2>1. SUFFICES ASSUME next_client[client] \in allocated, NEW d \in allocated',
                          born[d] > born[next_client[client]]
                   PROVE  FALSE
        BY DEF SweepProgress, IInv, Free
    <2>2. QED
        BY <1>3, <2>1, LinkTarget DEF IInv, Numbered, Free, TypeOK
<1>7. SweepComplete' /\ LookupProgress' /\ NoStaleUse'
    BY DEF IInv, SweepComplete, LookupProgress, NoStaleUse
<1>8. QED
    BY <1>1, <1>4, <1>5, <1>6, <1>7

LEMMA SweepDropInnerInv ==
    ASSUME IInv, SweepDropInner
    PROVE  Numbered' /\ ListOrder' /\ SweepCursor' /\ SweepProgress' /\ SweepComplete'
           /\ LookupProgress' /\ FirstClientStays' /\ IdWindow' /\ SameIdFarApart'
           /\ NoStaleUse'
<1> USE DEF SweepDropInner, InBody, In, history
<1>1. next_client[last_client] = client /\ last_client \in allocated
    BY DEF IInv, SweepCursor
<1>2. Numbered' /\ FirstClientStays' /\ IdWindow' /\ SameIdFarApart'
    BY <1>1, RemovalInv
<1>3. OnList(next_client[client])
    BY LinkOnList
<1>4. /\ born[client] < born[last_client]
      /\ \A d \in allocated : born[d] < born[last_client] => born[d] <= born[client]
    BY <1>1, LinkTarget
<1>5. ListOrder'
    <2>1. list_client # client /\ LinksTo(list_client, served)'
        BY DEF IInv, ListOrder, LinksTo, Free
    <2>2. ASSUME NEW c \in allocated', c # last_client
          PROVE  LinksTo(next_client[c], born[c])'
        <3>1. next_client[c] # client
            <4>1. SUFFICES ASSUME next_client[c] = client PROVE FALSE
                OBVIOUS
            <4>2. /\ born[client] < born[c]
                  /\ \A d \in allocated : born[d] < born[c] => born[d] <= born[client]
                BY <2>2, <4>1, LinkTarget DEF Free
            <4>3. born[c] = born[last_client]
                BY <1>1, <1>4, <2>2, <4>2 DEF IInv, TypeOK, Free
            <4>4. QED
                BY <1>1, <2>2, <4>3 DEF IInv, Numbered, Free
        <3>2. next_client'[c] = next_client[c]
            BY <2>2 DEF IInv, TypeOK, Free
        <3>3. QED
            BY <2>2, <3>1, <3>2 DEF IInv, ListOrder, LinksTo, Free
    <2>3. LinksTo(next_client[last_client], born[last_client])'
        <3>1. next_client'[last_client] = next_client[client]
            BY <1>1 DEF IInv, TypeOK
        <3>2. CASE next_client[client] = WILD
            BY <1>3, <3>1, <3>2 DEF OnList, LinksTo, IInv, TypeOK
        <3>3. CASE next_client[client] \in allocated
            BY <1>1, <1>4, <3>1, <3>3, LinkTarget DEF LinksTo, IInv, Numbered, TypeOK, Free
        <3>4. QED
            BY <1>3, <3>2, <3>3 DEF OnList
    <2>4. QED
        BY <2>1, <2>2, <2>3 DEF ListOrder
<1>6. client' = next_client[client] /\ next_client'[last_client] = client'
    BY <1>1 DEF IInv, TypeOK
<1>7. SweepCursor'
    BY <1>1, <1>3, <1>4, <1>6, LinkTarget DEF SweepCursor, OnList, Free, IInv, TypeOK
<1>8. SweepProgress'
    <2>1. SUFFICES ASSUME next_client[client] \in allocated, NEW d \in allocated',
                          born[d] > born[next_client[client]]
                   PROVE  timeout[d] >= sweep_at
        BY <1>6 DEF SweepProgress, IInv, Free
    <2>2. born[d] > born[client]
        BY <2>1, LinkTarget DEF IInv, Numbered, Free, TypeOK
    <2>3. QED
        BY <2>1, <2>2 DEF IInv, SweepProgress, Free
<1>9. SweepComplete' /\ LookupProgress' /\ NoStaleUse'
    BY DEF IInv, SweepComplete, LookupProgress, NoStaleUse
<1>10. QED
    BY <1>2, <1>5, <1>7, <1>8, <1>9

\* The end of a sweep: nothing is older than the session the cursor is on,
\* and everything newer was due when it was passed.
LEMMA SweepEndInv ==
    ASSUME IInv, SweepEnd
    PROVE  SweepComplete'
<1> USE DEF SweepEnd, In, heap, history
<1>1. SUFFICES ASSUME ~Overrun, NEW d \in allocated, next_client[d] # NULL
               PROVE  timeout[d] >= sweep_at
    BY DEF SweepComplete
<1>2. \A e \in allocated : born[e] >= born[client]
    BY DEF IInv, ListOrder, LinksTo, TypeOK
<1>3. born[d] > born[client]
    BY <1>1, <1>2 DEF IInv, Numbered, TypeOK
<1>4. QED
    BY <1>1, <1>3 DEF IInv, SweepProgress

LEMMA LookupAdvanceInv ==
    ASSUME IInv, LookupAdvance
    PROVE  LookupProgress'
<1> USE DEF LookupAdvance, In, heap
<1>1. OnList(next_client[client])
    BY LinkOnList
<1>2. ASSUME next_client[client] \in allocated, NEW d \in allocated,
             born[d] > born[next_client[client]]
      PROVE  xid[d] # want
    BY <1>2, LinkTarget DEF IInv, LookupProgress, Numbered, TypeOK
<1>3. QED
    BY <1>1, <1>2 DEF LookupProgress, OnList

\* A cursor that is not on a live session is on an overwritten link, or the
\* lookup was handed an empty list.
LEMMA BadCursorInv ==
    ASSUME IInv, BadCursor
    PROVE  NoStaleUse'
<1> USE DEF BadCursor, In, IInv
<1>1. UsedPointer = client
    BY DEF UsedPointer, InBody, SweepCursor
<1>2. (client = WILD /\ Overrun) \/ client = NULL
    BY <1>1 DEF SweepCursor, LookupProgress, OnList
<1>3. fault' = IF client = NULL THEN "nolist" ELSE "wild"
    BY <1>1, <1>2 DEF FaultAt
<1>4. QED
    BY <1>2, <1>3 DEF NoStaleUse

\* Every action of the list preserves the invariant.
LEMMA InvStep == IInv /\ [Next]_vars => IInv'
<1> SUFFICES ASSUME IInv, [Next]_vars PROVE IInv'
    OBVIOUS
<1>0. TypeOK'
    BY TypeStep DEF IInv
<1> USE DEF heap, locals, history
<1>1. ASSUME NEW c \in Cell, NEW k \in Keys, Register(c, k) PROVE IInv'
    BY <1>0, <1>1, RegisterInv DEF IInv
<1>2. CASE OutOfMemory
    <2>1. Numbered' /\ ListOrder' /\ FirstClientStays' /\ IdWindow' /\ SameIdFarApart'
        BY <1>2, HeapUntouched DEF OutOfMemory
    <2>2. SweepCursor' /\ SweepProgress' /\ SweepComplete' /\ LookupProgress' /\ NoStaleUse'
        BY <1>2 DEF OutOfMemory, IInv, SweepCursor, OnList, SweepProgress, SweepComplete,
               LookupProgress, NoStaleUse, In
    <2>3. QED
        BY <1>0, <2>1, <2>2 DEF IInv
<1>3. ASSUME NEW id \in WireId, BeginLookup(id) PROVE IInv'
    <2>1. Numbered' /\ ListOrder' /\ FirstClientStays' /\ IdWindow' /\ SameIdFarApart'
        BY <1>3, HeapUntouched DEF BeginLookup
    <2>2. SweepCursor' /\ SweepProgress' /\ SweepComplete' /\ NoStaleUse'
        BY <1>3 DEF BeginLookup, IInv, SweepCursor, SweepProgress, SweepComplete, NoStaleUse, In
    <2>3. LookupProgress'
        BY <1>3 DEF BeginLookup, IInv, ListOrder, LinksTo, Numbered, LookupProgress, OnList,
               TypeOK
    <2>4. QED
        BY <1>0, <2>1, <2>2, <2>3 DEF IInv
<1>4. CASE LookupHit \/ LookupMiss \/ RejectMatched
    <2>1. Numbered' /\ ListOrder' /\ FirstClientStays' /\ IdWindow' /\ SameIdFarApart'
        BY <1>4, HeapUntouched DEF LookupHit, LookupMiss, RejectMatched
    <2>2. SweepCursor' /\ SweepProgress' /\ SweepComplete' /\ LookupProgress' /\ NoStaleUse'
        BY <1>4 DEF LookupHit, LookupMiss, RejectMatched, Return, In, IInv, SweepCursor,
               SweepProgress, SweepComplete, LookupProgress, NoStaleUse
    <2>3. QED
        BY <1>0, <2>1, <2>2 DEF IInv
<1>5. CASE LookupAdvance
    <2>1. Numbered' /\ ListOrder' /\ FirstClientStays' /\ IdWindow' /\ SameIdFarApart'
        BY <1>5, HeapUntouched DEF LookupAdvance
    <2>2. SweepCursor' /\ SweepProgress' /\ SweepComplete' /\ NoStaleUse'
        BY <1>5 DEF LookupAdvance, In, IInv, SweepCursor, SweepProgress, SweepComplete,
               NoStaleUse
    <2>3. QED
        BY <1>0, <1>5, <2>1, <2>2, LookupAdvanceInv DEF IInv
<1>6. CASE BeginSweep
    <2>1. Numbered' /\ ListOrder' /\ FirstClientStays' /\ IdWindow' /\ SameIdFarApart'
        BY <1>6, HeapUntouched DEF BeginSweep
    <2>2. SweepCursor' /\ LookupProgress' /\ NoStaleUse'
        BY <1>6 DEF BeginSweep, In, IInv, ListOrder, LinksTo, SweepCursor, OnList,
               LookupProgress, NoStaleUse
    <2>3. SweepProgress' /\ SweepComplete'
        BY <1>6 DEF BeginSweep, In, IInv, ListOrder, LinksTo, Numbered, SweepProgress,
               SweepComplete, TypeOK
    <2>4. QED
        BY <1>0, <2>1, <2>2, <2>3 DEF IInv
<1>7. CASE SweepKeep
    <2>1. Numbered' /\ ListOrder' /\ FirstClientStays' /\ IdWindow' /\ SameIdFarApart'
        BY <1>7, HeapUntouched DEF SweepKeep
    <2>2. QED
        BY <1>0, <1>7, <2>1, SweepKeepInv DEF IInv
<1>8. CASE SweepDropHead
    BY <1>0, <1>8, SweepDropHeadInv DEF IInv
<1>9. CASE SweepDropInner
    BY <1>0, <1>9, SweepDropInnerInv DEF IInv
<1>10. CASE SweepEnd
    <2>1. Numbered' /\ ListOrder' /\ FirstClientStays' /\ IdWindow' /\ SameIdFarApart'
        BY <1>10, HeapUntouched DEF SweepEnd
    <2>2. SweepCursor' /\ SweepProgress' /\ LookupProgress' /\ NoStaleUse'
        BY <1>10 DEF SweepEnd, Return, In, IInv, SweepCursor, SweepProgress, LookupProgress,
               NoStaleUse
    <2>3. QED
        BY <1>0, <1>10, <2>1, <2>2, SweepEndInv DEF IInv
<1>11. CASE BadCursor
    <2>1. Numbered' /\ ListOrder' /\ FirstClientStays' /\ IdWindow' /\ SameIdFarApart'
        BY <1>11, HeapUntouched DEF BadCursor
    <2>2. SweepCursor' /\ SweepProgress' /\ SweepComplete' /\ LookupProgress'
        BY <1>11 DEF BadCursor, IInv, SweepCursor, OnList, SweepProgress, SweepComplete,
               LookupProgress
    <2>3. QED
        BY <1>0, <1>11, <2>1, <2>2, BadCursorInv DEF IInv
<1>12. CASE Tick
    <2>1. Numbered' /\ ListOrder' /\ FirstClientStays' /\ IdWindow' /\ SameIdFarApart'
        BY <1>12, HeapUntouched DEF Tick
    <2>2. SweepCursor' /\ SweepProgress' /\ SweepComplete' /\ LookupProgress' /\ NoStaleUse'
        BY <1>12 DEF Tick, IInv, SweepCursor, OnList, SweepProgress, SweepComplete,
               LookupProgress, NoStaleUse, TypeOK
    <2>3. QED
        BY <1>0, <2>1, <2>2 DEF IInv
<1>13. CASE UNCHANGED vars
    <2>1. Numbered' /\ ListOrder' /\ FirstClientStays' /\ IdWindow' /\ SameIdFarApart'
        BY <1>13, HeapUntouched DEF vars
    <2>2. SweepCursor' /\ SweepProgress' /\ SweepComplete' /\ LookupProgress' /\ NoStaleUse'
        BY <1>13 DEF vars, IInv, SweepCursor, OnList, SweepProgress, SweepComplete,
               LookupProgress, NoStaleUse
    <2>3. QED
        BY <1>0, <2>1, <2>2 DEF IInv
<1>14. QED
    BY <1>1, <1>2, <1>3, <1>4, <1>5, <1>6, <1>7, <1>8, <1>9, <1>10, <1>11,
       <1>12, <1>13 DEF Next, SweepStep

\* The invariant holds in every state of every behaviour of the list.
THEOREM Invariance == Spec => []IInv
BY InvInit, InvStep, PTL DEF Spec

\* No loop goes through a freed session or an unassigned cursor, at any
\* length of the list and whatever the clock does while it is walked.
THEOREM NoStaleUseHolds == Spec => []NoStaleUse
<1>1. IInv => NoStaleUse
    BY DEF IInv
<1>2. QED
    BY <1>1, Invariance, PTL

\* The links always thread every live session, newest first, to NULL.
THEOREM ListOrderHolds == Spec => []ListOrder
<1>1. IInv => ListOrder
    BY DEF IInv
<1>2. QED
    BY <1>1, Invariance, PTL

\* A finished sweep leaves no session that was overdue when it began, but for
\* the last of the list.
THEOREM SweepCompleteHolds == Spec => []SweepComplete
<1>1. IInv => SweepComplete
    BY DEF IInv
<1>2. QED
    BY <1>1, Invariance, PTL

\* However long the daemon runs, its first client is never removed.
THEOREM FirstClientStaysHolds == Spec => []FirstClientStays
<1>1. IInv => FirstClientStays
    BY DEF IInv
<1>2. QED
    BY <1>1, Invariance, PTL

\* Ids collide only across a whole turn of idclient.
THEOREM SameIdFarApartHolds == Spec => []SameIdFarApart
<1>1. IInv => SameIdFarApart
    BY DEF IInv
<1>2. QED
    BY <1>1, Invariance, PTL

-----------------------------------------------------------------------------
(* The lookup.                                                             *)

LEMMA LookupKeeps ==
    ASSUME IInv, [Next]_vars, pc = "lookup"
    PROVE  LookupHit \/ LookupMiss \/ pc' = "lookup"
BY DEF Next, SweepStep, Register, KeysRead, OutOfMemory, BeginLookup, LookupAdvance, RejectMatched,
       BeginSweep, SweepKeep, SweepDropHead, SweepDropInner, SweepEnd, InBody, BadCursor,
       Tick, In, vars

\* A lookup that returns has found the newest session with the id, or no
\* session has it.
THEOREM LookupExactHolds == Spec => LookupExact
<1> DEFINE Ends ==
        /\ pc = "lookup" /\ pc' = "matched" =>
              /\ client' \in allocated /\ xid[client'] = want
              /\ \A d \in allocated : xid[d] = want => born[d] <= born[client']
        /\ pc = "lookup" /\ pc' = "idle" => \A d \in allocated : xid[d] # want
<1>1. ASSUME IInv, [Next]_vars PROVE Ends
    <2>1. CASE LookupHit
        BY <1>1, <2>1 DEF LookupHit, locals, IInv, LookupProgress, TypeOK
    <2>2. CASE LookupMiss
        <3>1. \A d \in allocated : born[d] >= born[client]
            BY <1>1, <2>2 DEF LookupMiss, IInv, ListOrder, LinksTo, TypeOK
        <3>2. \A d \in allocated : xid[d] # want
            BY <1>1, <2>2, <3>1 DEF LookupMiss, In, IInv, LookupProgress, Numbered, TypeOK
        <3>3. QED
            BY <2>2, <3>2 DEF LookupMiss, Return
    <2>3. CASE pc' = "lookup" \/ pc # "lookup"
        BY <2>3
    <2>4. QED
        BY <1>1, <2>1, <2>2, <2>3, LookupKeeps
<1>2. IInv /\ [Next]_vars => [Ends]_vars
    BY <1>1
<1>3. QED
    BY <1>2, Invariance, PTL DEF Spec, LookupExact

-----------------------------------------------------------------------------
(* The cursors.                                                            *)

\* Behind a link that is not NULL stands an older session, or bytes that are
\* no address.
LEMMA LinkDescends ==
    ASSUME IInv, NEW c \in allocated, next_client[c] # NULL
    PROVE  \/ Overrun /\ next_client[c] = WILD
           \/ next_client[c] \in allocated \ {c} /\ born[next_client[c]] < born[c]
BY LinkOnList, LinkTarget DEF OnList, IInv, TypeOK

\* Whatever a loop does that is not its end, the clock's or a bad pointer's,
\* moves its cursor along a link of the list as it was.
LEMMA TurnFollowsLink ==
    ASSUME IInv, Next, pc = "lookup" \/ pc = "sweep", UNCHANGED <<pc, now, fault>>
    PROVE  /\ client \in allocated /\ next_client[client] # NULL
           /\ client' = next_client[client]
           /\ allocated' \in {allocated, allocated \ {client}} /\ born' = born
<1> USE DEF In, heap
<1>1. CASE LookupAdvance
    BY <1>1 DEF LookupAdvance
<1>2. CASE SweepKeep
    BY <1>2 DEF SweepKeep, InBody
<1>3. CASE SweepDropHead
    BY <1>3 DEF SweepDropHead, InBody, Free
<1>4. CASE SweepDropInner
    BY <1>4 DEF SweepDropInner, InBody, Free, IInv, TypeOK
<1>5. CASE BadCursor
    BY <1>5 DEF BadCursor, FaultAt
<1>6. CASE Tick
    BY <1>6 DEF Tick, IInv, TypeOK
<1>7. CASE \/ \E c \in Cell, k \in Keys : Register(c, k)
           \/ OutOfMemory
           \/ \E id \in WireId : BeginLookup(id)
           \/ LookupHit \/ LookupMiss \/ RejectMatched \/ BeginSweep \/ SweepEnd
    BY <1>7 DEF Register, OutOfMemory, BeginLookup, LookupHit, LookupMiss, RejectMatched,
        BeginSweep, SweepEnd, Return
<1>8. QED
    BY <1>1, <1>2, <1>3, <1>4, <1>5, <1>6, <1>7 DEF Next, SweepStep

\* Both loops walk from newer to older sessions, whatever they free on the
\* way: neither can go round.
THEOREM CursorDescendsHolds == Spec => CursorDescends
<1> DEFINE Turn == (pc = "lookup" \/ pc = "sweep") /\ UNCHANGED <<pc, now, fault>>
                       => \/ Overrun /\ client' = WILD
                          \/ client' \in allocated' /\ born[client'] < born[client]
<1>1. IInv /\ [Next]_vars => [Turn]_vars
    BY TurnFollowsLink, LinkDescends
<1>2. QED
    BY <1>1, Invariance, PTL DEF Spec, CursorDescends

-----------------------------------------------------------------------------
(* The read of client->xid before the test for NULL.                       *)

\* A lookup that starts on an empty list is the only one without a session
\* under its cursor, and the first client is in the list for good.
LEMMA ServedCursor ==
    ASSUME IInv, ~Overrun, served > 0, In("lookup") \/ In("sweep")
    PROVE  UsedPointer \in allocated
<1>1. allocated # {}
    BY DEF IInv, FirstClientStays
<1>2. client \in allocated
    BY <1>1 DEF IInv, LookupProgress, SweepCursor, OnList, In
<1>3. QED
    BY <1>2 DEF UsedPointer, InBody, In, IInv, SweepCursor

LEMMA ServedStep == IInv /\ ServedSafely /\ [Next]_vars => ServedSafely'
<1> SUFFICES ASSUME IInv, ServedSafely, [Next]_vars, ~Overrun, served' > 0
             PROVE  fault' \in {"none", "nomem", "keys"}
    BY DEF ServedSafely
<1> USE DEF In, heap, history
<1>1. ASSUME NEW c \in Cell, NEW k \in Keys, Register(c, k)
      PROVE  fault' \in {"none", "keys"}
    BY <1>1 DEF Register, KeysRead
<1>2. CASE BadCursor
    BY <1>2, ServedCursor DEF BadCursor
<1>3. CASE OutOfMemory
    BY <1>3 DEF OutOfMemory
<1>4. ASSUME NEW id \in WireId, BeginLookup(id) PROVE fault' = "none"
    BY <1>4 DEF BeginLookup
<1>5. CASE \/ LookupHit \/ LookupAdvance \/ LookupMiss \/ RejectMatched \/ BeginSweep
           \/ SweepStep \/ Tick \/ UNCHANGED vars
    BY <1>5 DEF LookupHit, LookupAdvance, LookupMiss, RejectMatched, BeginSweep, SweepStep,
        SweepKeep, SweepDropHead, SweepDropInner, SweepEnd, Tick, vars, ServedSafely
<1>6. QED
    BY <1>1, <1>2, <1>3, <1>4, <1>5 DEF Next

\* From the first session on the missing test for NULL is never felt, however
\* many sessions time out and whatever ids arrive.
THEOREM ServedSafelyHolds == Spec => []ServedSafely
<1>1. Init => ServedSafely
    BY DEF Init, ServedSafely
<1>2. QED
    BY <1>1, ServedStep, Invariance, PTL DEF Spec

\* The first client stays, and no lookup finds the list empty after it.
THEOREM NeverEmptyAgainHolds == Spec => []NeverEmptyAgain
BY FirstClientStaysHolds, ServedSafelyHolds, PTL DEF NeverEmptyAgain

-----------------------------------------------------------------------------
(* The list implements the abstract table.                                 *)

Sessions == {[serial |-> born[c], xid |-> xid[c], deadline |-> timeout[c]] : c \in allocated}

LEMMA TableStutter ==
    ASSUME UNCHANGED <<heap, served, now>>
    PROVE  UNCHANGED Table!tvars
BY DEF heap, Table!tvars

LEMMA RegisterAdmits ==
    ASSUME IInv, NEW c \in Cell, NEW k \in Keys, Register(c, k)
    PROVE  Table!Admit
<1> USE DEF Register, IInv, In
<1>1. Sessions' = Sessions \cup
          {[serial |-> served, xid |-> idclient, deadline |-> now + LOGIN_TIMEOUT]}
    BY DEF Sessions, TypeOK
<1>2. Table!MayReuse(idclient)
    BY DEF Table!MayReuse, IdWindow, Numbered, TypeOK
<1>3. QED
    BY <1>1, <1>2 DEF Table!Admit, Sessions, TypeOK

LEMMA DropEvicts ==
    ASSUME IInv, SweepDropHead \/ SweepDropInner
    PROVE  Table!Evict
<1> DEFINE s == [serial |-> born[client], xid |-> xid[client], deadline |-> timeout[client]]
<1>1. /\ client \in allocated /\ timeout[client] < now
      /\ Free(client) /\ UNCHANGED <<served, now>>
    BY DEF SweepDropHead, SweepDropInner, InBody, Overdue, history
<1>2. Sessions' = Sessions \ {s}
    BY <1>1 DEF IInv, Numbered, Free, Sessions
<1>3. s \in Sessions /\ s.deadline < now
    BY <1>1 DEF Sessions
<1>4. QED
    BY <1>1, <1>2, <1>3 DEF Table!Evict, Sessions

\* Every step of the list is a step of the table or leaves it alone.
LEMMA TableStep == IInv /\ [Next]_vars => [Table!TableNext]_(Table!tvars)
<1> SUFFICES ASSUME IInv, [Next]_vars
             PROVE  Table!TableNext \/ UNCHANGED Table!tvars
    OBVIOUS
<1>1. ASSUME NEW c \in Cell, NEW k \in Keys, Register(c, k) PROVE Table!TableNext
    BY <1>1, RegisterAdmits DEF Table!TableNext
<1>2. CASE SweepDropHead \/ SweepDropInner
    BY <1>2, DropEvicts DEF Table!TableNext
<1>3. CASE Tick
    BY <1>3 DEF Tick, Table!TableNext, Table!TableTick, heap, history
<1>4. ASSUME NEW id \in WireId, BeginLookup(id) PROVE UNCHANGED Table!tvars
    BY <1>4, TableStutter DEF BeginLookup, history
<1>5. CASE \/ OutOfMemory \/ LookupHit \/ LookupAdvance \/ LookupMiss \/ RejectMatched
           \/ BeginSweep \/ SweepKeep \/ SweepEnd \/ BadCursor \/ UNCHANGED vars
    BY <1>5, TableStutter DEF OutOfMemory, LookupHit, LookupAdvance, LookupMiss,
        RejectMatched, BeginSweep, SweepKeep, SweepEnd, BadCursor, vars, history
<1>6. QED
    BY <1>1, <1>2, <1>3, <1>4, <1>5 DEF Next, SweepStep

LEMMA TableStart == Init => Table!TableInit
BY DEF Init, Table!TableInit

\* The pointer list implements the table of sessions: it opens sessions only
\* as the table may, and drops none before its deadline.
THEOREM ListImplementsTable == Spec => ImplementsTable
BY TableStart, TableStep, Invariance, PTL DEF Spec, ImplementsTable, Table!TableSpec
=============================================================================
