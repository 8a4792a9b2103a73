----------------------------- MODULE ClientList -----------------------------
(***************************************************************************)
(* The server's table of login sessions as the code keeps it: a singly     *)
(* linked list of malloc'ed client_t structures hanging from               *)
(* server->list_client.  reply_to_client pushes a new session on the front *)
(* (svdhcpd.c, protocol.c) or walks the list for a packet's id;            *)
(* timeout_check_client (timeout.c) walks it with two cursors and frees    *)
(* overdue sessions while the clock goes on.                               *)
(*                                                                         *)
(* One step of a loop of the code is one action, because time(NULL) is     *)
(* read anew in every iteration.  A pointer is a cell, NULL, WILD (bytes   *)
(* that are not an address) or UNINIT (a local that was never assigned);   *)
(* using anything but an allocated cell is recorded in fault, and nothing  *)
(* happens after that.                                                     *)
(***************************************************************************)
EXTENDS WirePacket

CONSTANTS
    Cell,           \* addresses malloc can return for a client_t
    NULL,
    WILD,
    UNINIT,
    LOGIN_TIMEOUT,  \* seconds a session is given (2 in svdhcp.h)
    WireId,         \* ids a received packet can be read to carry
    MacRoom,        \* bytes from macaddress to next_client in a client_t
    MaxClients,     \* bound: sessions opened in one behaviour
    MaxTime         \* bound: seconds elapsed in one behaviour

\* strcpy of "ff:ff:ff:ff:ff:ff" and its terminator into macaddress[ETH_ALEN].
MAC_BYTES == 18

\* The copy reaches next_client.  The x86-64 layout has MacRoom = 12.
Overrun == MacRoom < MAC_BYTES

ASSUME PointerAssumption ==
    /\ {NULL, WILD, UNINIT} \cap Cell = {}
    /\ NULL # WILD /\ NULL # UNINIT /\ WILD # UNINIT

ASSUME ValueAssumption ==
    /\ LOGIN_TIMEOUT \in Nat
    /\ XID_MOD \in Nat \ {0}
    /\ WireId \subseteq Int
    /\ MacRoom \in Nat
    /\ MaxClients \in Nat
    /\ MaxTime \in Nat

VARIABLES
    allocated,      \* cells that are malloc'ed and not freed
    next_client,    \* client->next_client of each cell
    xid,            \* client->xid
    timeout,        \* client->timeout
    list_client,    \* server->list_client
    idclient,       \* static idclient of new_client
    now,            \* time(NULL)
    pc,             \* the loop the list is in, if any; keys: packet_get's
    client,         \* the cursor of that loop
    last_client,    \* second cursor of timeout_check_client
    want,           \* id being looked up
    fault,          \* first invalid use of a pointer, keys: inside packet_get
    born,           \* history: how many sessions were opened before this one
    served,         \* history: sessions opened so far
    sweep_at        \* history: when the last sweep began

heap    == <<allocated, next_client, xid, timeout, born>>
locals  == <<client, last_client, want>>
history == <<served, sweep_at>>
vars    == <<heap, list_client, idclient, now, pc, locals, fault, history>>

Pointer == Cell \cup {NULL, WILD}

TypeOK ==
    /\ allocated \subseteq Cell
    /\ next_client \in [Cell -> Pointer]
    /\ xid \in [Cell -> 0..XID_MOD-1]
    /\ timeout \in [Cell -> Nat]
    /\ list_client \in Pointer
    /\ idclient \in 0..XID_MOD-1
    /\ now \in Nat
    /\ pc \in {"idle", "lookup", "matched", "sweep", "keys"}
    /\ client \in Pointer
    /\ last_client \in Cell \cup {UNINIT}
    /\ want \in Int
    /\ fault \in {"none", "nomem", "nolist", "wild", "freed", "uninit", "keys"}
    /\ born \in [Cell -> Nat]
    /\ served \in Nat
    /\ sweep_at \in Nat

Init ==
    /\ allocated = {}
    /\ next_client = [c \in Cell |-> NULL]
    /\ xid = [c \in Cell |-> 0]
    /\ timeout = [c \in Cell |-> 0]
    /\ list_client = NULL
    /\ idclient = 0
    /\ now = 0
    /\ pc = "idle"
    /\ client = NULL /\ last_client = UNINIT /\ want = 0
    /\ fault = "none"
    /\ born = [c \in Cell |-> 0]
    /\ served = 0 /\ sweep_at = 0

\* What reading through pointer p runs into.
FaultAt(p) ==
    CASE p \in allocated -> "none"
      [] p = NULL        -> "nolist"
      [] p = WILD        -> "wild"
      [] p = UNINIT      -> "uninit"
      [] OTHER           -> "freed"

In(loop) == fault = "none" /\ pc = loop

\* The function that ran the loop returns; its locals are gone.
Return ==
    /\ pc' = "idle"
    /\ client' = NULL /\ last_client' = UNINIT /\ want' = 0

-----------------------------------------------------------------------------
(* A first packet: reply_to_client pushes a cell, new_client fills it.     *)
(* A definition marked "Slip" is a likely mistake in the one after it: the *)
(* properties are checked to notice it, and nothing else uses it.          *)

\* Slip: idclient declared wider than a byte.
NextIdWide == idclient + 1

\* Slip: idclient not declared static.
NextIdFresh == 0

\* idclient++ on an unsigned char.
NextId == IF idclient = XID_MOD - 1 THEN 0 ELSE idclient + 1

\* Slip: the new session is not linked to the rest.
FrontLinkLost == NULL

\* Slip turned round: a copy into macaddress that stays inside it.
FrontLinkKept == list_client

\* What next_client of a new session holds once new_client has filled it.
FrontLink == IF Overrun THEN WILD ELSE list_client

\* The calls of packet_get at the end of new_client, on a packet whose keys
\* are k: they return, they never do, or they use memory that is not theirs.
KeysRead(k) ==
    \/ k # "endless" /\ UNCHANGED <<pc, fault>>
    \/ k # "sound"   /\ pc' = "keys" /\ UNCHANGED fault
    \/ k = "wild"    /\ fault' = "keys" /\ UNCHANGED pc

Register(c, k) ==
    /\ In("idle")
    /\ served < MaxClients
    /\ c \in Cell \ allocated
    /\ allocated' = allocated \cup {c}
    /\ next_client' = [next_client EXCEPT ![c] = FrontLink]
    /\ list_client' = c
    /\ xid' = [xid EXCEPT ![c] = idclient]
    /\ idclient' = NextId
    /\ timeout' = [timeout EXCEPT ![c] = now + LOGIN_TIMEOUT]
    /\ born' = [born EXCEPT ![c] = served]
    /\ served' = served + 1
    /\ KeysRead(k)
    /\ UNCHANGED <<now, locals, sweep_at>>

\* malloc returns NULL and its result is used before new_client tests it.
OutOfMemory ==
    /\ In("idle")
    /\ fault' = "nomem"
    /\ UNCHANGED <<heap, list_client, idclient, now, pc, locals, history>>

-----------------------------------------------------------------------------
(* Any other packet: reply_to_client looks its id up from the front.       *)

BeginLookup(id) ==
    /\ In("idle")
    /\ pc' = "lookup"
    /\ client' = list_client
    /\ want' = id
    /\ UNCHANGED <<heap, list_client, idclient, now, last_client, fault, history>>

LookupHit ==
    /\ In("lookup") /\ client \in allocated
    /\ xid[client] = want
    /\ pc' = "matched"
    /\ UNCHANGED <<heap, list_client, idclient, now, locals, fault, history>>

LookupAdvance ==
    /\ In("lookup") /\ client \in allocated
    /\ xid[client] # want
    /\ next_client[client] # NULL
    /\ client' = next_client[client]
    /\ UNCHANGED <<heap, list_client, idclient, now, pc, last_client, want, fault, history>>

\* Slip: the end of the list is tested before the id.
LookupMissEarly ==
    /\ In("lookup") /\ client \in allocated
    /\ next_client[client] = NULL
    /\ Return
    /\ UNCHANGED <<heap, list_client, idclient, now, fault, history>>

LookupMiss ==
    /\ In("lookup") /\ client \in allocated
    /\ xid[client] # want
    /\ next_client[client] = NULL
    /\ Return
    /\ UNCHANGED <<heap, list_client, idclient, now, fault, history>>

\* expected_packet is never assigned: whatever it holds, the packet ends in
\* the test against it or in the default case, and both return.
RejectMatched ==
    /\ In("matched")
    /\ Return
    /\ UNCHANGED <<heap, list_client, idclient, now, fault, history>>

-----------------------------------------------------------------------------
(* timeout_check_client.                                                   *)

\* Slip: the head of the list taken for a dummy.
BeginSweepSecond ==
    /\ In("idle")
    /\ sweep_at' = now
    /\ client' = IF list_client \in allocated THEN next_client[list_client] ELSE NULL
    /\ pc' = IF client' = NULL THEN "idle" ELSE "sweep"
    /\ UNCHANGED <<heap, list_client, idclient, now, last_client, want, fault, served>>

BeginSweep ==
    /\ In("idle")
    /\ sweep_at' = now
    /\ client' = list_client
    /\ pc' = IF list_client = NULL THEN "idle" ELSE "sweep"
    /\ UNCHANGED <<heap, list_client, idclient, now, last_client, want, fault, served>>

\* Slip: the loop runs to the end of the list.
InBodyWhole == In("sweep") /\ client \in allocated

\* The loop body runs only while the cursor has a successor.
InBody == In("sweep") /\ client \in allocated /\ next_client[client] # NULL

\* Slip: a deadline that is still to be missed.
OverdueEarly(c) == timeout[c] <= now

\* Slip: a second of grace.
OverdueLate(c) == timeout[c] + 1 < now

\* client->timeout < time(NULL)
Overdue(c) == timeout[c] < now

\* Slip: last_client is not moved along.
SweepKeepForgets ==
    /\ InBody
    /\ ~Overdue(client)
    /\ client' = next_client[client]
    /\ UNCHANGED <<heap, list_client, idclient, now, pc, last_client, want, fault, history>>

SweepKeep ==
    /\ InBody
    /\ ~Overdue(client)
    /\ last_client' = client
    /\ client' = next_client[client]
    /\ UNCHANGED <<heap, list_client, idclient, now, pc, want, fault, history>>

Free(c) == allocated' = allocated \ {c} /\ UNCHANGED <<xid, timeout, born>>

SweepDropHead ==
    /\ InBody
    /\ Overdue(client)
    /\ list_client = client
    /\ list_client' = next_client[client]
    /\ Free(client)
    /\ client' = list_client'
    /\ UNCHANGED <<next_client, idclient, now, pc, last_client, want, fault, history>>

\* Slip: the walk started again from the head after an unlinking.
SweepDropInnerAgain ==
    /\ InBody
    /\ Overdue(client)
    /\ list_client # client
    /\ last_client \in allocated
    /\ next_client' = [next_client EXCEPT ![last_client] = next_client[client]]
    /\ Free(client)
    /\ client' = list_client
    /\ UNCHANGED <<list_client, idclient, now, pc, last_client, want, fault, history>>

SweepDropInner ==
    /\ InBody
    /\ Overdue(client)
    /\ list_client # client
    /\ last_client \in allocated
    /\ next_client' = [next_client EXCEPT ![last_client] = next_client[client]]
    /\ Free(client)
    /\ client' = next_client'[last_client]
    /\ UNCHANGED <<list_client, idclient, now, pc, last_client, want, fault, history>>

SweepEnd ==
    /\ In("sweep") /\ client \in allocated
    /\ next_client[client] = NULL
    /\ Return
    /\ UNCHANGED <<heap, list_client, idclient, now, fault, history>>

SweepStep == SweepKeep \/ SweepDropHead \/ SweepDropInner \/ SweepEnd

-----------------------------------------------------------------------------
\* The pointer the next step of the running loop goes through: last_client
\* when a session in the middle of the list is unlinked, else the cursor.
UsedPointer ==
    IF InBody /\ Overdue(client) /\ list_client # client THEN last_client ELSE client

BadCursor ==
    /\ In("lookup") \/ In("sweep")
    /\ UsedPointer \notin allocated
    /\ fault' = FaultAt(UsedPointer)
    /\ UNCHANGED <<heap, list_client, idclient, now, pc, locals, history>>

Tick ==
    /\ now < MaxTime
    /\ now' = now + 1
    /\ UNCHANGED <<heap, list_client, idclient, pc, locals, fault, history>>

Next ==
    \/ \E c \in Cell, k \in Keys : Register(c, k)
    \/ OutOfMemory
    \/ \E id \in WireId : BeginLookup(id)
    \/ LookupHit
    \/ LookupAdvance
    \/ LookupMiss
    \/ RejectMatched
    \/ BeginSweep
    \/ SweepStep
    \/ BadCursor
    \/ Tick

Spec == Init /\ [][Next]_vars

-----------------------------------------------------------------------------
(* Properties.                                                             *)

\* The loops of reply_to_client and timeout_check_client never go through a
\* freed session or through a local that was never assigned, and never meet
\* a wild pointer unless the copy into macaddress reaches next_client.
NoStaleUse ==
    /\ fault \notin {"freed", "uninit"}
    /\ fault = "wild" => Overrun

\* p is what a link must hold when the sessions opened before number b hang
\* from it: the newest of them, or NULL when there is none.
LinksTo(p, b) ==
    \/ p = WILD /\ Overrun
    \/ p = NULL /\ \A d \in allocated : born[d] >= b
    \/ /\ p \in allocated /\ born[p] < b
       /\ \A d \in allocated : born[d] < b => born[d] <= born[p]

\* The list holds every live session once, newest first, and ends in NULL:
\* pushing and unlinking neither lose a session nor close a cycle.
ListOrder ==
    /\ LinksTo(list_client, served)
    /\ \A c \in allocated : LinksTo(next_client[c], born[c])

\* Outside a sweep every session that was already overdue when the last sweep
\* began is gone, the one at the end of the list excepted.
SweepComplete ==
    ~Overrun /\ pc # "sweep" =>
        \A c \in allocated : next_client[c] # NULL => timeout[c] >= sweep_at

\* The test on next_client keeps the last session out of every sweep: the
\* first client the server ever saw stays in its table for good.
FirstClientStays ==
    ~Overrun /\ served > 0 => \E c \in allocated : born[c] = 0 /\ next_client[c] = NULL

\* Every turn of a lookup or of a sweep goes on to an older session, although
\* the sweep frees the one it is on and the clock moves: no session is visited
\* twice, and a loop ends after at most as many turns as there are sessions.
CursorDescends ==
    [][(pc = "lookup" \/ pc = "sweep") /\ UNCHANGED <<pc, now, fault>>
           => \/ Overrun /\ client' = WILD
              \/ client' \in allocated' /\ born[client'] < born[client]]_vars

\* svdhcpd.c:167 reads client->xid before it tests for NULL.  Once a session was
\* opened that does no harm, whatever ids are looked up and however many
\* sessions have timed out: no lookup finds the list empty again.
ServedSafely == ~Overrun /\ served > 0 => fault \in {"none", "nomem", "keys"}

\* The list is never empty again once it had a session, neither for the sweep
\* that empties it nor for the lookup that goes through NULL then.
NeverEmptyAgain == FirstClientStays /\ ServedSafely

\* Two live sessions share an id only if idclient wrapped around between them.
SameIdFarApart ==
    \A c, d \in allocated :
        xid[c] = xid[d] /\ born[c] < born[d] => born[d] - born[c] >= XID_MOD

\* The lookup of reply_to_client ends on the newest session that carries the
\* id, and gives up only if no session does.
LookupExact ==
    [][/\ pc = "lookup" /\ pc' = "matched" =>
             /\ client' \in allocated /\ xid[client'] = want
             /\ \A d \in allocated : xid[d] = want => born[d] <= born[client']
       /\ pc = "lookup" /\ pc' = "idle" => \A d \in allocated : xid[d] # want]_vars

\* The list implements the abstract table.
Table == INSTANCE ClientTable WITH
    sessions <- {[serial |-> born[c], xid |-> xid[c], deadline |-> timeout[c]] : c \in allocated},
    issued   <- served,
    clock    <- now

ImplementsTable == Table!TableSpec
=============================================================================
