---------------------------- MODULE ClientTable ----------------------------
(***************************************************************************)
(* What the server's table of login sessions promises to the rest of the   *)
(* daemon, without cells, links or cursors.  A session is opened when a    *)
(* first packet arrives, carries an 8-bit id and a deadline, and may leave *)
(* the table only after its deadline.  ClientList implements this.         *)
(***************************************************************************)
EXTENDS Integers

CONSTANTS
    LOGIN_TIMEOUT,  \* seconds a session is given to complete its login
    XID_MOD,        \* number of distinct session ids (256: an unsigned char)
    MaxClients,     \* bound: sessions opened in one behaviour
    MaxTime         \* bound: seconds elapsed in one behaviour

VARIABLES
    sessions,       \* the open sessions
    issued,         \* number of sessions opened so far
    clock           \* wall clock, in seconds

tvars == <<sessions, issued, clock>>

Session == [serial : Nat, xid : 0..XID_MOD-1, deadline : Nat]

\* An id is handed out again only when XID_MOD sessions were opened since.
MayReuse(x) == \A s \in sessions : s.xid = x => issued - s.serial >= XID_MOD

TableInit ==
    /\ sessions = {}
    /\ issued = 0
    /\ clock = 0

\* new_client: the session starts now and is due LOGIN_TIMEOUT seconds later.
Admit ==
    /\ issued < MaxClients
    /\ \E x \in 0..XID_MOD-1 :
          /\ MayReuse(x)
          /\ sessions' = sessions \cup
                {[serial |-> issued, xid |-> x, deadline |-> clock + LOGIN_TIMEOUT]}
    /\ issued' = issued + 1
    /\ UNCHANGED clock

\* timeout_check_client: only a session that is overdue may be dropped.
Evict ==
    /\ \E s \in sessions : /\ s.deadline < clock
                           /\ sessions' = sessions \ {s}
    /\ UNCHANGED <<issued, clock>>

TableTick ==
    /\ clock < MaxTime
    /\ clock' = clock + 1
    /\ UNCHANGED <<sessions, issued>>

TableNext == Admit \/ Evict \/ TableTick

TableSpec == TableInit /\ [][TableNext]_tvars
=============================================================================
