---------------------------- MODULE HandleTable ----------------------------
(***************************************************************************)
(* The chat server's handle table, program2/handle.c and handle.h.         *)
(*                                                                         *)
(* A handle arrives as bytes at an address: add_entry compares the string  *)
(* that starts there with the stored names (strcmp, up to a NUL wherever   *)
(* one turns up) and then copies new_handle_size bytes into uninitialised  *)
(* memory, whose string is again what precedes the first NUL.  The two     *)
(* strings agree only when the copied bytes hold the terminator, so an     *)
(* operation takes both of them.                                           *)
(***************************************************************************)
EXTENDS Integers, Sequences

CONSTANTS
    Strings,      \* what handle bytes can read as
    Sockets,      \* socket numbers handed to add_entry (never 0: fd 0 is stdin)
    Readings,     \* the pairs <<compared, stored>> callers pass
    NULL,         \* get_handle's answer for an unknown socket
    Modulus,      \* 2^16: entry_count and table_size are uint16_t
    MaxEntries    \* bound: no entry is added beyond this many

ASSUME HandleTableAssumption ==
    /\ Sockets \subseteq Nat \ {0}
    /\ Readings \subseteq Strings \X Strings
    /\ NULL \notin Strings
    /\ Modulus \in Nat /\ Modulus > 2
    /\ MaxEntries \in Nat

VARIABLES
    handle_table_entries,
    table_size,
    overrun       \* an entry was written outside the allocation: undefined after

vars == <<handle_table_entries, table_size, overrun>>

\* entry_count is Len: it is incremented with every entry, and EntriesInBounds
\* keeps it below Modulus, so the uint16_t never wraps.
entry_count == Len(handle_table_entries)

Entry == [socket_number : Sockets, handle_name : Strings]

create_table == /\ handle_table_entries = << >>
                /\ table_size = 2
                /\ overrun = FALSE

-----------------------------------------------------------------------------
WithName(h) == {i \in DOMAIN handle_table_entries :
                    handle_table_entries[i].handle_name = h}
WithSocket(s) == {i \in DOMAIN handle_table_entries :
                      handle_table_entries[i].socket_number = s}

\* Both lookups scan from index 0 and return at the first hit.
First(S) == CHOOSE i \in S : \A j \in S : i <= j

\* Faults of the scans: the comparison inverted, the first element skipped, and
\* the scan not stopped at its hit.
get_socket_inverted(h) ==
    LET others == (DOMAIN handle_table_entries) \ WithName(h) IN
    IF others = {} THEN 0 ELSE handle_table_entries[First(others)].socket_number

get_socket_fromOne(h) ==
    LET hits == WithName(h) \ {1} IN
    IF hits = {} THEN 0 ELSE handle_table_entries[First(hits)].socket_number

Last(S) == CHOOSE i \in S : \A j \in S : i >= j

get_socket_last(h) == IF WithName(h) = {} THEN 0
                      ELSE handle_table_entries[Last(WithName(h))].socket_number

get_handle_last(s) == IF WithSocket(s) = {} THEN NULL
                      ELSE handle_table_entries[Last(WithSocket(s))].handle_name

get_socket(h) == IF WithName(h) = {} THEN 0
                 ELSE handle_table_entries[First(WithName(h))].socket_number

get_handle(s) == IF WithSocket(s) = {} THEN NULL
                 ELSE handle_table_entries[First(WithSocket(s))].handle_name

-----------------------------------------------------------------------------
\* Fault: the array grows one entry too late.
SizeForNext_late == IF entry_count > table_size
                    THEN (table_size * 2 + 1) % Modulus
                    ELSE table_size

SizeForNext == IF entry_count >= table_size
               THEN (table_size * 2 + 1) % Modulus
               ELSE table_size

\* add_entry returns 2 and changes nothing.
add_refused(compared) ==
    /\ ~overrun
    /\ get_socket(compared) # 0
    /\ UNCHANGED vars

\* Faults: the duplicate test is missing; the two fields are swapped.
add_stored_anyName(socket, compared, stored) ==
    /\ ~overrun
    /\ table_size' = SizeForNext
    /\ overrun' = FALSE
    /\ handle_table_entries' =
         Append(handle_table_entries, [socket_number |-> socket, handle_name |-> stored])

add_stored_swapped(socket, compared, stored) ==
    /\ ~overrun
    /\ get_socket(compared) = 0
    /\ table_size' = SizeForNext
    /\ overrun' = FALSE
    /\ handle_table_entries' =
         Append(handle_table_entries, [socket_number |-> stored, handle_name |-> socket])

\* add_entry grows the array when it is full, writes the entry, returns 0.
add_stored(socket, compared, stored) ==
    /\ ~overrun
    /\ get_socket(compared) = 0
    /\ table_size' = SizeForNext
    /\ overrun' = (entry_count >= SizeForNext)
    /\ handle_table_entries' =
         IF overrun' THEN handle_table_entries
         ELSE Append(handle_table_entries,
                     [socket_number |-> socket, handle_name |-> stored])

Init == create_table

Next == \E r \in Readings :
          \/ add_refused(r[1])
          \/ /\ entry_count < MaxEntries
             /\ \E s \in Sockets : add_stored(s, r[1], r[2])

Spec == Init /\ [][Next]_vars

-----------------------------------------------------------------------------
TypeOK == /\ handle_table_entries \in Seq(Entry)
          /\ table_size \in 0..(Modulus - 1)
          /\ overrun \in BOOLEAN

\* handle.h:20-21.  The number of entries never exceeds the allocated size and
\* no add_entry writes outside the allocation: the memory behind every index a
\* lookup or a broadcast reads is the table's.
EntriesInBounds == entry_count <= table_size /\ ~overrun

\* The range of MaxEntries in which doubling cannot wrap the uint16_t size.
DoublingFits == 2 * MaxEntries <= Modulus

\* The names that are only ever stored from bytes that carry their terminator.
CleanNames == {h \in Strings : \A r \in Readings : r[2] = h => r[1] = h}

\* The duplicate test of add_entry keeps clean names unique, over any sequence of
\* registrations and growths, and whatever other bytes are registered between.
NamesUnique ==
    \A i, j \in DOMAIN handle_table_entries :
        /\ handle_table_entries[i].handle_name = handle_table_entries[j].handle_name
        /\ handle_table_entries[i].handle_name \in CleanNames
        => i = j

\* The name listSend prints for a socket, if clean, is one that messageSend routes
\* to that same socket, even when one socket registered several names.
ListedNameRoutesBack ==
    \A s \in Sockets : get_handle(s) \in CleanNames => get_socket(get_handle(s)) = s

\* A name printed for a socket is never replaced by another.
HandleOfSocketStable ==
    [][\A s \in Sockets : get_handle(s) # NULL => get_handle(s)' = get_handle(s)]_vars

BoundNames == {h \in Strings : WithName(h) # {}}

D == INSTANCE Directory WITH socketOf <- [h \in BoundNames |-> get_socket(h)]

\* The table is a directory: whatever add_entry is called with later, terminated
\* bytes or not, a bound name keeps its socket.
ImplementsDirectory == D!Spec
=============================================================================
