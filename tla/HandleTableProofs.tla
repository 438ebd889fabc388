------------------------- MODULE HandleTableProofs -------------------------
(* Proofs about the handle table. *)
EXTENDS HandleTable, CommonLemmas, TLAPS

\* What the scans of get_socket and get_handle stop at.
LEMMA FirstOf ==
    ASSUME NEW S \in SUBSET Nat, S # {}
    PROVE  First(S) \in S /\ \A j \in S : First(S) <= j
BY LeastExists DEF First

\* The scans stop at this element and no other.
LEMMA FirstIs ==
    ASSUME NEW S \in SUBSET Nat, NEW i \in S, \A j \in S : i <= j
    PROVE  First(S) = i
BY LeastChosen DEF First

\* What a call of add_entry does to the table: nothing, or one entry at the end.
LEMMA StepShape ==
    ASSUME TypeOK, [Next]_vars
    PROVE  \/ handle_table_entries' = handle_table_entries
           \/ \E e \in Entry : /\ handle_table_entries' = Append(handle_table_entries, e)
                               /\ \E r \in Readings : /\ get_socket(r[1]) = 0
                                                      /\ e.handle_name = r[2]
<1>1. CASE UNCHANGED vars
  BY <1>1 DEF vars
<1>2. ASSUME NEW r \in Readings, add_refused(r[1])
      PROVE  handle_table_entries' = handle_table_entries
  BY <1>2 DEF add_refused, vars
<1>3. ASSUME NEW r \in Readings, NEW s \in Sockets, add_stored(s, r[1], r[2])
      PROVE  \/ handle_table_entries' = handle_table_entries
             \/ \E e \in Entry : /\ handle_table_entries' = Append(handle_table_entries, e)
                                 /\ get_socket(r[1]) = 0
                                 /\ e.handle_name = r[2]
  <2> DEFINE e == [socket_number |-> s, handle_name |-> r[2]]
  <2>1. e \in Entry /\ e.handle_name = r[2]
    BY HandleTableAssumption DEF Entry
  <2>2. get_socket(r[1]) = 0
    BY <1>3 DEF add_stored
  <2>3. \/ handle_table_entries' = handle_table_entries
        \/ handle_table_entries' = Append(handle_table_entries, e)
    BY <1>3 DEF add_stored
  <2> QED
    BY <2>1, <2>2, <2>3
<1> QED
  BY <1>1, <1>2, <1>3 DEF Next

\* create_table returns a well typed table.
LEMMA InitTypeOK == Init => TypeOK
<1>1. << >> \in Seq(Entry)
  OBVIOUS
<1>2. 2 \in 0..(Modulus - 1)
  BY HandleTableAssumption
<1> QED
  BY <1>1, <1>2 DEF Init, create_table, TypeOK

\* add_entry keeps the table well typed, whether it refuses, stores or grows.
LEMMA NextTypeOK == TypeOK /\ [Next]_vars => TypeOK'
<1> SUFFICES ASSUME TypeOK, [Next]_vars PROVE TypeOK'
  OBVIOUS
<1>1. handle_table_entries' \in Seq(Entry)
  BY StepShape DEF TypeOK
<1>2. table_size' \in 0..(Modulus - 1) /\ overrun' \in BOOLEAN
  <2>1. CASE UNCHANGED vars
    BY <2>1 DEF vars, TypeOK
  <2>2. ASSUME NEW r \in Readings, add_refused(r[1])
        PROVE  table_size' \in 0..(Modulus - 1) /\ overrun' \in BOOLEAN
    BY <2>2 DEF add_refused, vars, TypeOK
  <2>3. ASSUME NEW r \in Readings, NEW s \in Sockets, add_stored(s, r[1], r[2])
        PROVE  table_size' \in 0..(Modulus - 1) /\ overrun' \in BOOLEAN
    <3>1. SizeForNext \in 0..(Modulus - 1)
      BY HandleTableAssumption DEF SizeForNext, TypeOK
    <3> QED
      BY <2>3, <3>1 DEF add_stored
  <2> QED
    BY <2>1, <2>2, <2>3 DEF Next
<1> QED
  BY <1>1, <1>2 DEF TypeOK

\* Every table that calls of add_entry can produce is well typed.
THEOREM TypeCorrect == Spec => []TypeOK
<1> QED
  BY InitTypeOK, NextTypeOK, PTL DEF Spec

-----------------------------------------------------------------------------
\* Appending an entry adds its index to the set of its name and to the set of
\* its socket, and changes no other set.
LEMMA AppendSets ==
    ASSUME TypeOK, NEW e \in Entry,
           handle_table_entries' = Append(handle_table_entries, e)
    PROVE  LET n == Len(handle_table_entries) + 1 IN
           /\ \A h \in Strings : WithName(h)' = IF h = e.handle_name
                                                THEN WithName(h) \cup {n} ELSE WithName(h)
           /\ \A s \in Sockets : WithSocket(s)' = IF s = e.socket_number
                                                  THEN WithSocket(s) \cup {n} ELSE WithSocket(s)
           /\ \A h \in Strings : WithName(h) \subseteq 1..(n - 1)
           /\ \A s \in Sockets : WithSocket(s) \subseteq 1..(n - 1)
           /\ \A i \in 1..(n - 1) : handle_table_entries'[i] = handle_table_entries[i]
           /\ handle_table_entries'[n] = e
           /\ n \in Nat \ {0}
<1> DEFINE n == Len(handle_table_entries) + 1
<1>1. handle_table_entries \in Seq(Entry)
  BY DEF TypeOK
<1>2. /\ DOMAIN handle_table_entries = 1..(n - 1)
      /\ DOMAIN handle_table_entries' = 1..n
      /\ n \in Nat \ {0}
      /\ \A i \in 1..(n - 1) : handle_table_entries'[i] = handle_table_entries[i]
      /\ handle_table_entries'[n] = e
  BY <1>1
<1>3. 1..n = 1..(n - 1) \cup {n} /\ n \notin 1..(n - 1)
  BY <1>2
<1>4. ASSUME NEW h \in Strings
      PROVE  WithName(h)' = IF h = e.handle_name THEN WithName(h) \cup {n} ELSE WithName(h)
  BY <1>2, <1>3 DEF WithName
<1>5. ASSUME NEW s \in Sockets
      PROVE  WithSocket(s)' = IF s = e.socket_number THEN WithSocket(s) \cup {n} ELSE WithSocket(s)
  BY <1>2, <1>3 DEF WithSocket
<1>6. /\ \A h \in Strings : WithName(h) \subseteq 1..(n - 1)
      /\ \A s \in Sockets : WithSocket(s) \subseteq 1..(n - 1)
  BY <1>2 DEF WithName, WithSocket
<1> QED
  BY <1>2, <1>4, <1>5, <1>6

\* A larger index added to a set leaves the set's first element what it was.
LEMMA AppendKeepsFirst ==
    ASSUME NEW n \in Nat \ {0}, NEW S \in SUBSET (1..(n - 1))
    PROVE  /\ S # {} => First(S \cup {n}) = First(S) /\ First(S) \in S
           /\ First({n}) = n
<1>1. S \in SUBSET Nat /\ S \cup {n} \in SUBSET Nat /\ {n} \in SUBSET Nat
  <2>1. \A x \in S : x \in Nat
    OBVIOUS
  <2> QED
    BY <2>1
<1>2. ASSUME S # {}
      PROVE  First(S \cup {n}) = First(S) /\ First(S) \in S
  <2>1. First(S) \in S /\ \A j \in S : First(S) <= j
    BY <1>1, <1>2, FirstOf
  <2>2. First(S) \in S \cup {n} /\ First(S) <= n
    <3>1. First(S) \in 1..(n - 1)
      BY <2>1
    <3> QED
      BY <2>1, <3>1
  <2>3. \A j \in S \cup {n} : First(S) <= j
    BY <2>1, <2>2
  <2> QED
    BY <1>1, <2>1, <2>2, <2>3, FirstIs
<1>3. First({n}) = n
  <2>1. n \in {n} /\ \A j \in {n} : n <= j
    OBVIOUS
  <2> QED
    BY <1>1, <2>1, FirstIs
<1> QED
  BY <1>2, <1>3

-----------------------------------------------------------------------------
\* A registered name is one that get_socket answers with a socket, not with 0.
LEMMA SocketOfName ==
    ASSUME TypeOK, NEW h \in Strings, WithName(h) # {}
    PROVE  /\ First(WithName(h)) \in WithName(h)
           /\ get_socket(h) \in Sockets
           /\ get_socket(h) # 0
<1>1. WithName(h) \in SUBSET Nat
  BY DEF WithName, TypeOK
<1>2. First(WithName(h)) \in WithName(h)
  BY <1>1, FirstOf
<1>3. handle_table_entries[First(WithName(h))] \in Entry
  BY <1>2 DEF WithName, TypeOK
<1>4. get_socket(h) = handle_table_entries[First(WithName(h))].socket_number
  BY DEF get_socket
<1> QED
  BY <1>2, <1>3, <1>4, HandleTableAssumption DEF Entry

\* Once a name has a socket, a step leaves it that socket; a name the step adds
\* gets the socket of the new entry.
LEMMA LookupStable ==
    ASSUME TypeOK, NEW e \in Entry, NEW h \in Strings,
           handle_table_entries' = Append(handle_table_entries, e)
    PROVE  /\ WithName(h) # {} => /\ WithName(h)' # {}
                                  /\ get_socket(h)' = get_socket(h)
           /\ WithName(h) = {} /\ h # e.handle_name => WithName(h)' = {}
           /\ WithName(h) = {} /\ h = e.handle_name =>
                 WithName(h)' # {} /\ get_socket(h)' = e.socket_number
<1> DEFINE n == Len(handle_table_entries) + 1
<1>1. /\ n \in Nat \ {0}
      /\ WithName(h) \in SUBSET (1..(n - 1))
      /\ WithName(h)' = IF h = e.handle_name THEN WithName(h) \cup {n} ELSE WithName(h)
      /\ \A i \in 1..(n - 1) : handle_table_entries'[i] = handle_table_entries[i]
      /\ handle_table_entries'[n] = e
  BY AppendSets
<1> HIDE DEF n
<1>2. /\ WithName(h) # {} => /\ First(WithName(h) \cup {n}) = First(WithName(h))
                             /\ First(WithName(h)) \in WithName(h)
      /\ First({n}) = n
  BY <1>1, AppendKeepsFirst
<1>3. /\ WithName(h) # {} => /\ First(WithName(h)') = First(WithName(h))
                             /\ First(WithName(h)) \in WithName(h)
      /\ WithName(h) = {} /\ h = e.handle_name => First(WithName(h)') = n
  <2>1. WithName(h) = {} => WithName(h) \cup {n} = {n}
    OBVIOUS
  <2>2. CASE h = e.handle_name
    <3>1. WithName(h)' = WithName(h) \cup {n}
      BY <1>1, <2>2
    <3> QED
      BY <1>2, <2>1, <3>1
  <2>3. CASE h # e.handle_name
    <3>1. WithName(h)' = WithName(h)
      BY <1>1, <2>3
    <3>2. First(WithName(h)') = First(WithName(h))
      BY <3>1
    <3> QED
      BY <1>2, <2>3, <3>2
  <2> QED
    BY <2>2, <2>3
<1>4. CASE WithName(h) # {}
  <2>1. WithName(h)' # {}
    BY <1>1, <1>4
  <2>2. handle_table_entries'[First(WithName(h)')] = handle_table_entries[First(WithName(h))]
    BY <1>1, <1>3, <1>4
  <2>3. get_socket(h) = handle_table_entries[First(WithName(h))].socket_number
    BY <1>4 DEF get_socket
  <2>4. get_socket(h)' = handle_table_entries'[First(WithName(h)')].socket_number
    BY <2>1 DEF get_socket
  <2> QED
    BY <1>4, <2>1, <2>2, <2>3, <2>4
<1>5. CASE WithName(h) = {} /\ h = e.handle_name
  <2>1. WithName(h)' # {} /\ First(WithName(h)') = n
    BY <1>1, <1>3, <1>5
  <2>2. get_socket(h)' = handle_table_entries'[First(WithName(h)')].socket_number
    BY <2>1 DEF get_socket
  <2> QED
    BY <1>1, <1>5, <2>1, <2>2
<1> QED
  BY <1>1, <1>4, <1>5

-----------------------------------------------------------------------------
\* The duplicate test of add_entry keeps clean names unique.
LEMMA NextUnique == TypeOK /\ NamesUnique /\ [Next]_vars => NamesUnique'
<1> SUFFICES ASSUME TypeOK, NamesUnique, [Next]_vars
             PROVE  NamesUnique'
  OBVIOUS
<1>1. CASE handle_table_entries' = handle_table_entries
  BY <1>1 DEF NamesUnique
<1>2. ASSUME NEW e \in Entry, handle_table_entries' = Append(handle_table_entries, e),
             NEW r \in Readings, get_socket(r[1]) = 0, e.handle_name = r[2]
      PROVE  NamesUnique'
  <2>1. ASSUME e.handle_name \in CleanNames
        PROVE  \A i \in DOMAIN handle_table_entries :
                  handle_table_entries[i].handle_name # e.handle_name
    <3>1. e.handle_name \in Strings /\ get_socket(e.handle_name) = 0
      BY <1>2, <2>1 DEF CleanNames
    <3>2. WithName(e.handle_name) = {}
      BY <3>1, SocketOfName
    <3> QED
      BY <3>2 DEF WithName
  <2>2. /\ DOMAIN handle_table_entries = 1..Len(handle_table_entries)
        /\ DOMAIN handle_table_entries' = 1..(Len(handle_table_entries) + 1)
        /\ \A i \in 1..Len(handle_table_entries) :
              handle_table_entries'[i] = handle_table_entries[i]
        /\ handle_table_entries'[Len(handle_table_entries) + 1] = e
        /\ Len(handle_table_entries) \in Nat
    BY <1>2 DEF TypeOK
  <2> QED
    BY <2>1, <2>2 DEF NamesUnique
<1> QED
  BY <1>1, <1>2, StepShape

\* The clean names add_entry stores are pairwise different.
THEOREM UniqueNames == Spec => []NamesUnique
<1>1. Init => NamesUnique
  BY DEF Init, create_table, NamesUnique
<1> QED
  BY <1>1, TypeCorrect, NextUnique, PTL DEF Spec

-----------------------------------------------------------------------------
BoundInv == /\ entry_count \in Nat
            /\ entry_count <= table_size
            /\ entry_count <= MaxEntries
            /\ ~overrun

\* add_entry keeps the count within the allocation: it grows before it writes.
LEMMA NextBound ==
    ASSUME DoublingFits, TypeOK, BoundInv, [Next]_vars
    PROVE  BoundInv'
<1>1. CASE UNCHANGED vars
  BY <1>1 DEF vars, BoundInv, entry_count
<1>2. ASSUME NEW r \in Readings, add_refused(r[1])
      PROVE  BoundInv'
  BY <1>2 DEF add_refused, vars, BoundInv, entry_count
<1>3. ASSUME NEW r \in Readings, NEW s \in Sockets,
             entry_count < MaxEntries, add_stored(s, r[1], r[2])
      PROVE  BoundInv'
  <2>1. table_size \in Nat /\ entry_count \in Nat /\ Modulus \in Nat /\ MaxEntries \in Nat
    BY HandleTableAssumption DEF TypeOK, BoundInv
  <2>2. entry_count < SizeForNext
    <3>1. CASE entry_count >= table_size
      <4>1. table_size = entry_count
        BY <2>1, <3>1 DEF BoundInv
      <4>2. table_size * 2 + 1 < Modulus
        BY <1>3, <2>1, <4>1 DEF DoublingFits
      <4>3. (table_size * 2 + 1) % Modulus = table_size * 2 + 1
        BY <2>1, <4>2
      <4> QED
        BY <2>1, <3>1, <4>1, <4>3 DEF SizeForNext
    <3>2. CASE ~(entry_count >= table_size)
      BY <2>1, <3>2 DEF SizeForNext
    <3> QED
      BY <3>1, <3>2
  <2>3. SizeForNext \in Nat
    BY <2>1, HandleTableAssumption DEF SizeForNext
  <2>4. ~overrun' /\ table_size' = SizeForNext
    <3>1. ~(entry_count >= SizeForNext)
      BY <2>1, <2>2, <2>3
    <3>2. overrun' = (entry_count >= SizeForNext) /\ table_size' = SizeForNext
      BY <1>3 DEF add_stored
    <3> QED
      BY <3>1, <3>2, Zenon
  <2>5. Len(handle_table_entries') = Len(handle_table_entries) + 1
    BY <1>3, <2>4 DEF add_stored, TypeOK
  <2> HIDE DEF SizeForNext
  <2> QED
    BY <1>3, <2>1, <2>2, <2>3, <2>4, <2>5 DEF BoundInv, entry_count
<1> QED
  BY <1>1, <1>2, <1>3 DEF Next

\* While table_size cannot wrap, every entry add_entry writes lies in allocated memory.
THEOREM NeverOverrun == ASSUME DoublingFits PROVE Spec => []EntriesInBounds
<1>1. Init => BoundInv
  BY HandleTableAssumption DEF Init, create_table, BoundInv, entry_count
<1>2. TypeOK /\ BoundInv /\ [Next]_vars => BoundInv'
  BY NextBound
<1>3. BoundInv => EntriesInBounds
  BY DEF BoundInv, EntriesInBounds
<1> QED
  BY <1>1, <1>2, <1>3, TypeCorrect, PTL DEF Spec

-----------------------------------------------------------------------------
\* The table implements the directory: a step binds one new name or none.
LEMMA DirectoryInit == Init => D!Init
<1>1. Init => BoundNames = {}
  BY DEF Init, create_table, BoundNames, WithName
<1> QED
  BY <1>1 DEF D!Init

\* A stored entry binds its name, or leaves the directory alone when the name is
\* an older entry's.
LEMMA DirectoryStep ==
    ASSUME TypeOK, [Next]_vars
    PROVE  [D!Next]_([h \in BoundNames |-> get_socket(h)])
<1> DEFINE dir == [h \in BoundNames |-> get_socket(h)]
<1>1. CASE handle_table_entries' = handle_table_entries
  BY <1>1 DEF BoundNames, get_socket, WithName
<1>2. ASSUME NEW e \in Entry, handle_table_entries' = Append(handle_table_entries, e)
      PROVE  D!Next \/ dir' = dir
  <2>1. e.handle_name \in Strings /\ e.socket_number \in Sockets
    BY DEF Entry
  <2>2. BoundNames' = BoundNames \cup {e.handle_name}
    BY <1>2, <2>1, LookupStable DEF BoundNames
  <2>3. \A h \in BoundNames : get_socket(h)' = get_socket(h)
    BY <1>2, LookupStable DEF BoundNames
  <2>4. CASE e.handle_name \in BoundNames
    <3>1. BoundNames' = BoundNames
      BY <2>2, <2>4
    <3> QED
      BY <2>3, <3>1
  <2>5. CASE e.handle_name \notin BoundNames
    <3>1. get_socket(e.handle_name)' = e.socket_number
      BY <1>2, <2>1, <2>5, LookupStable DEF BoundNames
    <3>2. dir' = [g \in BoundNames \cup {e.handle_name} |->
                    IF g = e.handle_name THEN e.socket_number ELSE dir[g]]
      BY <2>2, <2>3, <2>5, <3>1
    <3>3. D!Bind(e.handle_name, e.socket_number)
      BY <2>5, <3>2 DEF D!Bind
    <3> QED
      BY <2>1, <3>3 DEF D!Next
  <2> QED
    BY <2>4, <2>5
<1> QED
  BY <1>1, <1>2, StepShape DEF TypeOK

\* Whatever is registered later, a bound name keeps its socket.
THEOREM TableImplementsDirectory == Spec => ImplementsDirectory
<1>1. Init => D!Init
  BY DirectoryInit
<1>2. TypeOK /\ [Next]_vars => [D!Next]_([h \in BoundNames |-> get_socket(h)])
  BY DirectoryStep
<1> QED
  BY <1>1, <1>2, TypeCorrect, PTL DEF Spec, ImplementsDirectory, D!Spec

-----------------------------------------------------------------------------
\* A socket with an entry has a handle: the name of its first entry.
LEMMA HandleOfSocket ==
    ASSUME TypeOK, NEW s \in Sockets, WithSocket(s) # {}
    PROVE  /\ First(WithSocket(s)) \in WithSocket(s)
           /\ get_handle(s) = handle_table_entries[First(WithSocket(s))].handle_name
           /\ get_handle(s) \in Strings
           /\ get_handle(s) # NULL
<1>1. WithSocket(s) \in SUBSET Nat
  BY DEF WithSocket, TypeOK
<1>2. First(WithSocket(s)) \in WithSocket(s)
  BY <1>1, FirstOf
<1>3. handle_table_entries[First(WithSocket(s))] \in Entry
  BY <1>2 DEF WithSocket, TypeOK
<1>4. get_handle(s) = handle_table_entries[First(WithSocket(s))].handle_name
  BY DEF get_handle
<1> QED
  BY <1>2, <1>3, <1>4, HandleTableAssumption DEF Entry

\* add_entry keeps the answer of get_handle for every socket that has one.
LEMMA HandleKept ==
    ASSUME TypeOK, NEW e \in Entry, NEW s \in Sockets, WithSocket(s) # {},
           handle_table_entries' = Append(handle_table_entries, e)
    PROVE  get_handle(s)' = get_handle(s)
<1> DEFINE n == Len(handle_table_entries) + 1
<1>1. /\ n \in Nat \ {0}
      /\ WithSocket(s) \in SUBSET (1..(n - 1))
      /\ WithSocket(s)' = IF s = e.socket_number THEN WithSocket(s) \cup {n} ELSE WithSocket(s)
      /\ \A i \in 1..(n - 1) : handle_table_entries'[i] = handle_table_entries[i]
  BY AppendSets
<1> HIDE DEF n
<1>2. /\ First(WithSocket(s) \cup {n}) = First(WithSocket(s))
      /\ First(WithSocket(s)) \in WithSocket(s)
  BY <1>1, AppendKeepsFirst
<1>3. First(WithSocket(s)') = First(WithSocket(s)) /\ First(WithSocket(s)) \in WithSocket(s)
  <2>1. WithSocket(s)' = WithSocket(s) \/ WithSocket(s)' = WithSocket(s) \cup {n}
    BY <1>1
  <2> QED
    BY <1>2, <2>1
<1>4. WithSocket(s)' # {}
  BY <1>1
<1>5. get_handle(s) = handle_table_entries[First(WithSocket(s))].handle_name
  BY DEF get_handle
<1>6. get_handle(s)' = handle_table_entries'[First(WithSocket(s)')].handle_name
  BY <1>4 DEF get_handle
<1> QED
  BY <1>1, <1>3, <1>5, <1>6

\* The name listed for a socket is the first it registered, for ever.
THEOREM HandleStable == Spec => HandleOfSocketStable
<1>1. ASSUME TypeOK, [Next]_vars, NEW s \in Sockets, get_handle(s) # NULL
      PROVE  get_handle(s)' = get_handle(s)
  <2>1. WithSocket(s) # {}
    BY <1>1, HandleTableAssumption DEF get_handle, CleanNames
  <2>2. CASE handle_table_entries' = handle_table_entries
    BY <2>2 DEF get_handle, WithSocket
  <2>3. ASSUME NEW e \in Entry, handle_table_entries' = Append(handle_table_entries, e)
        PROVE  get_handle(s)' = get_handle(s)
    BY <1>1, <2>1, <2>3, HandleKept
  <2> QED
    BY <1>1, <2>2, <2>3, StepShape DEF TypeOK
<1>2. TypeOK /\ [Next]_vars =>
        [\A s \in Sockets : get_handle(s) # NULL => get_handle(s)' = get_handle(s)]_vars
  BY <1>1
<1> QED
  BY <1>2, TypeCorrect, PTL DEF Spec, HandleOfSocketStable

\* A clean name that get_handle finds for a socket leads get_socket back to it.
THEOREM ListedRoutesBack == Spec => []ListedNameRoutesBack
<1>1. ASSUME TypeOK, NamesUnique, NEW s \in Sockets, get_handle(s) \in CleanNames
      PROVE  get_socket(get_handle(s)) = s
  <2> DEFINE i == First(WithSocket(s))
             h == get_handle(s)
  <2>1. WithSocket(s) # {}
    BY <1>1, HandleTableAssumption DEF get_handle, CleanNames
  <2>2. i \in WithSocket(s) /\ h = handle_table_entries[i].handle_name /\ h \in Strings
    BY <1>1, <2>1, HandleOfSocket
  <2>3. i \in DOMAIN handle_table_entries /\ handle_table_entries[i].socket_number = s
    BY <2>2 DEF WithSocket
  <2>4. i \in WithName(h)
    BY <2>2, <2>3 DEF WithName
  <2>5. First(WithName(h)) \in WithName(h)
    BY <1>1, <2>2, <2>4, SocketOfName
  <2>6. First(WithName(h)) = i
    BY <1>1, <2>2, <2>3, <2>5 DEF NamesUnique, WithName
  <2>7. get_socket(h) = handle_table_entries[i].socket_number
    BY <2>4, <2>6 DEF get_socket
  <2> QED
    BY <2>3, <2>7
<1>2. TypeOK /\ NamesUnique => ListedNameRoutesBack
  BY <1>1 DEF ListedNameRoutesBack
<1> QED
  BY <1>2, TypeCorrect, UniqueNames, PTL
=============================================================================
