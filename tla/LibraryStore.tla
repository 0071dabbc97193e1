----------------------------- MODULE LibraryStore -----------------------------
(***************************************************************************)
(* What the storage facade promises its callers for Track and              *)
(* PerformanceData rows, with the SQL, the version dispatch and the        *)
(* version detection left out (spec 4.E, 8.4, 8.6).                        *)
(*                                                                         *)
(* A library directory holds a library of some version, or none.  A        *)
(* library is created with a version and then opened and closed; while it  *)
(* is open, rows are inserted, updated, replaced and read.  A row is       *)
(* stored as the caller's row projected on the columns of the library's   *)
(* version, and a read returns the stored row.  An operation that throws  *)
(* changes nothing a later read could see.                                 *)
(***************************************************************************)
CONSTANTS
    Ids,            \* track ids
    Versions,       \* the versions a library on disk may have
    TInputs,        \* track rows a caller passes in
    PInputs,        \* performance rows a caller passes in
    Null,           \* no library, no row, no result
    DefaultP,       \* the performance row read when none is stored
    Project(_, _),  \* a track row projected on a version's columns
    ProjectP(_, _)  \* a performance row projected on a version's columns

VARIABLES
    lib,     \* the version of the library in the directory, or Null
    open,    \* whether a handle on it is open
    store,   \* id -> stored track row, or Null
    pstore,  \* id -> stored performance row, or Null
    out      \* the row the last read returned, or Null

vars == <<lib, open, store, pstore, out>>

Empty == [i \in Ids |-> Null]

Read(tag, val) == [tag |-> tag, val |-> val]

Init ==
    /\ lib \in Versions \cup {Null}
    /\ open = FALSE
    /\ store = Empty
    /\ pstore = Empty
    /\ out = Null

\* Creating a library of version v where there is none, and opening it.
Create(v) ==
    /\ ~open /\ lib = Null
    /\ lib' = v /\ open' = TRUE
    /\ store' = Empty /\ pstore' = Empty /\ out' = Null

Open ==
    /\ ~open /\ lib # Null
    /\ open' = TRUE /\ out' = Null
    /\ UNCHANGED <<lib, store, pstore>>

\* An operation that throws: an open or a create, or a call on an open
\* library; it stores nothing.
Fail ==
    /\ out' = Null
    /\ UNCHANGED <<lib, open, store, pstore>>

Close ==
    /\ open
    /\ open' = FALSE /\ out' = Null
    /\ UNCHANGED <<lib, store, pstore>>

Insert(id, x) ==
    /\ open /\ store[id] = Null
    /\ store' = [store EXCEPT ![id] = Project(x, lib)]
    /\ out' = Null
    /\ UNCHANGED <<lib, open, pstore>>

\* An update of an id with no row changes nothing.
Update(id, x) ==
    /\ open
    /\ store' = IF store[id] = Null THEN store
                ELSE [store EXCEPT ![id] = Project(x, lib)]
    /\ out' = Null
    /\ UNCHANGED <<lib, open, pstore>>

Get(id) ==
    /\ open
    /\ out' = IF store[id] = Null THEN Read("track_deleted", Null)
              ELSE Read("track", store[id])
    /\ UNCHANGED <<lib, open, store, pstore>>

PSet(id, y) ==
    /\ open
    /\ pstore' = [pstore EXCEPT ![id] = ProjectP(y, lib)]
    /\ out' = Null
    /\ UNCHANGED <<lib, open, store>>

PClear(id) ==
    /\ open
    /\ pstore' = [pstore EXCEPT ![id] = Null]
    /\ out' = Null
    /\ UNCHANGED <<lib, open, store>>

PGet(id) ==
    /\ open
    /\ out' = Read("perf", IF pstore[id] = Null THEN DefaultP ELSE pstore[id])
    /\ UNCHANGED <<lib, open, store, pstore>>

Next ==
    \/ \E v \in Versions : Create(v)
    \/ Open \/ Fail \/ Close
    \/ \E id \in Ids :
          \/ \E x \in TInputs : Insert(id, x) \/ Update(id, x)
          \/ Get(id) \/ PClear(id) \/ PGet(id)
          \/ \E y \in PInputs : PSet(id, y)

Spec == Init /\ [][Next]_vars
=============================================================================
