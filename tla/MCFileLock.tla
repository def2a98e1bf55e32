----------------------------- MODULE MCFileLock -----------------------------
(* Three connections on one database, and two with a second one attached.  *)
EXTENDS FileLock, Sequences

CONSTANTS f1, f2, f3, f4, f5, k1, k2, k3, main, other

MCConnOf == [f \in Clients |-> CASE f = f1 -> k1 [] f \in {f2, f5} -> k2 [] OTHER -> k3]
MCDbOf   == [f \in Clients |-> IF f \in {f4, f5} THEN other ELSE main]

\* File names as lock names, which is the default of File's constructor.
MCLockNames == {"main", "main-r", "other", "other-r"}
MCResName == [n \in {LockName[f] : f \in Clients} |-> n \o "-r"]
ByFileName == [f \in Clients |-> IF f \in {f4, f5} THEN "other" ELSE "main"]

\* The lock name of every File that Local.open() constructs.
LocalLockNames == {"[object IDBDatabase]", "[object IDBDatabase]-r"}
ByDatabase == [f \in Clients |-> "[object IDBDatabase]"]
=============================================================================
