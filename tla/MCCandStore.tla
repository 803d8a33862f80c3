---------------------------- MODULE MCCandStore -----------------------------
(* Instances of CandStore for TLC.                                         *)
EXTENDS CandStore, Sequences, TLC

CONSTANTS p1, p2, k1, k2, k3, o1, o2

\* Two keys of one object and one of another, or a key the compiler rejects.
Shared   == k1 :> o1 @@ k2 :> o1 @@ k3 :> o2
Pair     == k1 :> o1 @@ k2 :> o1
Rejected == k1 :> o1 @@ k3 :> Rej

\* How often each process is asked.
Once     == p1 :> 1 @@ p2 :> 1
Unevenly == p1 :> 2 @@ p2 :> 1

\* A store: the named objects, the contents of its files, and each key's entry.
\* Files beyond the ones given are cut to nothing and linked nowhere.
Directory(obj, contents, links, rejections) ==
  [objects |-> [o \in Objs |-> IF o \in DOMAIN obj THEN obj[o] ELSE None],
   bytes   |-> [i \in Inodes |-> IF i <= Len(contents) THEN contents[i] ELSE Empty],
   keyO    |-> [k \in Keys |-> IF k \in DOMAIN links THEN links[k] ELSE None],
   fails   |-> rejections]
Nothing == <<>>

Cold    == Directory(Nothing, <<>>, Nothing, {})
Sound   == Directory(o1 :> 1, <<o1>>, k1 :> 1, {})
\* objects/<o1> holds other bytes, and two keys link to it (or none do, yet).
Corrupt == Directory(o1 :> 1, <<Bad>>, k1 :> 1 @@ k2 :> 1, {})
Planted == Directory(o1 :> 1, <<Bad>>, Nothing, {})
\* k1 answers with an object it does not compile to.
Stale   == Directory(o1 :> 1 @@ o2 :> 2, <<o1, o2>>, k1 :> 2 @@ k2 :> 1, {})
\* The same, and the object it answers with is corrupt too.
Crossed == Directory(o2 :> 1, <<Bad>>, k1 :> 1, {})
\* k1 is said not to compile; both answers exist; and a rejected key has an object.
Denied  == Directory(Nothing, <<>>, Nothing, {k1})
Both    == Directory(o1 :> 1, <<Bad>>, k1 :> 1, {k1})
Granted == Directory(o1 :> 1, <<o1>>, k3 :> 1, {})
Refused == Directory(Nothing, <<>>, Nothing, {k3})

SharedStores   == {Cold, Corrupt, Planted, Stale, Crossed, Denied, Both}
RejectedStores == {Sound, Denied, Both, Granted, Refused}
ColdStore      == {Cold}
=============================================================================
