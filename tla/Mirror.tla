-------------------------------- MODULE Mirror --------------------------------
(***************************************************************************)
(* What a watcher of the API server may rely on, whatever the mechanism:   *)
(* a copy of a keyed store that lags behind its source.  Every object is   *)
(* stamped with the revision of the write that produced it.  The copy of a *)
(* key may skip revisions, but it never moves back to an older one and is  *)
(* never ahead of the source.  Informer implements this specification.     *)
(***************************************************************************)
EXTENDS Naturals

CONSTANTS
  Key,      \* the keys of the store
  Value     \* what a key may hold, the absence of an object included

VARIABLES
  source,   \* [Key -> Object]: the store itself
  copy      \* [Key -> Object]: the watcher's copy

vars == <<source, copy>>

Object == [val : Value, rev : Nat]

Init ==
  /\ source \in [Key -> Object]
  /\ \A k \in Key : source[k].rev = 0
  /\ copy = source

(* A write replaces the object of one key by one of a later revision.      *)
Write(k) ==
  /\ source' \in [Key -> Object]
  /\ source'[k].rev > source[k].rev
  /\ \A j \in Key \ {k} : source'[j] = source[j]
  /\ UNCHANGED copy

(* The copy of any number of keys moves forward, at most to the source.    *)
CatchUp ==
  /\ copy' \in [Key -> Object]
  /\ \A k \in Key : /\ copy[k].rev <= copy'[k].rev
                    /\ copy'[k].rev <= source[k].rev
                    /\ copy'[k].rev = source[k].rev => copy'[k] = source[k]
  /\ UNCHANGED source

Next == CatchUp \/ \E k \in Key : Write(k)

Spec == Init /\ [][Next]_vars
===============================================================================
