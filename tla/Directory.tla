----------------------------- MODULE Directory -----------------------------
(***************************************************************************)
(* What the file system promises to its caller, with the disk left out: a  *)
(* root directory that only grows, whose entries have distinct keys and    *)
(* each own a chunk of the disk that no other entry owns.                  *)
(*                                                                         *)
(* Module FileSystem implements this one.  The two steps stay apart here   *)
(* because the code takes a chunk (one disk write) before it names it (a   *)
(* second write): a chunk that was taken and never named is lost, which    *)
(* the promise allows, and a chunk that was named without being taken is   *)
(* what it forbids.                                                        *)
(***************************************************************************)
CONSTANTS
  Keys,    \* what identifies an entry: its type and its name
  Chunks   \* the chunks of the disk

VARIABLES
  catalog, \* the entries: a set of records [key, chunk]
  taken    \* the chunks that are marked as in use

vars == <<catalog, taken>>

Init ==
  /\ catalog = {}
  /\ taken = {}

(* Mark a chunk that nobody has marked yet. *)
Take(c) ==
  /\ c \notin taken
  /\ taken' = taken \cup {c}
  /\ UNCHANGED catalog

(* Name a marked chunk: neither the key nor the chunk may be in use. *)
Name(k, c) ==
  /\ c \in taken
  /\ \A e \in catalog : e.key # k /\ e.chunk # c
  /\ catalog' = catalog \cup {[key |-> k, chunk |-> c]}
  /\ UNCHANGED taken

Next ==
  \/ \E c \in Chunks : Take(c)
  \/ \E k \in Keys, c \in Chunks : Name(k, c)

Spec == Init /\ [][Next]_vars
=============================================================================
