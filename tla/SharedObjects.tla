---------------------------- MODULE SharedObjects ----------------------------
(***************************************************************************)
(* What the registries of shared objects promise: for a key there is at    *)
(* most one object in use, whoever asks for the key shares it, and it      *)
(* stays until the last user lets go.  SdfLayer::FindOrOpen, Find and      *)
(* CreateNew promise it of layers and real paths, PcpCache of layer stacks *)
(* and their identifiers, Sdf_PathNode::FindOrCreatePrim of nodes and      *)
(* paths, and TfToken of representations and strings.                      *)
(***************************************************************************)
CONSTANTS Users, Objects, Keys, None

VARIABLES
  ref,     \* the object each user keeps, or None
  key      \* the key of an object in use, None for every other

Init ==
  /\ ref = [u \in Users |-> None]
  /\ key = [o \in Objects |-> None]

(* A user gets an object for a key of which none is in use.                *)
New(u, o) ==
  /\ ref[u] = None
  /\ ref' = [ref EXCEPT ![u] = o]
  /\ key[o] = None
  /\ \E k \in Keys :
       /\ \A m \in Objects : key[m] # k
       /\ key' = [key EXCEPT ![o] = k]

(* One is: it is shared.                                                   *)
Join(u, o) ==
  /\ ref[u] = None
  /\ ref' = [ref EXCEPT ![u] = o]
  /\ key[o] # None
  /\ UNCHANGED key

Leave(u) ==
  /\ ref[u] # None
  /\ ref' = [ref EXCEPT ![u] = None]
  /\ key' = IF \E v \in Users \ {u} : ref[v] = ref[u]
              THEN key ELSE [key EXCEPT ![ref[u]] = None]

(* One user hands its object to another that has none.                     *)
Pass(u, v) ==
  /\ ref[u] # None /\ ref[v] = None
  /\ ref' = [ref EXCEPT ![u] = None, ![v] = ref[u]]
  /\ UNCHANGED key

Next ==
  \E u \in Users :
    \/ \E o \in Objects : New(u, o) \/ Join(u, o)
    \/ Leave(u)
    \/ \E v \in Users : Pass(u, v)

Spec == Init /\ [][Next]_<<ref, key>>
=============================================================================
