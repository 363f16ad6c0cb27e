---------------------------- MODULE MacFunction ----------------------------
(***************************************************************************)
(* What a keyed hash promises the users of its contexts, each as if it had *)
(* the library to itself: between the init that opens an exchange and the  *)
(* final that closes it, a context keeps its key and only adds to its      *)
(* data; the MAC is that of this key and of all of the data, and it stays  *)
(* until the user goes on.  Any exchange may be void, and promises         *)
(* nothing until the next init.                                            *)
(***************************************************************************)
EXTENDS Integers, Sequences

CONSTANTS
  Contexts,    \* the users' contexts
  Mac(_, _)    \* the MAC of a key and a message

VARIABLES
  phase,   \* phase[c]: "open", "done" or "void"
  key,     \* key[c]: the key of the exchange
  data,    \* data[c]: what it has been given so far
  mac      \* mac[c]: the MAC of a done exchange

vars == <<phase, key, data, mac>>

Init == \A c \in Contexts : phase[c] = "void"

Open(c) == phase[c] = "void" /\ phase'[c] = "open" /\ data'[c] = <<>>

Update(c) ==
  /\ phase[c] = "open" /\ phase'[c] = "open"
  /\ key'[c] = key[c]
  /\ Len(data'[c]) = Len(data[c]) + 1 /\ SubSeq(data'[c], 1, Len(data[c])) = data[c]

Final(c) ==
  /\ phase[c] = "open" /\ phase'[c] = "done"
  /\ key'[c] = key[c] /\ data'[c] = data[c]
  /\ mac'[c] = Mac(key[c], data[c])

Void(c) == phase'[c] = "void"

\* An open exchange has no MAC yet.
Rest(c) ==
  /\ phase'[c] = phase[c] /\ key'[c] = key[c] /\ data'[c] = data[c]
  /\ phase[c] = "done" => mac'[c] = mac[c]

\* What one context does may void the exchanges of others.
Next == \A c \in Contexts : Open(c) \/ Update(c) \/ Final(c) \/ Void(c) \/ Rest(c)

Spec == Init /\ [][Next]_vars
=============================================================================
