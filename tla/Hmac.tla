-------------------------------- MODULE Hmac --------------------------------
(***************************************************************************)
(* src/hmac.c over the user's table of hash callbacks.  Every HMAC context *)
(* keeps its key, but the running hash is the hash_ctx of the TABLE, which *)
(* several contexts may point to; and a callback may fail.  A call is the  *)
(* sequence `todo' of the callbacks it still makes, each one step: calls   *)
(* on different contexts interleave there when the users are preemptive    *)
(* threads, and between calls when they are not.                           *)
(*                                                                         *)
(* Bytes are symbolic: a hash_ctx is the sequence of the items one context *)
(* gave since it called init, or Unknown once the items of two of them are *)
(* mixed; a digest names the hash and all it covers.                       *)
(***************************************************************************)
EXTENDS Integers, Sequences, FiniteSets

CONSTANTS
  Contexts,   \* the mbcrypt_hmac_t
  Tables,     \* the mbcrypt_hash_callbacks_t
  HashType,   \* HashType[t]: the hash of table t, and of its contexts
  Keys,       \* the keys of the users
  KeyLen,     \* KeyLen[k]: bytes of key k
  Chunks,     \* the non-empty data passed to update
  Usages      \* bounds: preemptive (calls on different contexts overlap), the
              \* keys in use, calls in a behaviour, callbacks that fail

VARIABLES
  usage,    \* how the users go about it
  level,    \* MBCRYPT_LEVEL: "MIN" or "MAX"
  table,    \* table[c]: ctx->cbs
  hash,     \* hash[t]: what hash_ctx of table t has absorbed
  owner,    \* owner[t]: whose items these are
  key,      \* key[c]: ctx->key, padded with zeros
  out,      \* out[c]: the caller's buffer for the digest
  args,     \* args[c]: key and data of the current call
  todo,     \* todo[c]: the callbacks the current call still makes
  status,   \* status[c]: mbcrypt_ret of the current or the last call
  calls, faults,
  given,    \* history: the key of the last init
  said,     \* history: the data of the updates since
  phase,    \* history: how far the exchange is, "broken" when it is void
  wrote     \* history: the last call has written a digest to out

vars == <<usage, level, table, hash, owner, key, out, args, todo, status, calls, faults,
          given, said, phase, wrote>>

Types == {"SHA1", "SHA224", "SHA256", "SHA384", "SHA512", "MD5"}

ASSUME HmacAssumption ==
  /\ HashType \in [Tables -> {"SHA1", "SHA256", "SHA512"}]
  /\ KeyLen \in [Keys -> Nat]
  /\ Usages \subseteq [preemptive : BOOLEAN, keys : SUBSET Keys, max_calls : Nat,
                        max_faults : Nat]
-----------------------------------------------------------------------------
\* The block each type is padded to.
BlockSize(type) == IF type \in {"SHA1", "SHA256"} THEN 64 ELSE 128

Type(c) == HashType[table[c]]

Digest(type, items) == <<"digest", type, items>>
Wiped   == <<"0xFF">>
Unset   == <<"unset">>
NoArgs  == [key |-> "none", data |-> "none"]
Unknown == <<<<"unknown">>>>

(***************************************************************************)
(* RFC 2104, on whole messages: what a user of the library relies on.      *)
(***************************************************************************)
HashBlock(type) == IF type \in {"SHA384", "SHA512"} THEN 128 ELSE 64

PaddedKey(type, k) ==
  IF KeyLen[k] > HashBlock(type) THEN Digest(type, <<<<"key", k>>>>) ELSE <<"key", k>>

Mac(type, k, data) ==
  LET K == PaddedKey(type, k)
      inner == Digest(type, <<<<"ipad", K, HashBlock(type)>>>> \o data)
  IN  Digest(type, <<<<"opad", K, HashBlock(type)>>, inner>>)
-----------------------------------------------------------------------------
(***************************************************************************)
(* The callbacks of each function, in order: the callback, and its role.   *)
(***************************************************************************)

\* Fault: >= hashes a key that fills the block, which must be used as it is.
InitStepsAtBlock(type, k) ==
  (IF KeyLen[k] >= BlockSize(type)
   THEN <<<<"init", "key">>, <<"update", "key">>, <<"final", "key">>>> ELSE <<>>)
  \o <<<<"init", "inner">>, <<"update", "ipad">>>>

InitSteps(type, k) ==
  (IF KeyLen[k] > BlockSize(type)
   THEN <<<<"init", "key">>, <<"update", "key">>, <<"final", "key">>>> ELSE <<>>)
  \o <<<<"init", "inner">>, <<"update", "ipad">>>>

UpdateSteps == <<<<"update", "data">>>>

FinalSteps == <<<<"final", "digest">>, <<"init", "outer">>, <<"update", "opad">>,
                <<"update", "digest">>, <<"final", "mac">>>>

\* What an update callback is given: the pads are made of ctx->key.
Item(c, role) ==
  CASE role = "key"    -> <<"key", args[c].key>>
    [] role = "data"   -> <<"data", args[c].data>>
    [] role = "ipad"   -> <<"ipad", key[c], BlockSize(Type(c))>>
    [] role = "opad"   -> <<"opad", key[c], BlockSize(Type(c))>>
    [] role = "digest" -> out[c]
-----------------------------------------------------------------------------
Init ==
  /\ usage \in Usages
  /\ level \in {"MIN", "MAX"}
  /\ table \in [Contexts -> Tables]
  /\ hash = [t \in Tables |-> Unknown]
  /\ owner = [t \in Tables |-> "none"]
  /\ key = [c \in Contexts |-> Unset]
  /\ out = [c \in Contexts |-> Unset]
  /\ args = [c \in Contexts |-> NoArgs]
  /\ todo = [c \in Contexts |-> <<>>]
  /\ status = [c \in Contexts |-> "OK"]
  /\ calls = 0 /\ faults = 0
  /\ given = [c \in Contexts |-> "none"]
  /\ said = [c \in Contexts |-> <<>>]
  /\ phase = [c \in Contexts |-> "broken"]
  /\ wrote = [c \in Contexts |-> FALSE]

\* The user of c may call.
MayCall(c) ==
  /\ calls < usage.max_calls
  /\ todo[c] = <<>> /\ (usage.preemptive \/ \A d \in Contexts : todo[d] = <<>>)

\* A call on c begins: its argument checks have passed.
Call(c, steps) ==
  /\ MayCall(c)
  /\ calls' = calls + 1
  /\ todo' = [todo EXCEPT ![c] = steps]
  /\ status' = [status EXCEPT ![c] = "OK"]
  /\ wrote' = [wrote EXCEPT ![c] = FALSE]
  /\ UNCHANGED <<usage, level, table, hash, owner, out, faults>>

\* A call on c is refused by its argument checks.
Refuse(c, why) ==
  /\ MayCall(c)
  /\ calls' = calls + 1
  /\ status' = [status EXCEPT ![c] = why]
  /\ wrote' = [wrote EXCEPT ![c] = FALSE]
  /\ UNCHANGED <<usage, level, table, hash, owner, key, args, todo, faults, given, said>>

\* Fault: the key is copied whenever it fits the largest block.
KeyedUpToMaxBlock(c, k) ==
  /\ key' = [key EXCEPT ![c] = IF KeyLen[k] > 128 THEN <<"zero">> ELSE <<"key", k>>]
  /\ given' = [given EXCEPT ![c] = k]
  /\ said' = [said EXCEPT ![c] = <<>>]
  /\ phase' = [phase EXCEPT ![c] = "opening"]

\* ctx->key receives a short key at once, a long one from the hash.
Keyed(c, k) ==
  /\ key' = [key EXCEPT ![c] = IF KeyLen[k] > BlockSize(Type(c)) THEN <<"zero">> ELSE <<"key", k>>]
  /\ given' = [given EXCEPT ![c] = k]
  /\ said' = [said EXCEPT ![c] = <<>>]
  /\ phase' = [phase EXCEPT ![c] = "opening"]

HmacInit(c, k) ==
  /\ Call(c, InitSteps(Type(c), k))
  /\ Keyed(c, k)
  /\ args' = [args EXCEPT ![c] = [key |-> k, data |-> "none"]]

HmacUpdate(c, d) ==
  /\ Call(c, UpdateSteps)
  /\ args' = [args EXCEPT ![c].data = d]
  /\ phase' = [phase EXCEPT ![c] = IF @ = "open" THEN "open" ELSE "broken"]
  /\ UNCHANGED <<key, given, said>>

\* No data is an error of the caller, but the exchange goes on.
HmacUpdateEmpty(c) ==
  /\ Refuse(c, "INCORRECT_FUNCTION_PARAM")
  /\ UNCHANGED <<out, phase>>

HmacFinal(c) ==
  /\ Call(c, FinalSteps)
  /\ phase' = [phase EXCEPT ![c] = IF @ = "open" THEN "open" ELSE "broken"]
  /\ UNCHANGED <<key, args, given, said>>

(***************************************************************************)
(* final with a NULL context: the exit code of the MAX level wipes out     *)
(* with a hash_size the jump left uninitialized, so it wipes it or not.    *)
(***************************************************************************)
HmacFinalNull(c) ==
  /\ Refuse(c, "NULL_PTR")
  /\ out' \in {out} \cup (IF level = "MAX" THEN {[out EXCEPT ![c] = Wiped]} ELSE {})
  /\ phase' = [phase EXCEPT ![c] = IF @ = "done" THEN "broken" ELSE @]

(***************************************************************************)
(* The one-shot function makes the three calls in a row; without data it   *)
(* stops at update, after init has run.                                    *)
(***************************************************************************)
HmacOneShot(c, k, d) ==
  /\ Call(c, InitSteps(Type(c), k) \o UpdateSteps \o FinalSteps)
  /\ Keyed(c, k)
  /\ args' = [args EXCEPT ![c] = [key |-> k, data |-> d]]

HmacOneShotEmpty(c, k) ==
  /\ Call(c, InitSteps(Type(c), k) \o <<<<"refuse", "data">>>>)
  /\ Keyed(c, k)
  /\ args' = [args EXCEPT ![c] = [key |-> k, data |-> "none"]]
-----------------------------------------------------------------------------
\* Whether c runs callback f next.
Runs(c, f) == todo[c] # <<>> /\ Head(todo[c])[1] = f

Role(c) == Head(todo[c])[2]

(***************************************************************************)
(* The others of c's table lose what they had in its hash_ctx, c's own     *)
(* exchange goes from p on.  One that has its MAC keeps it.                *)
(***************************************************************************)
Disturb(c, p) ==
  phase' = [d \in Contexts |->
              IF d = c THEN p
              ELSE IF table[d] = table[c] /\ phase[d] # "done" THEN "broken"
              ELSE phase[d]]

Proceed(c) ==
  /\ todo' = [todo EXCEPT ![c] = Tail(@)]
  /\ args' = IF Len(todo[c]) = 1 THEN [args EXCEPT ![c] = NoArgs] ELSE args
  /\ UNCHANGED <<usage, level, table, status, calls, faults, given>>

\* The hash_ctx of c's table takes one more item of c.
Absorb(c, item) ==
  /\ hash' = [hash EXCEPT ![table[c]] =
                IF owner[table[c]] = c /\ @ # Unknown THEN Append(@, item) ELSE Unknown]
  /\ UNCHANGED owner

HashInit(c) ==
  /\ Runs(c, "init")
  /\ hash' = [hash EXCEPT ![table[c]] = <<>>]
  /\ owner' = [owner EXCEPT ![table[c]] = c]
  /\ Disturb(c, phase[c])
  /\ Proceed(c)
  /\ UNCHANGED <<key, out, said, wrote>>

HashUpdate(c) ==
  /\ Runs(c, "update")
  /\ Absorb(c, Item(c, Role(c)))
  /\ said' = IF Role(c) = "data" THEN [said EXCEPT ![c] = Append(@, Item(c, "data"))] ELSE said
  /\ Disturb(c, IF Role(c) = "ipad" /\ phase[c] = "opening" THEN "open" ELSE phase[c])
  /\ Proceed(c)
  /\ UNCHANGED <<key, out, wrote>>

\* Fault: final keeps the inner digest in ctx->key.
HashFinalDropsInner(c) ==
  /\ Runs(c, "final")
  /\ LET digest == Digest(Type(c), hash[table[c]])
     IN  IF Role(c) \in {"key", "digest"}
         THEN key' = [key EXCEPT ![c] = digest] /\ UNCHANGED out
         ELSE out' = [out EXCEPT ![c] = digest] /\ UNCHANGED key
  /\ Absorb(c, <<"padding">>)
  /\ Disturb(c, IF Role(c) = "mac" /\ phase[c] = "open" THEN "done" ELSE phase[c])
  /\ wrote' = [wrote EXCEPT ![c] = @ \/ Role(c) # "key"]
  /\ Proceed(c)
  /\ UNCHANGED said

HashFinal(c) ==
  /\ Runs(c, "final")
  /\ LET digest == Digest(Type(c), hash[table[c]])
     IN  IF Role(c) = "key"
         THEN key' = [key EXCEPT ![c] = digest] /\ UNCHANGED out
         ELSE out' = [out EXCEPT ![c] = digest] /\ UNCHANGED key
  /\ Absorb(c, <<"padding">>)
  /\ Disturb(c, IF Role(c) = "mac" /\ phase[c] = "open" THEN "done" ELSE phase[c])
  /\ wrote' = [wrote EXCEPT ![c] = @ \/ Role(c) # "key"]
  /\ Proceed(c)
  /\ UNCHANGED said

\* Whether the rest of c's call is inside final.
InFinal(c) == Len(todo[c]) <= Len(FinalSteps) /\ todo[c][Len(todo[c])] = <<"final", "mac">>

\* Fault: final returns on an error without reaching its exit code.
WipeNothing(c) == UNCHANGED out

\* final's exit code, which the MAX level compiles in.
WipeOut(c) ==
  IF level = "MAX" /\ InFinal(c)
  THEN out' = [out EXCEPT ![c] = Wiped]
  ELSE UNCHANGED out

(***************************************************************************)
(* A callback fails: MBCRYPT_CHECK_RES leaves the function, and the        *)
(* one-shot function after it.  The hash_ctx is left as it was or unknown. *)
(***************************************************************************)
CallbackFails(c) ==
  /\ todo[c] # <<>> /\ Head(todo[c])[1] # "refuse" /\ faults < usage.max_faults
  /\ faults' = faults + 1
  /\ todo' = [todo EXCEPT ![c] = <<>>]
  /\ args' = [args EXCEPT ![c] = NoArgs]
  /\ status' = [status EXCEPT ![c] = "FAIL"]
  /\ hash' \in {hash, [hash EXCEPT ![table[c]] = Unknown]}
  /\ WipeOut(c)
  /\ Disturb(c, "broken")
  /\ UNCHANGED <<usage, level, table, owner, key, calls, given, said, wrote>>

\* The one-shot function's update refuses to run without data.
UpdateRefused(c) ==
  /\ Runs(c, "refuse")
  /\ todo' = [todo EXCEPT ![c] = <<>>]
  /\ args' = [args EXCEPT ![c] = NoArgs]
  /\ status' = [status EXCEPT ![c] = "INCORRECT_FUNCTION_PARAM"]
  /\ UNCHANGED <<usage, level, table, hash, owner, key, out, calls, faults, given, said, phase, wrote>>

Next == \E c \in Contexts :
  \/ \E k \in usage.keys : HmacInit(c, k) \/ HmacOneShotEmpty(c, k)
  \/ \E d \in Chunks : HmacUpdate(c, d) \/ \E k \in usage.keys : HmacOneShot(c, k, d)
  \/ HmacUpdateEmpty(c)
  \/ HmacFinal(c)
  \/ HmacFinalNull(c)
  \/ HashInit(c)
  \/ HashUpdate(c)
  \/ HashFinal(c)
  \/ CallbackFails(c)
  \/ UpdateRefused(c)

Spec == Init /\ [][Next]_vars
-----------------------------------------------------------------------------
Step == {"init", "update", "final", "refuse"}
          \X {"key", "inner", "ipad", "data", "digest", "outer", "opad", "mac"}

TypeOK ==
  /\ usage \in Usages
  /\ level \in {"MIN", "MAX"}
  /\ table \in [Contexts -> Tables]
  /\ DOMAIN hash = Tables /\ DOMAIN key = Contexts /\ DOMAIN out = Contexts
  /\ \A c \in Contexts, k \in Keys :
       key[c] = <<"key", k>> => KeyLen[k] <= HashBlock(Type(c))
  /\ args \in [Contexts -> [key : Keys \cup {"none"}, data : Chunks \cup {"none"}]]
  /\ \A c \in Contexts : \A i \in 1..Len(todo[c]) : todo[c][i] \in Step
  /\ status \in [Contexts -> {"OK", "FAIL", "NULL_PTR", "INCORRECT_FUNCTION_PARAM"}]
  /\ calls \in 0..usage.max_calls /\ faults \in 0..usage.max_faults
  /\ given \in [Contexts -> Keys \cup {"none"}]
  /\ phase \in [Contexts -> {"opening", "open", "done", "broken"}]

(***************************************************************************)
(* The digest final returns is the HMAC of the key of the last init and of *)
(* all the data since (hmac.c:46-212): for keys at and beyond the block,   *)
(* over refused updates, and while other contexts run, as long as none of  *)
(* them uses the same callbacks table before final returns.                *)
(***************************************************************************)
MacIsCorrect ==
  \A c \in Contexts : phase[c] = "done" => out[c] = Mac(Type(c), given[c], said[c])

\* The key of an exchange, with the hash it is for.
KeyedMac(typed, data) == Mac(typed[1], typed[2], data)

Private == INSTANCE MacFunction WITH
  Mac   <- KeyedMac,
  phase <- [c \in Contexts |-> IF phase[c] \in {"open", "done"} THEN phase[c] ELSE "void"],
  key   <- [c \in Contexts |-> <<Type(c), given[c]>>],
  data  <- said,
  mac   <- out

(***************************************************************************)
(* The context of each user behaves as a keyed hash of its own, although   *)
(* the running hashes are shared: no call on one context, wherever it is   *)
(* interleaved or fails, makes an exchange of another one lose or gain     *)
(* data, change its key or lose its MAC unless the exchange is void        *)
(* (hmac.c:46-240).                                                        *)
(***************************************************************************)
ImplementsMac == Private!Spec

(***************************************************************************)
(* At the MAX level a call that failed has left no digest behind: the      *)
(* inner digest that final keeps in out while it runs is overwritten,      *)
(* wherever the failure was (hmac.c:193-209).                              *)
(***************************************************************************)
FailedMacIsWiped ==
  \A c \in Contexts :
    level = "MAX" /\ todo[c] = <<>> /\ status[c] # "OK" /\ wrote[c] => out[c] = Wiped
=============================================================================
