---------------------------- MODULE CredentialStore ----------------------------
(***************************************************************************)
(* credentials/src/store.ts: credentials in one JSON file, their secrets   *)
(* encrypted under one key, which is MCP_CREDS_KEY or else a second file.  *)
(*                                                                         *)
(* The operations are synchronous, so nothing comes between their steps    *)
(* but the end of the process.  A call computes the writes it makes, and   *)
(* these are then done one after the other; a process that ends during a   *)
(* write leaves the file as it was, or cut short.  A store cut short does  *)
(* not parse, and is then read as an empty one.                            *)
(*                                                                         *)
(* Keys are numbered as they are drawn.  The encryption is not             *)
(* authenticated: decrypting under another key throws, or, if the padding  *)
(* happens to fit, yields garbage.                                         *)
(***************************************************************************)
EXTENDS Naturals, Sequences

CONSTANTS
  Ids,       \* credential ids
  None,      \* no entry
  Plain,     \* an entry without secrets
  Absent,    \* there is no key file
  Torn,      \* a key file cut short
  MaxKeys,   \* bound: keys drawn
  MaxCrashes \* bound: ends of the process

EnvKey  == 0
Keys    == EnvKey .. MaxKeys

ASSUME CredentialAssumption ==
  /\ MaxKeys \in Nat /\ MaxCrashes \in Nat
  /\ None \notin Keys /\ Plain \notin Keys /\ None # Plain
  /\ Absent \notin Keys /\ Torn \notin Keys /\ Absent # Torn

VARIABLES
  env,     \* the process has MCP_CREDS_KEY
  keyFile, \* CREDS_KEY_PATH
  store,   \* CREDS_STORE_PATH: the key of each entry, and the entries whose
           \* secrets are not what was put in
  lastKey, \* keys drawn so far
  call,    \* the operation under way
  arg,     \* the credential it is about
  due,     \* the writes it has still to make
  acked,   \* credentials whose add succeeded, and that nobody removed
  mishaps, \* what happened to the process and its key
  crashes

vars == <<env, keyFile, store, lastKey, call, arg, due, acked, mishaps, crashes>>

Calls    == {"add", "get", "remove", "rotate"}
Mishaps  == Calls \union {"env changed", "rotated under env"}
Contents == [sealed : [Ids -> Keys \union {None, Plain}], spoiled : SUBSET Ids]
Writes   == [file : {"key"}, key : Keys] \union [file : {"store"}, store : Contents]
Empty    == [sealed |-> [i \in Ids |-> None], spoiled |-> {}]

TypeOK ==
  /\ env \in BOOLEAN
  /\ keyFile \in Keys \union {Absent, Torn}
  /\ store \in Contents
  /\ lastKey \in Keys
  /\ call \in Calls \union {"none"}
  /\ arg \in Ids \union {None}
  /\ due \in Seq(Writes) /\ Len(due) <= 3
  /\ acked \in SUBSET Ids
  /\ mishaps \in SUBSET Mishaps
  /\ crashes \in 0 .. MaxCrashes

Init ==
  /\ env \in BOOLEAN
  /\ keyFile = Absent /\ store = Empty /\ lastKey = EnvKey
  /\ call = "none" /\ arg = None /\ due = << >>
  /\ acked = {} /\ mishaps = {} /\ crashes = 0

-----------------------------------------------------------------------------
(***************************************************************************)
(* The code's helpers.                                                     *)
(***************************************************************************)

\* Entries that hold secrets.
Secrets == {i \in Ids : store.sealed[i] \in Keys}

\* getCredsKey(): a missing key file is written with a fresh key.
KeyMissing == ~env /\ keyFile = Absent
GetCredsKey == IF env THEN EnvKey ELSE IF KeyMissing THEN lastKey + 1 ELSE keyFile
KeyWrite(k) == [file |-> "key", key |-> k]
NewKeyFile_Mutant == << >>
NewKeyFile == IF KeyMissing THEN <<KeyWrite(GetCredsKey)>> ELSE << >>
KeysDrawn  == IF KeyMissing THEN lastKey + 1 ELSE lastKey

\* saveCredsStore().
StoreWrite(sealed, spoiled) == [file |-> "store", store |-> [sealed |-> sealed, spoiled |-> spoiled]]

Idle == call = "none"

\* An operation with writes W; one without writes has returned or thrown.
Run(op, i, W) ==
  /\ Idle /\ W # << >>
  /\ call' = op /\ arg' = i /\ due' = W
  /\ UNCHANGED <<env, keyFile, store, crashes>>

-----------------------------------------------------------------------------
(***************************************************************************)
(* The operations.                                                         *)
(***************************************************************************)

WithEntry(i, slot) == [store.sealed EXCEPT ![i] = slot]

\* addCredential() of one without and of one with a secret.
AddPlain(i) ==
  /\ store.sealed[i] = None
  /\ Run("add", i, <<StoreWrite(WithEntry(i, Plain), store.spoiled \ {i})>>)
  /\ UNCHANGED <<lastKey, acked, mishaps>>

AddSecret(i) ==
  /\ store.sealed[i] = None
  /\ GetCredsKey # Torn /\ KeysDrawn <= MaxKeys
  /\ Run("add", i, NewKeyFile \o
                   <<StoreWrite(WithEntry(i, GetCredsKey), store.spoiled \ {i})>>)
  /\ lastKey' = KeysDrawn
  /\ UNCHANGED <<acked, mishaps>>

\* getCredential() changes nothing but a key file that is missing.
Get(i) ==
  /\ i \in Secrets /\ KeysDrawn <= MaxKeys
  /\ Run("get", i, NewKeyFile)
  /\ lastKey' = KeysDrawn
  /\ UNCHANGED <<acked, mishaps>>

Remove(i) ==
  /\ store.sealed[i] # None
  /\ Run("remove", i, <<StoreWrite(WithEntry(i, None), store.spoiled \ {i})>>)
  /\ acked' = acked \ {i}
  /\ UNCHANGED <<lastKey, mishaps>>

\* rotateKey(): all secrets under the new key.  Those of another key than the
\* present one are garbage from here on, if their padding fits at all.
Reseal_Mutant(k) == store.sealed
Reseal(k) == [i \in Ids |-> IF i \in Secrets THEN k ELSE store.sealed[i]]
Foreign == {i \in Secrets : store.sealed[i] # GetCredsKey}

Rotate ==
  /\ GetCredsKey # Torn \/ Secrets = {}
  /\ KeysDrawn < MaxKeys
  /\ Run("rotate", None,
         NewKeyFile \o <<KeyWrite(KeysDrawn + 1),
                         StoreWrite(Reseal(KeysDrawn + 1), store.spoiled \union Foreign)>>)
  /\ lastKey' = KeysDrawn + 1
  /\ mishaps' = IF env THEN mishaps \union {"rotated under env"} ELSE mishaps
  /\ UNCHANGED acked

\* A secret does not decrypt: nothing but a missing key file is written.
RotateThrows ==
  /\ Foreign # {} /\ KeysDrawn <= MaxKeys
  /\ Run("rotate", None, NewKeyFile)
  /\ lastKey' = KeysDrawn
  /\ UNCHANGED <<acked, mishaps>>

-----------------------------------------------------------------------------
(***************************************************************************)
(* The disk, and the end of the process.                                   *)
(***************************************************************************)

\* The next write is made; the last one ends the call.
Write ==
  /\ due # << >>
  /\ keyFile' = IF Head(due).file = "key" THEN Head(due).key ELSE keyFile
  /\ store' = IF Head(due).file = "store" THEN Head(due).store ELSE store
  /\ due' = Tail(due)
  /\ IF Len(due) > 1
       THEN UNCHANGED <<call, arg, acked>>
       ELSE /\ call' = "none" /\ arg' = None
            /\ acked' = IF call = "add" THEN acked \union {arg} ELSE acked
  /\ UNCHANGED <<env, lastKey, mishaps, crashes>>

\* writeFileSync() truncates the file before it writes.
CutWrite ==
  \/ UNCHANGED <<keyFile, store>>
  \/ due # << >> /\ Head(due).file = "key" /\ keyFile' = Torn /\ UNCHANGED store
  \/ due # << >> /\ Head(due).file = "store" /\ store' = Empty /\ UNCHANGED keyFile

Restart ==
  /\ crashes < MaxCrashes /\ crashes' = crashes + 1
  /\ CutWrite
  /\ env' \in BOOLEAN
  /\ mishaps' = mishaps \union (IF Idle THEN {} ELSE {call})
                        \union (IF env' = env THEN {} ELSE {"env changed"})
  /\ call' = "none" /\ arg' = None /\ due' = << >>
  /\ UNCHANGED <<lastKey, acked>>

Next ==
  \/ Write \/ Restart \/ Rotate \/ RotateThrows
  \/ \E i \in Ids : AddPlain(i) \/ AddSecret(i) \/ Get(i) \/ Remove(i)

Spec == Init /\ [][Next]_vars

-----------------------------------------------------------------------------
(***************************************************************************)
(* Properties.                                                             *)
(***************************************************************************)

Decrypts(i) == store.sealed[i] = GetCredsKey /\ i \notin store.spoiled

\* Every credential whose add succeeded can be read back as it was put in, after
\* any number of rotations and of restarts between calls, as long as no call was
\* cut short, MCP_CREDS_KEY stays as it is and no rotation runs under it.
AckedIntact ==
  (Idle /\ mishaps = {}) =>
    \A i \in acked : store.sealed[i] = Plain \/ Decrypts(i)

\* What is in the store decrypts, even if adds, gets and removals were cut short
\* between or within their writes: they may empty the store, but never leave a
\* secret behind that the present key does not open.
SecretsDecrypt ==
  (Idle /\ mishaps \subseteq {"add", "get", "remove"}) => \A i \in Secrets : Decrypts(i)

\* A rotation re-encrypts all stored credentials under the key used from then on.
RotationReencrypts ==
  (Idle /\ mishaps \subseteq {"rotated under env"}) => \A i \in Secrets : Decrypts(i)
=============================================================================
