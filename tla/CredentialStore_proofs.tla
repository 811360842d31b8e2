------------------------ MODULE CredentialStore_proofs ------------------------
(***************************************************************************)
(* Theorems of CredentialStore, for any credentials, and any number of     *)
(* keys and ends of the process.                                           *)
(***************************************************************************)
EXTENDS CredentialStore, SequenceTheorems, TLAPS

-----------------------------------------------------------------------------
(***************************************************************************)
(* The inductive invariant: as long as no rotation was cut short, the two  *)
(* files agree, and the writes that are due will leave them in agreement.  *)
(***************************************************************************)

\* A key file kf and a store st that go together, under an environment e: its
\* secrets are of the key in use, and are what was put in.
KeyInUse(e, kf) == IF e THEN EnvKey ELSE kf
Agree(e, kf, st) ==
  \A i \in Ids : st.sealed[i] \in Keys => st.sealed[i] = KeyInUse(e, kf) /\ i \notin st.spoiled

\* What an acknowledged credential needs in a store.
Holds(st) == \A i \in acked : st.sealed[i] # None

StoreOf(st) == [file |-> "store", store |-> st]

\* The last write of a call; it holds what the call acknowledges.
Finish(kf, st) ==
  /\ st \in Contents /\ Agree(env, kf, st)
  /\ mishaps = {} => Holds(st) /\ (call = "add" => st.sealed[arg] # None)

\* What can be due.  Only a rotation replaces a key; the others write the first.
NothingDue == due = << >> /\ call = "none"
StoreDue ==
  /\ call # "none"
  /\ \E st \in Contents : due = <<StoreOf(st)>> /\ Finish(keyFile, st)
KeyDue ==
  /\ call # "none" /\ ~env /\ (call # "rotate" => keyFile = Absent)
  /\ \E k \in Keys, st \in Contents : due = <<KeyWrite(k), StoreOf(st)>> /\ Finish(k, st)
TwoKeysDue ==
  /\ call = "rotate" /\ ~env
  /\ \E k0, k \in Keys, st \in Contents :
       due = <<KeyWrite(k0), KeyWrite(k), StoreOf(st)>> /\ Finish(k, st)

DueAgrees == NothingDue \/ StoreDue \/ KeyDue \/ TwoKeysDue

Files ==
  /\ keyFile \in Keys \union {Absent, Torn}
  /\ store \in Contents
  /\ lastKey \in Keys
  /\ acked \in SUBSET Ids
  /\ call \in Calls \union {"none"}
  /\ arg \in Ids \union {None}
  /\ call = "add" => arg \in Ids

Good ==
  /\ Files
  /\ DueAgrees
  /\ call # "rotate" => Agree(env, keyFile, store)
  /\ mishaps = {} => Holds(store)

Harmless == mishaps \subseteq {"add", "get", "remove"}

Inv == Harmless => Good

-----------------------------------------------------------------------------
(***************************************************************************)
(* Sequences of writes, keys and stores.                                   *)
(***************************************************************************)

LEMMA ConcatThree == ASSUME NEW a, NEW b, NEW c PROVE <<c>> \o <<a, b>> = <<c, a, b>>
<1> DEFINE S == {a, b, c}
           s == <<c>> \o <<a, b>>
<1>1. <<c>> \in Seq(S) /\ <<a, b>> \in Seq(S) /\ <<c, a, b>> \in Seq(S)
  OBVIOUS
<1>2. Len(<<c>>) = 1 /\ Len(<<a, b>>) = 2 /\ Len(<<c, a, b>>) = 3
  OBVIOUS
<1>3. /\ s \in Seq(S) /\ Len(s) = 3
      /\ \A i \in 1 .. 3 : s[i] = IF i <= 1 THEN <<c>>[i] ELSE <<a, b>>[i - 1]
  BY <1>1, <1>2, ConcatProperties
<1>4. \A i \in 1 .. 3 : s[i] = <<c, a, b>>[i]
  BY <1>3
<1> HIDE DEF s
<1>5. \A i \in 1 .. Len(s) : s[i] = <<c, a, b>>[i]
  BY <1>3, <1>4
<1>6. s = <<c, a, b>>
  BY <1>1, <1>2, <1>3, <1>5, SeqEqual
<1> QED BY <1>6 DEF s

LEMMA ConcatOnes == ASSUME NEW a, NEW b PROVE <<a>> \o <<b>> = <<a, b>>
<1> DEFINE S == {a, b}
           s == <<a>> \o <<b>>
<1>1. <<a>> \in Seq(S) /\ <<b>> \in Seq(S) /\ <<a, b>> \in Seq(S)
  OBVIOUS
<1>2. Len(<<a>>) = 1 /\ Len(<<b>>) = 1 /\ Len(<<a, b>>) = 2
  OBVIOUS
<1>3. /\ s \in Seq(S) /\ Len(s) = 2
      /\ \A i \in 1 .. 2 : s[i] = IF i <= 1 THEN <<a>>[i] ELSE <<b>>[i - 1]
  BY <1>1, <1>2, ConcatProperties
<1>4. \A i \in 1 .. 2 : s[i] = <<a, b>>[i]
  BY <1>3
<1> HIDE DEF s
<1>5. \A i \in 1 .. Len(s) : s[i] = <<a, b>>[i]
  BY <1>3, <1>4
<1>6. s = <<a, b>>
  BY <1>1, <1>2, <1>3, <1>5, SeqEqual
<1> QED BY <1>6 DEF s

LEMMA ConcatNone ==
  ASSUME NEW a, NEW b
  PROVE  << >> \o <<a>> = <<a>> /\ << >> \o <<a, b>> = <<a, b>>
<1>1. <<a>> \in Seq({a, b}) /\ <<a, b>> \in Seq({a, b})
  OBVIOUS
<1> QED BY <1>1, ConcatEmptySeq

\* Taking the first of up to three writes.
LEMMA TakeFirst ==
  ASSUME NEW a, NEW b, NEW c
  PROVE  /\ Head(<<a>>) = a /\ Tail(<<a>>) = << >> /\ ~(Len(<<a>>) > 1)
         /\ Head(<<a, b>>) = a /\ Tail(<<a, b>>) = <<b>> /\ Len(<<a, b>>) > 1
         /\ Head(<<a, b, c>>) = a /\ Tail(<<a, b, c>>) = <<b, c>> /\ Len(<<a, b, c>>) > 1
<1>1. Head(<<a>>) = a /\ Tail(<<a>>) = << >> /\ ~(Len(<<a>>) > 1)
  OBVIOUS
<1>2. Head(<<a, b>>) = a /\ Tail(<<a, b>>) = <<b>> /\ Len(<<a, b>>) > 1
  OBVIOUS
<1>3. Head(<<a, b, c>>) = a /\ Tail(<<a, b, c>>) = <<b, c>> /\ Len(<<a, b, c>>) > 1
  OBVIOUS
<1> QED BY <1>1, <1>2, <1>3

LEMMA NotEmpty ==
  ASSUME NEW a, NEW b, NEW c
  PROVE  <<a>> # << >> /\ <<a, b>> # << >> /\ <<a, b, c>> # << >>
  OBVIOUS

\* The key a call uses, and what it writes first.
LEMMA CredsKey ==
  /\ KeyMissing <=> ~env /\ keyFile = Absent
  /\ KeyMissing => GetCredsKey = lastKey + 1 /\ NewKeyFile = <<KeyWrite(lastKey + 1)>>
                   /\ KeysDrawn = lastKey + 1
  /\ ~KeyMissing => /\ GetCredsKey = KeyInUse(env, keyFile) /\ NewKeyFile = << >>
                    /\ KeysDrawn = lastKey
<1>1. KeyMissing <=> ~env /\ keyFile = Absent
  BY Zenon DEF KeyMissing
<1>2. KeyMissing => GetCredsKey = lastKey + 1 /\ NewKeyFile = <<KeyWrite(lastKey + 1)>>
                    /\ KeysDrawn = lastKey + 1
  <2>1. KeyMissing => GetCredsKey = lastKey + 1
    BY <1>1, Zenon DEF GetCredsKey
  <2> QED BY <2>1, Zenon DEF NewKeyFile, KeysDrawn
<1>3. ~KeyMissing => /\ GetCredsKey = KeyInUse(env, keyFile) /\ NewKeyFile = << >>
                     /\ KeysDrawn = lastKey
  BY Zenon DEF GetCredsKey, NewKeyFile, KeyInUse, KeysDrawn
<1> QED BY <1>1, <1>2, <1>3, Zenon

\* Without a readable key there are no secrets.
LEMMA NoKeyNoSecrets ==
  ASSUME NEW e, ~e, NEW kf \in {Absent, Torn}, NEW st, Agree(e, kf, st), NEW i \in Ids
  PROVE  st.sealed[i] \notin Keys
<1>1. KeyInUse(e, kf) \in {Absent, Torn}
  BY Zenon DEF KeyInUse
<1>2. Absent \notin Keys /\ Torn \notin Keys
  BY CredentialAssumption
<1> QED BY <1>1, <1>2, Zenon DEF Agree

\* A store without secrets agrees with any key.
LEMMA NoSecretsAgree ==
  ASSUME NEW st, \A i \in Ids : st.sealed[i] \notin Keys, NEW e, NEW kf
  PROVE  Agree(e, kf, st)
  BY Zenon DEF Agree

LEMMA EntriesType ==
  ASSUME NEW st \in Contents, NEW i \in Ids
  PROVE  st.sealed[i] \in Keys \union {None, Plain}
  BY DEF Contents

LEMMA EmptyAgrees == Empty \in Contents /\ \A e, kf : Agree(e, kf, Empty)
<1>1. None \notin Keys
  BY CredentialAssumption
<1>2. Empty \in Contents /\ \A i \in Ids : Empty.sealed[i] = None
  BY DEF Empty, Contents
<1> QED BY <1>1, <1>2, Zenon DEF Agree

\* The store with one entry changed to a secret under the key in use, to an
\* entry without secrets, or to none.
LEMMA WithEntryAgrees ==
  ASSUME store \in Contents, NEW e, NEW kf, NEW i \in Ids, Agree(e, kf, store),
         NEW slot \in Keys \union {None, Plain}, slot \in Keys => slot = KeyInUse(e, kf),
         NEW st, st = [sealed |-> WithEntry(i, slot), spoiled |-> store.spoiled \ {i}]
  PROVE  /\ st \in Contents /\ Agree(e, kf, st) /\ st.sealed[i] = slot
         /\ \A j \in Ids : j # i => st.sealed[j] = store.sealed[j]
<1>1. /\ st.sealed = [store.sealed EXCEPT ![i] = slot] /\ st.spoiled = store.spoiled \ {i}
      /\ store.sealed \in [Ids -> Keys \union {None, Plain}] /\ store.spoiled \in SUBSET Ids
  BY DEF WithEntry, Contents
<1>2. st \in Contents
  BY <1>1 DEF Contents, WithEntry
<1>3. st.sealed[i] = slot /\ \A j \in Ids : j # i => st.sealed[j] = store.sealed[j]
  BY <1>1
<1>4. i \notin st.spoiled /\ \A j \in Ids : j \in st.spoiled => j \in store.spoiled
  BY <1>1
<1>5. Agree(e, kf, st)
  BY <1>3, <1>4, Zenon DEF Agree
<1> QED BY <1>2, <1>3, <1>5

-----------------------------------------------------------------------------
(***************************************************************************)
(* The calls.  While none is under way and no rotation was cut short, the  *)
(* files agree; a call leaves due what will make them agree again.         *)
(***************************************************************************)

LEMMA BeginCall ==
  ASSUME Good, NEW op \in Calls, NEW i \in Ids \union {None}, op = "add" => i \in Ids,
         NEW W, Run(op, i, W), lastKey' \in Keys,
         acked' \in SUBSET acked, mishaps' = {} => mishaps = {}, DueAgrees'
  PROVE  Good'
<1>1. /\ env' = env /\ keyFile' = keyFile /\ store' = store /\ call' = op /\ arg' = i
      /\ call = "none"
  BY Zenon DEF Run, Idle
<1>2. Files'
  BY <1>1, Zenon DEF Good, Files
<1>3. Agree(env, keyFile, store)
  BY <1>1 DEF Good
<1>4. Agree(env, keyFile, store)'
  BY <1>1, <1>3, Zenon
<1>5. mishaps = {} => Holds(store)
  BY DEF Good
<1>6. mishaps' = {} => Holds(store)'
  BY <1>1, <1>5, Zenon DEF Holds
<1> QED BY <1>2, <1>4, <1>6, Zenon DEF Good

\* While no call is under way the files agree, and the key is one to use.
LEMMA IdleKey ==
  ASSUME Good, Idle
  PROVE  /\ Agree(env, keyFile, store)
         /\ KeyMissing => ~env /\ keyFile = Absent /\ \A i \in Ids : store.sealed[i] \notin Keys
<1>1. Agree(env, keyFile, store)
  BY DEF Good, Idle
<1>2. ASSUME KeyMissing, NEW i \in Ids PROVE ~env /\ keyFile = Absent /\ store.sealed[i] \notin Keys
  <2>1. ~env /\ keyFile = Absent
    BY <1>2, CredsKey
  <2> QED BY <1>1, <2>1, NoKeyNoSecrets
<1>3. KeyMissing => ~env /\ keyFile = Absent
  BY CredsKey
<1> QED BY <1>1, <1>2, <1>3, Zenon

LEMMA KeyToUse ==
  ASSUME Good, GetCredsKey # Torn, KeysDrawn <= MaxKeys
  PROVE  GetCredsKey \in Keys /\ KeysDrawn \in Keys
<1>1. lastKey \in Keys /\ keyFile \in Keys \union {Absent, Torn}
  BY DEF Good, Files
<1>2. EnvKey \in Keys
  BY CredentialAssumption DEF Keys, EnvKey
<1>3. CASE KeyMissing
  <2>1. GetCredsKey = lastKey + 1 /\ KeysDrawn = lastKey + 1
    BY <1>3, CredsKey
  <2> QED BY <1>1, <2>1, CredentialAssumption DEF Keys, EnvKey
<1>4. CASE ~KeyMissing
  <2>1. GetCredsKey = KeyInUse(env, keyFile) /\ KeysDrawn = lastKey
    BY <1>4, CredsKey
  <2>2. ~env => keyFile # Absent
    BY <1>4, CredsKey
  <2>3. CASE env
    BY <1>1, <1>2, <2>1, <2>3, Zenon DEF KeyInUse
  <2>4. CASE ~env
    <3>1. GetCredsKey = keyFile
      BY <2>1, <2>4, Zenon DEF KeyInUse
    <3> QED BY <1>1, <2>1, <2>2, <2>4, <3>1
  <2> QED BY <2>3, <2>4
<1> QED BY <1>3, <1>4

\* A change of one entry keeps what is acknowledged.
LEMMA EntryHolds ==
  ASSUME Good, mishaps = {}, NEW i \in Ids, NEW st,
         \A j \in Ids : j # i => st.sealed[j] = store.sealed[j],
         acked' \in SUBSET acked, st.sealed[i] # None \/ i \notin acked'
  PROVE  \A j \in acked' : st.sealed[j] # None
<1>1. \A j \in acked : j \in Ids /\ store.sealed[j] # None
  BY DEF Good, Files, Holds
<1> QED BY <1>1

\* One store write is due that changes entry i under the present key.
LEMMA StoreIsDue ==
  ASSUME Good, NEW op \in Calls, NEW i \in Ids,
         NEW slot \in Keys \union {None, Plain},
         slot \in Keys => ~KeyMissing /\ slot = GetCredsKey,
         Run(op, i, <<StoreWrite(WithEntry(i, slot), store.spoiled \ {i})>>),
         op = "add" => slot # None, slot # None \/ i \notin acked',
         acked' \in SUBSET acked, mishaps' = mishaps
  PROVE  DueAgrees'
<1>4. PICK st : st = [sealed |-> WithEntry(i, slot), spoiled |-> store.spoiled \ {i}]
  OBVIOUS
<1>1. /\ env' = env /\ keyFile' = keyFile /\ call' = op /\ arg' = i
      /\ due' = <<StoreOf(st)>> /\ Idle
  BY <1>4, Zenon DEF Run, StoreWrite, StoreOf
<1>2. Agree(env, keyFile, store) /\ store \in Contents
  BY <1>1, IdleKey DEF Good, Files
<1>3. slot \in Keys => slot = KeyInUse(env, keyFile)
  BY CredsKey
<1>5. /\ st \in Contents /\ Agree(env, keyFile, st) /\ st.sealed[i] = slot
      /\ \A j \in Ids : j # i => st.sealed[j] = store.sealed[j]
  BY <1>2, <1>3, <1>4, WithEntryAgrees
<1>6. mishaps' = {} => \A j \in acked' : st.sealed[j] # None
  BY <1>5, EntryHolds
<1>7. Agree(env', keyFile', st)
  BY <1>1, <1>5, Zenon
<1>8. Finish(keyFile, st)'
  BY <1>1, <1>5, <1>6, <1>7, Zenon DEF Finish, Holds
<1>9. call' # "none"
  BY <1>1 DEF Calls
<1> QED BY <1>1, <1>5, <1>8, <1>9, Zenon DEF DueAgrees, StoreDue

LEMMA AddPlainKeeps == ASSUME Good, NEW i \in Ids, AddPlain(i) PROVE Good'
<1>1. Run("add", i, <<StoreWrite(WithEntry(i, Plain), store.spoiled \ {i})>>)
      /\ lastKey' = lastKey /\ acked' = acked /\ mishaps' = mishaps
  BY Zenon DEF AddPlain
<1>2. Plain \notin Keys /\ Plain # None
  BY CredentialAssumption
<1>3. DueAgrees'
  BY <1>1, <1>2, StoreIsDue DEF Calls
<1>4. lastKey \in Keys
  BY DEF Good, Files
<1> QED BY <1>1, <1>3, <1>4, BeginCall DEF Calls

LEMMA RemoveKeeps == ASSUME Good, NEW i \in Ids, Remove(i) PROVE Good'
<1>1. Run("remove", i, <<StoreWrite(WithEntry(i, None), store.spoiled \ {i})>>)
      /\ lastKey' = lastKey /\ acked' = acked \ {i} /\ mishaps' = mishaps
  BY Zenon DEF Remove
<1>2. None \notin Keys
  BY CredentialAssumption
<1>3. DueAgrees'
  BY <1>1, <1>2, StoreIsDue DEF Calls
<1>4. lastKey \in Keys
  BY DEF Good, Files
<1> QED BY <1>1, <1>3, <1>4, BeginCall DEF Calls

LEMMA AddSecretKeeps == ASSUME Good, NEW i \in Ids, AddSecret(i) PROVE Good'
<1>6. PICK k : k = GetCredsKey
  OBVIOUS
<1>7. PICK st : st = [sealed |-> WithEntry(i, k), spoiled |-> store.spoiled \ {i}]
  OBVIOUS
<1>1. /\ Run("add", i, NewKeyFile \o <<StoreOf(st)>>)
      /\ lastKey' = KeysDrawn /\ acked' = acked /\ mishaps' = mishaps
      /\ k # Torn /\ KeysDrawn <= MaxKeys /\ Idle
  BY <1>6, <1>7, Zenon DEF AddSecret, StoreWrite, StoreOf, Run
<1>2. k \in Keys /\ lastKey' \in Keys /\ k # None
  BY <1>1, <1>6, KeyToUse, CredentialAssumption
<1>3. ASSUME ~KeyMissing PROVE DueAgrees'
  <2>1. NewKeyFile \o <<StoreOf(st)>> = <<StoreOf(st)>>
    BY <1>3, CredsKey, ConcatNone
  <2>2. Run("add", i, <<StoreWrite(WithEntry(i, k), store.spoiled \ {i})>>)
    BY <1>1, <1>7, <2>1, Zenon DEF StoreWrite, StoreOf
  <2> QED BY <1>1, <1>2, <1>3, <1>6, <2>2, StoreIsDue DEF Calls
<1>4. ASSUME KeyMissing PROVE DueAgrees'
  <2>1. ~env /\ keyFile = Absent /\ \A j \in Ids : store.sealed[j] \notin Keys
    BY <1>1, <1>4, IdleKey
  <2>2. NewKeyFile = <<KeyWrite(k)>>
    BY <1>4, <1>6, CredsKey
  <2>3. Agree(env, k, store) /\ store \in Contents
    BY <2>1, NoSecretsAgree DEF Good, Files
  <2>4. k = KeyInUse(env, k)
    BY <2>1, Zenon DEF KeyInUse
  <2>6. /\ env' = env /\ keyFile' = keyFile /\ call' = "add" /\ arg' = i
        /\ due' = NewKeyFile \o <<StoreOf(st)>>
    BY <1>1, Zenon DEF Run
  <2>7. due' = <<KeyWrite(k), StoreOf(st)>>
    BY <2>2, <2>6, ConcatOnes
  <2>8. /\ st \in Contents /\ Agree(env, k, st) /\ st.sealed[i] = k
        /\ \A j \in Ids : j # i => st.sealed[j] = store.sealed[j]
    BY <1>2, <1>7, <2>3, <2>4, WithEntryAgrees
  <2>9. mishaps' = {} => \A j \in acked' : st.sealed[j] # None
    BY <1>1, <1>2, <2>8, EntryHolds
  <2>10. Agree(env', k, st)
    BY <2>6, <2>8, Zenon
  <2>11. Finish(k, st)'
    BY <1>2, <2>6, <2>8, <2>9, <2>10, Zenon DEF Finish, Holds
  <2>12. call' # "none" /\ ~env' /\ keyFile' = Absent
    BY <2>1, <2>6
  <2> QED BY <1>2, <2>7, <2>8, <2>11, <2>12, Zenon DEF DueAgrees, KeyDue
<1>5. DueAgrees'
  BY <1>3, <1>4
<1> QED BY <1>1, <1>2, <1>5, BeginCall DEF Calls

\* While no rotation was cut short every secret is of the key in use, and there
\* are none without a key: nothing draws a key but the first secret, or a rotation.
LEMMA NothingForeign ==
  ASSUME Good, Idle
  PROVE  /\ Foreign = {}
         /\ \A i \in Secrets : NewKeyFile = << >>
<1>1. Agree(env, keyFile, store)
  BY IdleKey
<1>2. ASSUME NEW i \in Secrets
      PROVE  ~KeyMissing /\ store.sealed[i] = GetCredsKey /\ i \notin store.spoiled
  <2>1. i \in Ids /\ store.sealed[i] \in Keys
    BY DEF Secrets
  <2>2. ~KeyMissing
    BY <2>1, IdleKey
  <2>3. GetCredsKey = KeyInUse(env, keyFile)
    BY <2>2, CredsKey
  <2> QED BY <1>1, <2>1, <2>2, <2>3, Zenon DEF Agree
<1>3. Foreign = {}
  BY <1>2 DEF Foreign
<1>4. \A i \in Secrets : NewKeyFile = << >>
  BY <1>2, CredsKey
<1> QED BY <1>3, <1>4

LEMMA GetKeeps == ASSUME Good, NEW i \in Ids, Get(i) PROVE Good'
<1>1. i \in Secrets /\ Idle /\ NewKeyFile # << >>
  BY Zenon DEF Get, Run
<1> QED BY <1>1, NothingForeign, Zenon

LEMMA RotateThrowsKeeps == ASSUME Good, RotateThrows PROVE Good'
<1>1. Idle /\ Foreign # {}
  BY Zenon DEF RotateThrows, Run
<1> QED BY <1>1, NothingForeign, Zenon

LEMMA ResealAgrees ==
  ASSUME Good, Idle, ~env, NEW k \in Keys,
         NEW st, st = [sealed |-> Reseal(k), spoiled |-> store.spoiled \union Foreign]
  PROVE  /\ st \in Contents /\ Agree(env, k, st)
         /\ mishaps = {} => \A j \in acked : st.sealed[j] # None
<1>1. /\ st.sealed = [i \in Ids |-> IF i \in Secrets THEN k ELSE store.sealed[i]]
      /\ st.spoiled = store.spoiled
  BY NothingForeign DEF Reseal
<1>2. store \in Contents /\ Agree(env, keyFile, store)
  BY IdleKey DEF Good, Files
<1>3. \A i \in Ids : store.sealed[i] \in Keys \union {None, Plain}
  BY <1>2, EntriesType
<1>4. st \in Contents
  <2>1. Reseal(k) \in [Ids -> Keys \union {None, Plain}]
    BY <1>3, Zenon DEF Reseal
  <2>2. store.spoiled \union Foreign \in SUBSET Ids
    BY <1>2, NothingForeign DEF Contents
  <2> QED BY <2>1, <2>2 DEF Contents
<1>5. \A i \in Ids : st.sealed[i] = IF i \in Secrets THEN k ELSE store.sealed[i]
  BY <1>1
<1>6. KeyInUse(env, k) = k
  BY Zenon DEF KeyInUse
<1>7. Agree(env, k, st)
  <2> SUFFICES ASSUME NEW i \in Ids, st.sealed[i] \in Keys
               PROVE  st.sealed[i] = KeyInUse(env, k) /\ i \notin st.spoiled
    BY Zenon DEF Agree
  <2>1. i \in Secrets
    BY <1>5 DEF Secrets
  <2>2. store.sealed[i] \in Keys
    BY <2>1 DEF Secrets
  <2>3. i \notin store.spoiled
    BY <1>2, <2>2, Zenon DEF Agree
  <2> QED BY <1>1, <1>5, <1>6, <2>1, <2>3
<1>8. None \notin Keys
  BY CredentialAssumption
<1>9. ASSUME mishaps = {}, NEW j \in acked PROVE st.sealed[j] # None
  <2>1. j \in Ids /\ store.sealed[j] # None
    BY <1>9 DEF Good, Files, Holds
  <2> QED BY <1>5, <1>8, <2>1
<1> QED BY <1>4, <1>7, <1>9

LEMMA RotateKeeps == ASSUME Good, Rotate, Harmless' PROVE Good'
<1>1. PICK k : k = KeysDrawn + 1
  OBVIOUS
<1>2. PICK st : st = [sealed |-> Reseal(k), spoiled |-> store.spoiled \union Foreign]
  OBVIOUS
<1>3. /\ Run("rotate", None, NewKeyFile \o <<KeyWrite(k), StoreOf(st)>>)
      /\ lastKey' = k /\ acked' = acked /\ KeysDrawn < MaxKeys /\ Idle
  BY <1>1, <1>2, Zenon DEF Rotate, StoreWrite, StoreOf, Run
<1>4. ~env /\ mishaps' = mishaps
  BY DEF Rotate, Harmless
<1>5. k \in Keys /\ KeysDrawn \in Keys
  <2>1. lastKey \in Keys /\ (KeysDrawn = lastKey \/ KeysDrawn = lastKey + 1)
    BY CredsKey DEF Good, Files
  <2> QED BY <1>1, <1>3, <2>1, CredentialAssumption DEF Keys, EnvKey
<1>6. /\ st \in Contents /\ Agree(env, k, st)
      /\ mishaps = {} => \A j \in acked : st.sealed[j] # None
  BY <1>2, <1>3, <1>4, <1>5, ResealAgrees
<1>7. /\ env' = env /\ keyFile' = keyFile /\ call' = "rotate"
      /\ due' = NewKeyFile \o <<KeyWrite(k), StoreOf(st)>>
  BY <1>3, Zenon DEF Run
<1>8. Agree(env', k, st)
  BY <1>6, <1>7, Zenon
<1>9. call' # "none" /\ call' # "add" /\ ~env'
  BY <1>4, <1>7
<1>10. Finish(k, st)'
  BY <1>3, <1>4, <1>6, <1>8, <1>9, Zenon DEF Finish, Holds
<1>11. CASE ~KeyMissing
  <2>1. due' = <<KeyWrite(k), StoreOf(st)>>
    BY <1>7, <1>11, CredsKey, ConcatNone
  <2>2. KeyDue'
    BY <1>5, <1>6, <1>7, <1>9, <1>10, <2>1, Zenon DEF KeyDue
  <2>3. DueAgrees'
    BY <2>2, Zenon DEF DueAgrees
  <2> QED BY <1>3, <1>4, <1>5, <2>3, BeginCall DEF Calls
<1>12. CASE KeyMissing
  <2>1. PICK k0 : k0 = lastKey + 1
    OBVIOUS
  <2>2. NewKeyFile = <<KeyWrite(k0)>> /\ k0 \in Keys
    BY <1>5, <1>12, <2>1, CredsKey
  <2>3. due' = <<KeyWrite(k0), KeyWrite(k), StoreOf(st)>>
    BY <1>7, <2>2, ConcatThree
  <2>4. TwoKeysDue'
    BY <1>5, <1>6, <1>7, <1>9, <1>10, <2>2, <2>3, Zenon DEF TwoKeysDue
  <2>5. DueAgrees'
    BY <2>4, Zenon DEF DueAgrees
  <2> QED BY <1>3, <1>4, <1>5, <2>5, BeginCall DEF Calls
<1> QED BY <1>11, <1>12

-----------------------------------------------------------------------------
(***************************************************************************)
(* Writes, and the end of the process.                                     *)
(***************************************************************************)

LEMMA WriteKinds ==
  ASSUME NEW k, NEW st
  PROVE  /\ KeyWrite(k).file = "key" /\ KeyWrite(k).key = k
         /\ StoreOf(st).file = "store" /\ StoreOf(st).store = st
  BY DEF KeyWrite, StoreOf

\* The last write ends the call and makes good what it acknowledges.
LEMMA LastWriteKeeps == ASSUME Good, StoreDue, Write PROVE Good'
<1>1. PICK st \in Contents : due = <<StoreOf(st)>> /\ Finish(keyFile, st)
  BY Zenon DEF StoreDue
<1>2. /\ Head(due).file = "store" /\ Head(due).store = st
      /\ Tail(due) = << >> /\ ~(Len(due) > 1)
  BY <1>1, TakeFirst, WriteKinds
<1>3. /\ store' = st /\ due' = << >> /\ call' = "none" /\ arg' = None /\ env' = env
      /\ lastKey' = lastKey /\ mishaps' = mishaps
      /\ acked' = IF call = "add" THEN acked \union {arg} ELSE acked
  BY <1>2, Zenon DEF Write
<1>4. keyFile' = keyFile
  BY <1>2 DEF Write
<1>5. Files'
  <2>1. acked' \in SUBSET Ids
    BY <1>3 DEF Good, Files
  <2>2. call' \in Calls \union {"none"} /\ arg' \in Ids \union {None} /\ call' # "add"
    BY <1>3
  <2> QED BY <1>1, <1>3, <1>4, <2>1, <2>2, Zenon DEF Good, Files
<1>6. Agree(env, keyFile, store)'
  BY <1>1, <1>3, <1>4, Zenon DEF Finish
<1>7. mishaps' = {} => Holds(store)'
  <2> SUFFICES ASSUME mishaps = {}, NEW j \in acked' PROVE st.sealed[j] # None
    BY <1>3, Zenon DEF Holds
  <2>1. j \in acked \/ (call = "add" /\ j = arg)
    BY <1>3
  <2> QED BY <1>1, <2>1, Zenon DEF Finish, Holds
<1>8. DueAgrees'
  BY <1>3, Zenon DEF DueAgrees, NothingDue
<1> QED BY <1>5, <1>6, <1>7, <1>8, Zenon DEF Good

\* A key is written: for the first secret, or within a rotation.
LEMMA KeyWriteKeeps == ASSUME Good, KeyDue \/ TwoKeysDue, Write PROVE Good'
<1>1. PICK k \in Keys : Head(due) = KeyWrite(k) /\ Len(due) > 1
                        /\ \/ /\ KeyDue
                              /\ \E st \in Contents : Tail(due) = <<StoreOf(st)>> /\ Finish(k, st)
                           \/ /\ TwoKeysDue
                              /\ \E k1 \in Keys, st \in Contents :
                                   Tail(due) = <<KeyWrite(k1), StoreOf(st)>> /\ Finish(k1, st)
  <2>1. CASE KeyDue
    <3>1. PICK k \in Keys, st \in Contents : due = <<KeyWrite(k), StoreOf(st)>> /\ Finish(k, st)
      BY <2>1, Zenon DEF KeyDue
    <3>2. Head(due) = KeyWrite(k) /\ Tail(due) = <<StoreOf(st)>> /\ Len(due) > 1
      BY <3>1, TakeFirst
    <3> QED BY <2>1, <3>1, <3>2
  <2>2. CASE TwoKeysDue
    <3>1. PICK k \in Keys, k1 \in Keys, st \in Contents :
            due = <<KeyWrite(k), KeyWrite(k1), StoreOf(st)>> /\ Finish(k1, st)
      BY <2>2, Zenon DEF TwoKeysDue
    <3>2. Head(due) = KeyWrite(k) /\ Tail(due) = <<KeyWrite(k1), StoreOf(st)>> /\ Len(due) > 1
      BY <3>1, TakeFirst
    <3> QED BY <2>2, <3>1, <3>2
  <2> QED BY <2>1, <2>2
<1>2. Head(due).file = "key" /\ Head(due).key = k
  BY <1>1, WriteKinds
<1>3. /\ keyFile' = k /\ due' = Tail(due) /\ call' = call /\ arg' = arg /\ env' = env
      /\ acked' = acked /\ lastKey' = lastKey /\ mishaps' = mishaps
  BY <1>1, <1>2, Zenon DEF Write
<1>4. store' = store
  BY <1>2 DEF Write
<1>5. Files'
  BY <1>1, <1>3, <1>4, Zenon DEF Good, Files
<1>6. mishaps' = {} => Holds(store)'
  BY <1>3, <1>4, Zenon DEF Good, Holds
<1>7. call' # "rotate" => Agree(env, keyFile, store)'
  <2> SUFFICES ASSUME call # "rotate" PROVE Agree(env, k, store)
    BY <1>3, <1>4, Zenon
  <2>1. ~env /\ keyFile = Absent /\ Agree(env, keyFile, store)
    BY <1>1, Zenon DEF KeyDue, TwoKeysDue, Good
  <2>2. \A i \in Ids : store.sealed[i] \notin Keys
    BY <2>1, NoKeyNoSecrets
  <2> QED BY <2>2, NoSecretsAgree
<1>8. CASE \E st \in Contents : Tail(due) = <<StoreOf(st)>> /\ Finish(k, st)
  <2>1. PICK st \in Contents : Tail(due) = <<StoreOf(st)>> /\ Finish(k, st)
    BY <1>8
  <2>2. Finish(keyFile, st)'
    BY <1>3, <2>1, Zenon DEF Finish, Holds
  <2>3. call' # "none"
    BY <1>1, <1>3 DEF KeyDue, TwoKeysDue
  <2>4. DueAgrees'
    BY <1>3, <2>1, <2>2, <2>3, Zenon DEF DueAgrees, StoreDue
  <2> QED BY <1>5, <1>6, <1>7, <2>4, Zenon DEF Good
<1>9. CASE TwoKeysDue /\ \E k1 \in Keys, st \in Contents :
                             Tail(due) = <<KeyWrite(k1), StoreOf(st)>> /\ Finish(k1, st)
  <2>1. PICK k1 \in Keys, st \in Contents :
          Tail(due) = <<KeyWrite(k1), StoreOf(st)>> /\ Finish(k1, st)
    BY <1>9
  <2>2. Finish(k1, st)'
    BY <1>3, <2>1, Zenon DEF Finish, Holds
  <2>3. call' # "none" /\ ~env' /\ call' = "rotate"
    BY <1>3, <1>9 DEF TwoKeysDue
  <2>4. KeyDue'
    BY <1>3, <2>1, <2>2, <2>3, Zenon DEF KeyDue
  <2>5. DueAgrees'
    BY <2>4, Zenon DEF DueAgrees
  <2> QED BY <1>5, <1>6, <1>7, <2>5, Zenon DEF Good
<1> QED BY <1>1, <1>8, <1>9, Zenon

LEMMA WriteKeeps == ASSUME Good, Write PROVE Good'
<1>1. ~NothingDue
  BY Zenon DEF Write, NothingDue
<1> QED BY <1>1, LastWriteKeeps, KeyWriteKeeps, Zenon DEF Good, DueAgrees

\* The process ends, maybe in the middle of a write, but not of a rotation.
LEMMA RestartKeeps == ASSUME Good, Restart, Harmless' PROVE Good'
<1>1. /\ CutWrite /\ call' = "none" /\ arg' = None /\ due' = << >>
      /\ lastKey' = lastKey /\ acked' = acked
      /\ mishaps' = mishaps \union (IF Idle THEN {} ELSE {call})
                            \union (IF env' = env THEN {} ELSE {"env changed"})
  BY Zenon DEF Restart
<1>2. env' = env
  BY <1>1 DEF Harmless
<1>3. call # "rotate"
  BY <1>1 DEF Harmless, Idle
<1>4. mishaps' = {} => mishaps = {} /\ Idle
  BY <1>1
<1>5. Idle => due = << >>
  BY NotEmpty DEF Good, Idle, DueAgrees, NothingDue, StoreDue, KeyDue, TwoKeysDue
<1>6. Agree(env, keyFile, store) /\ store \in Contents
  BY <1>3 DEF Good, Files
<1>7. /\ keyFile' \in Keys \union {Absent, Torn} /\ store' \in Contents
      /\ Agree(env, keyFile', store') /\ (Idle => store' = store)
  <2>1. CASE UNCHANGED <<keyFile, store>>
    BY <1>6, <2>1 DEF Good, Files
  <2>2. CASE due # << >> /\ Head(due).file = "key" /\ keyFile' = Torn /\ UNCHANGED store
    <3>1. ~NothingDue /\ ~TwoKeysDue
      BY <1>3, <2>2, Zenon DEF NothingDue, TwoKeysDue
    <3>2. ~StoreDue
      <4> SUFFICES ASSUME NEW st \in Contents, due = <<StoreOf(st)>> PROVE FALSE
        BY Zenon DEF StoreDue
      <4>1. Head(due).file = "store"
        BY TakeFirst, WriteKinds
      <4> QED BY <2>2, <4>1
    <3>3. ~env /\ keyFile = Absent
      BY <1>3, <3>1, <3>2, Zenon DEF Good, DueAgrees, KeyDue
    <3>4. \A i \in Ids : store.sealed[i] \notin Keys
      BY <1>6, <3>3, NoKeyNoSecrets
    <3>5. Agree(env, Torn, store)
      BY <3>4, NoSecretsAgree
    <3> QED BY <1>5, <1>6, <2>2, <3>5, Zenon
  <2>3. CASE due # << >> /\ Head(due).file = "store" /\ store' = Empty /\ UNCHANGED keyFile
    <3>1. keyFile \in Keys \union {Absent, Torn}
      BY DEF Good, Files
    <3>2. Empty \in Contents /\ Agree(env, keyFile, Empty)
      BY EmptyAgrees
    <3> QED BY <1>5, <2>3, <3>1, <3>2, Zenon
  <2> QED BY <1>1, <2>1, <2>2, <2>3, Zenon DEF CutWrite
<1>8. Files'
  <2>1. call' \in Calls \union {"none"} /\ arg' \in Ids \union {None} /\ call' # "add"
    BY <1>1
  <2> QED BY <1>1, <1>7, <2>1, Zenon DEF Good, Files
<1>9. Agree(env, keyFile, store)'
  BY <1>2, <1>7, Zenon
<1>10. mishaps' = {} => Holds(store)'
  BY <1>1, <1>4, <1>7, Zenon DEF Good, Holds
<1>11. DueAgrees'
  BY <1>1, Zenon DEF DueAgrees, NothingDue
<1> QED BY <1>8, <1>9, <1>10, <1>11, Zenon DEF Good

LEMMA StutterKeeps == ASSUME Good, UNCHANGED vars PROVE Good'
<1>1. /\ env' = env /\ keyFile' = keyFile /\ store' = store /\ lastKey' = lastKey
      /\ call' = call /\ arg' = arg /\ due' = due /\ acked' = acked /\ mishaps' = mishaps
  BY Zenon DEF vars
<1>2. Files' /\ (mishaps' = {} => Holds(store)')
      /\ (call' # "rotate" => Agree(env, keyFile, store)')
  BY <1>1, Zenon DEF Good, Files, Holds
<1>3. \A kf, st : Finish(kf, st) => Finish(kf, st)'
  BY <1>1, Zenon DEF Finish, Holds
<1>4. DueAgrees'
  <2>1. NothingDue => NothingDue'
    BY <1>1, Zenon DEF NothingDue
  <2>2. StoreDue => StoreDue'
    BY <1>1, <1>3, Zenon DEF StoreDue, Finish, Holds
  <2>3. KeyDue => KeyDue'
    BY <1>1, <1>3, Zenon DEF KeyDue
  <2>4. TwoKeysDue => TwoKeysDue'
    BY <1>1, <1>3, Zenon DEF TwoKeysDue
  <2> QED BY <2>1, <2>2, <2>3, <2>4, Zenon DEF Good, DueAgrees
<1> QED BY <1>2, <1>4, Zenon DEF Good

-----------------------------------------------------------------------------
(***************************************************************************)
(* The theorems.                                                           *)
(***************************************************************************)

LEMMA InvInit == Init => Inv
<1> SUFFICES ASSUME Init PROVE Good
  BY Zenon DEF Inv
<1>1. /\ keyFile = Absent /\ store = Empty /\ lastKey = EnvKey /\ call = "none"
      /\ arg = None /\ due = << >> /\ acked = {}
  BY Zenon DEF Init
<1>2. EnvKey \in Keys
  BY CredentialAssumption DEF EnvKey, Keys
<1>3. Files
  <2>1. call \in Calls \union {"none"} /\ arg \in Ids \union {None} /\ call # "add"
    BY <1>1
  <2> QED BY <1>1, <1>2, <2>1, EmptyAgrees, Zenon DEF Files
<1>4. Agree(env, keyFile, store) /\ Holds(store)
  BY <1>1, EmptyAgrees DEF Holds
<1>5. DueAgrees
  BY <1>1, Zenon DEF DueAgrees, NothingDue
<1> QED BY <1>3, <1>4, <1>5, Zenon DEF Good

LEMMA InvStep == Inv /\ [Next]_vars => Inv'
<1> SUFFICES ASSUME Inv, [Next]_vars, Harmless' PROVE Good'
  BY Zenon DEF Inv
<1>1. mishaps \subseteq mishaps'
  <2>1. Next => mishaps \subseteq mishaps'
    BY DEF Next, Write, Restart, Rotate, RotateThrows, AddPlain, AddSecret, Get, Remove
  <2>2. UNCHANGED vars => mishaps \subseteq mishaps'
    BY DEF vars
  <2> QED BY <2>1, <2>2
<1>2. Good
  <2>1. Harmless
    BY <1>1 DEF Harmless
  <2> QED BY <2>1, Zenon DEF Inv
<1>3. CASE Write
  BY <1>2, <1>3, WriteKeeps, Zenon
<1>4. CASE Restart
  BY <1>2, <1>4, RestartKeeps, Zenon
<1>5. CASE Rotate
  BY <1>2, <1>5, RotateKeeps, Zenon
<1>6. CASE RotateThrows
  BY <1>2, <1>6, RotateThrowsKeeps, Zenon
<1>7. CASE \E i \in Ids : AddPlain(i) \/ AddSecret(i) \/ Get(i) \/ Remove(i)
  BY <1>2, <1>7, AddPlainKeeps, AddSecretKeeps, GetKeeps, RemoveKeeps, Zenon
<1>8. CASE UNCHANGED vars
  BY <1>2, <1>8, StutterKeeps, Zenon
<1> QED BY <1>3, <1>4, <1>5, <1>6, <1>7, <1>8, Zenon DEF Next

\* As long as no rotation was cut short, no restart changed MCP_CREDS_KEY and no
\* rotation ran under it, the key file and the store agree between calls.
THEOREM InvHolds == Spec => []Inv
<1> QED BY InvInit, InvStep, PTL DEF Spec

\* Under the invariant, between calls, a stored secret is of the key that
\* getCredsKey() returns.
LEMMA IdleDecrypts ==
  ASSUME Good, Idle, NEW i \in Ids, store.sealed[i] \in Keys
  PROVE  Decrypts(i)
<1>1. Agree(env, keyFile, store)
  BY DEF Good, Idle
<1>2. store.sealed[i] = KeyInUse(env, keyFile) /\ i \notin store.spoiled
  BY <1>1 DEF Agree
<1>3. ~KeyMissing
  BY <1>2, CredentialAssumption DEF KeyInUse, KeyMissing
<1>4. GetCredsKey = KeyInUse(env, keyFile)
  BY <1>3, CredsKey, Zenon
<1> QED BY <1>2, <1>4, Zenon DEF Decrypts

\* Adds, gets and removals that are cut short, at any of their writes, never leave
\* a secret in the store that the present key does not open.
THEOREM SecretsDecryptHolds == Spec => []SecretsDecrypt
<1>1. Inv => SecretsDecrypt
  <2> SUFFICES ASSUME Inv, Idle, Harmless, NEW i \in Secrets PROVE Decrypts(i)
    BY Zenon DEF SecretsDecrypt, Harmless
  <2>1. Good
    BY Zenon DEF Inv
  <2>2. i \in Ids /\ store.sealed[i] \in Keys
    BY DEF Secrets
  <2> QED BY <2>1, <2>2, IdleDecrypts, Zenon
<1> QED BY <1>1, InvHolds, PTL

\* Every credential whose addCredential() succeeded can be read back as it was put
\* in, after any number of rotations and of restarts between calls.
THEOREM AckedIntactHolds == Spec => []AckedIntact
<1>1. Inv => AckedIntact
  <2> SUFFICES ASSUME Inv, Idle, mishaps = {}, NEW i \in acked
               PROVE  store.sealed[i] = Plain \/ Decrypts(i)
    BY Zenon DEF AckedIntact
  <2>1. Harmless
    BY DEF Harmless
  <2>2. Good
    BY <2>1, Zenon DEF Inv
  <2>3. i \in Ids /\ store.sealed[i] # None /\ store \in Contents
    BY <2>2 DEF Good, Files, Holds
  <2>4. store.sealed[i] \in Keys \union {None, Plain}
    BY <2>3, EntriesType
  <2>5. CASE store.sealed[i] \in Keys
    BY <2>2, <2>3, <2>5, IdleDecrypts, Zenon
  <2> QED BY <2>3, <2>4, <2>5
<1> QED BY <1>1, InvHolds, PTL

-----------------------------------------------------------------------------
(***************************************************************************)
(* Types, whatever happens to the process and its key.                     *)
(***************************************************************************)

Typed == TypeOK /\ (call = "add" => arg \in Ids)

\* The parts of TypeOK without truth values.
TypedFiles ==
  /\ keyFile \in Keys \union {Absent, Torn} /\ store \in Contents /\ lastKey \in Keys
  /\ acked \in SUBSET Ids
TypedCall ==
  /\ call \in Calls \union {"none"} /\ arg \in Ids \union {None} /\ (call = "add" => arg \in Ids)
  /\ due \in Seq(Writes) /\ Len(due) <= 3
TypedHistory == mishaps \in SUBSET Mishaps /\ crashes \in 0 .. MaxCrashes

LEMMA TypedParts ==
  Typed <=> env \in BOOLEAN /\ TypedFiles /\ TypedCall /\ TypedHistory
  BY Zenon DEF Typed, TypeOK, TypedFiles, TypedCall, TypedHistory

LEMMA ShortIsTyped ==
  ASSUME NEW a \in Writes, NEW b \in Writes, NEW c \in Writes
  PROVE  /\ << >> \in Seq(Writes) /\ Len(<< >>) <= 3
         /\ <<a>> \in Seq(Writes) /\ Len(<<a>>) <= 3
         /\ <<a, b>> \in Seq(Writes) /\ Len(<<a, b>>) <= 3
         /\ <<a, b, c>> \in Seq(Writes) /\ Len(<<a, b, c>>) <= 3
  OBVIOUS

LEMMA WritesType ==
  /\ \A k \in Keys : KeyWrite(k) \in Writes
  /\ \A sealed \in [Ids -> Keys \union {None, Plain}], spoiled \in SUBSET Ids :
       StoreWrite(sealed, spoiled) \in Writes
  BY DEF KeyWrite, StoreWrite, Writes, Contents

\* A key that a call draws is one of the keys, and so is one it uses.
LEMMA KeysType ==
  ASSUME TypedFiles, KeysDrawn <= MaxKeys
  PROVE  /\ KeysDrawn \in Keys
         /\ KeyMissing => lastKey + 1 \in Keys /\ KeysDrawn = lastKey + 1
         /\ GetCredsKey # Torn => GetCredsKey \in Keys
<1>1. lastKey \in Keys /\ keyFile \in Keys \union {Absent, Torn} /\ EnvKey \in Keys
  BY CredentialAssumption DEF TypedFiles, Keys, EnvKey
<1>2. CASE KeyMissing
  <2>1. GetCredsKey = lastKey + 1 /\ KeysDrawn = lastKey + 1
    BY <1>2, CredsKey
  <2> QED BY <1>1, <2>1, CredentialAssumption DEF Keys, EnvKey
<1>3. CASE ~KeyMissing
  <2>1. GetCredsKey = KeyInUse(env, keyFile) /\ KeysDrawn = lastKey /\ (~env => keyFile # Absent)
    BY <1>3, CredsKey
  <2>2. CASE env
    BY <1>1, <1>3, <2>1, <2>2, Zenon DEF KeyInUse
  <2>3. CASE ~env
    <3>1. GetCredsKey = keyFile
      BY <2>1, <2>3, Zenon DEF KeyInUse
    <3> QED BY <1>1, <1>3, <2>1, <2>3, <3>1
  <2> QED BY <2>2, <2>3
<1> QED BY <1>2, <1>3

\* A missing key is written ahead of up to two other writes.
LEMMA DueType ==
  ASSUME TypedFiles, KeysDrawn <= MaxKeys, NEW a \in Writes, NEW b \in Writes
  PROVE  /\ NewKeyFile \in Seq(Writes) /\ Len(NewKeyFile) <= 3
         /\ NewKeyFile \o <<a>> \in Seq(Writes) /\ Len(NewKeyFile \o <<a>>) <= 3
         /\ NewKeyFile \o <<a, b>> \in Seq(Writes) /\ Len(NewKeyFile \o <<a, b>>) <= 3
<1>1. CASE KeyMissing
  <2>1. PICK w : w = KeyWrite(lastKey + 1)
    OBVIOUS
  <2>2. w \in Writes /\ NewKeyFile = <<w>>
    BY <1>1, <2>1, KeysType, CredsKey, WritesType, Zenon
  <2>3. NewKeyFile \o <<a>> = <<w, a>> /\ NewKeyFile \o <<a, b>> = <<w, a, b>>
    BY <2>2, ConcatOnes, ConcatThree, Zenon
  <2> QED BY <2>2, <2>3, ShortIsTyped, Zenon
<1>2. CASE ~KeyMissing
  <2>1. NewKeyFile = << >>
    BY <1>2, CredsKey
  <2>2. NewKeyFile \o <<a>> = <<a>> /\ NewKeyFile \o <<a, b>> = <<a, b>>
    BY <2>1, ConcatNone, Zenon
  <2> QED BY <2>1, <2>2, ShortIsTyped, Zenon
<1> QED BY <1>1, <1>2

LEMMA RunTyped ==
  ASSUME Typed, NEW op \in Calls, NEW i \in Ids \union {None}, op = "add" => i \in Ids,
         NEW W, Run(op, i, W), W \in Seq(Writes), Len(W) <= 3,
         lastKey' \in Keys, acked' \in SUBSET acked, mishaps' \in SUBSET Mishaps
  PROVE  Typed'
<1>1. /\ env' = env /\ keyFile' = keyFile /\ store' = store /\ crashes' = crashes
      /\ call' = op /\ arg' = i /\ due' = W
  BY Zenon DEF Run
<1>2. env' \in BOOLEAN
  BY <1>1, TypedParts, Zenon
<1>3. TypedFiles' /\ TypedHistory'
  BY <1>1, TypedParts DEF TypedFiles, TypedHistory
<1>4. TypedCall'
  BY <1>1 DEF TypedCall
<1> QED BY <1>2, <1>3, <1>4, Zenon DEF Typed, TypeOK, TypedFiles, TypedCall, TypedHistory

LEMMA EntryWriteType ==
  ASSUME TypedFiles, NEW i \in Ids, NEW slot \in Keys \union {None, Plain}
  PROVE  StoreWrite(WithEntry(i, slot), store.spoiled \ {i}) \in Writes
<1>1. /\ store.sealed \in [Ids -> Keys \union {None, Plain}] /\ store.spoiled \in SUBSET Ids
  BY DEF TypedFiles, Contents
<1>2. WithEntry(i, slot) \in [Ids -> Keys \union {None, Plain}] /\ store.spoiled \ {i} \in SUBSET Ids
  BY <1>1 DEF WithEntry
<1> QED BY <1>2, WritesType, Zenon

LEMMA AddPlainTyped == ASSUME Typed, NEW i \in Ids, AddPlain(i) PROVE Typed'
<1>1. PICK w : w = StoreWrite(WithEntry(i, Plain), store.spoiled \ {i})
  OBVIOUS
<1>2. TypedFiles /\ mishaps \in SUBSET Mishaps
  BY TypedParts DEF TypedHistory
<1>3. w \in Writes
  BY <1>1, <1>2, EntryWriteType
<1>4. <<w>> \in Seq(Writes) /\ Len(<<w>>) <= 3
  BY <1>3, ShortIsTyped, Zenon
<1>5. Run("add", i, <<w>>) /\ lastKey' = lastKey /\ acked' = acked /\ mishaps' = mishaps
  BY <1>1, Zenon DEF AddPlain
<1>6. lastKey' \in Keys /\ acked' \in SUBSET acked /\ mishaps' \in SUBSET Mishaps
  BY <1>2, <1>5 DEF TypedFiles
<1> QED BY <1>4, <1>5, <1>6, RunTyped DEF Calls

LEMMA RemoveTyped == ASSUME Typed, NEW i \in Ids, Remove(i) PROVE Typed'
<1>1. PICK w : w = StoreWrite(WithEntry(i, None), store.spoiled \ {i})
  OBVIOUS
<1>2. TypedFiles /\ mishaps \in SUBSET Mishaps
  BY TypedParts DEF TypedHistory
<1>3. w \in Writes
  BY <1>1, <1>2, EntryWriteType
<1>4. <<w>> \in Seq(Writes) /\ Len(<<w>>) <= 3
  BY <1>3, ShortIsTyped, Zenon
<1>5. Run("remove", i, <<w>>) /\ lastKey' = lastKey /\ acked' = acked \ {i} /\ mishaps' = mishaps
  BY <1>1, Zenon DEF Remove
<1>6. lastKey' \in Keys /\ acked' \in SUBSET acked /\ mishaps' \in SUBSET Mishaps
  BY <1>2, <1>5 DEF TypedFiles
<1> QED BY <1>4, <1>5, <1>6, RunTyped DEF Calls

LEMMA AddSecretTyped == ASSUME Typed, NEW i \in Ids, AddSecret(i) PROVE Typed'
<1>1. PICK w : w = StoreWrite(WithEntry(i, GetCredsKey), store.spoiled \ {i})
  OBVIOUS
<1>2. TypedFiles /\ mishaps \in SUBSET Mishaps
  BY TypedParts DEF TypedHistory
<1>3. /\ GetCredsKey # Torn /\ KeysDrawn <= MaxKeys
      /\ Run("add", i, NewKeyFile \o <<w>>)
      /\ lastKey' = KeysDrawn /\ acked' = acked /\ mishaps' = mishaps
  BY <1>1, Zenon DEF AddSecret
<1>4. GetCredsKey \in Keys /\ KeysDrawn \in Keys
  BY <1>2, <1>3, KeysType
<1>5. w \in Writes
  BY <1>1, <1>2, <1>4, EntryWriteType
<1>6. NewKeyFile \o <<w>> \in Seq(Writes) /\ Len(NewKeyFile \o <<w>>) <= 3
  BY <1>2, <1>3, <1>5, DueType
<1>7. lastKey' \in Keys /\ acked' \in SUBSET acked /\ mishaps' \in SUBSET Mishaps
  BY <1>2, <1>3, <1>4
<1>8. "add" \in Calls
  BY DEF Calls
<1> QED BY <1>3, <1>6, <1>7, <1>8, RunTyped

\* get(), and a rotation that throws, write nothing but a missing key.
LEMMA KeyOnlyTyped ==
  ASSUME Typed, NEW op \in {"get", "rotate"}, NEW i \in Ids \union {None}, KeysDrawn <= MaxKeys,
         Run(op, i, NewKeyFile), lastKey' = KeysDrawn, acked' = acked, mishaps' = mishaps
  PROVE  Typed'
<1>1. TypedFiles /\ mishaps \in SUBSET Mishaps
  BY TypedParts DEF TypedHistory
<1>2. PICK w \in Writes : w = KeyWrite(EnvKey)
  BY WritesType, CredentialAssumption DEF Keys, EnvKey
<1>3. NewKeyFile \in Seq(Writes) /\ Len(NewKeyFile) <= 3
  BY <1>1, <1>2, DueType
<1>4. lastKey' \in Keys /\ acked' \in SUBSET acked /\ mishaps' \in SUBSET Mishaps
  BY <1>1, KeysType
<1>5. op \in Calls /\ op # "add"
  BY DEF Calls
<1> QED BY <1>3, <1>4, <1>5, RunTyped

LEMMA RotateTyped == ASSUME Typed, Rotate PROVE Typed'
<1>1. PICK w, v : /\ w = KeyWrite(KeysDrawn + 1)
                  /\ v = StoreWrite(Reseal(KeysDrawn + 1), store.spoiled \union Foreign)
  OBVIOUS
<1>2. TypedFiles /\ mishaps \in SUBSET Mishaps
  BY TypedParts DEF TypedHistory
<1>3. /\ KeysDrawn < MaxKeys
      /\ Run("rotate", None, NewKeyFile \o <<w, v>>)
      /\ lastKey' = KeysDrawn + 1 /\ acked' = acked
      /\ mishaps' \in {mishaps, mishaps \union {"rotated under env"}}
  <2>1. /\ KeysDrawn < MaxKeys
        /\ Run("rotate", None, NewKeyFile \o <<w, v>>)
        /\ lastKey' = KeysDrawn + 1 /\ acked' = acked
    BY <1>1, Zenon DEF Rotate
  <2>2. mishaps' \in {mishaps, mishaps \union {"rotated under env"}}
    BY Zenon DEF Rotate
  <2> QED BY <2>1, <2>2
<1>4. lastKey \in 0 .. MaxKeys /\ MaxKeys \in Nat /\ KeysDrawn \in {lastKey, lastKey + 1}
  <2>1. KeysDrawn \in {lastKey, lastKey + 1}
    BY Zenon DEF KeysDrawn
  <2> QED BY <1>2, <2>1, CredentialAssumption DEF TypedFiles, Keys, EnvKey
<1>5. KeysDrawn <= MaxKeys /\ KeysDrawn + 1 \in Keys
  <2>1. KeysDrawn < MaxKeys
    BY <1>3, Zenon
  <2> QED BY <2>1, <1>4 DEF Keys, EnvKey
<1>6. w \in Writes
  BY <1>1, <1>5, WritesType, Zenon
<1>7. /\ Reseal(KeysDrawn + 1) \in [Ids -> Keys \union {None, Plain}]
      /\ store.spoiled \union Foreign \in SUBSET Ids
  <2>1. store.sealed \in [Ids -> Keys \union {None, Plain}] /\ store.spoiled \in SUBSET Ids
    BY <1>2 DEF TypedFiles, Contents
  <2>2. PICK k \in Keys : k = KeysDrawn + 1
    BY <1>5
  <2>3. Reseal(k) \in [Ids -> Keys \union {None, Plain}]
    BY <2>1 DEF Reseal
  <2> QED BY <2>1, <2>2, <2>3 DEF Foreign, Secrets
<1>8. v \in Writes
  BY <1>1, <1>7, WritesType, Zenon
<1>9. NewKeyFile \o <<w, v>> \in Seq(Writes) /\ Len(NewKeyFile \o <<w, v>>) <= 3
  BY <1>2, <1>5, <1>6, <1>8, DueType
<1>10. lastKey' \in Keys /\ acked' \in SUBSET acked /\ mishaps' \in SUBSET Mishaps
  BY <1>2, <1>3, <1>5 DEF Mishaps
<1>11. "rotate" \in Calls
  BY DEF Calls
<1> QED BY <1>3, <1>9, <1>10, <1>11, RunTyped

LEMMA WriteTyped == ASSUME Typed, Write PROVE Typed'
<1>1. /\ env' = env /\ lastKey' = lastKey /\ mishaps' = mishaps /\ crashes' = crashes
      /\ due # << >> /\ due' = Tail(due)
      /\ keyFile' = IF Head(due).file = "key" THEN Head(due).key ELSE keyFile
      /\ store' = IF Head(due).file = "store" THEN Head(due).store ELSE store
  BY Zenon DEF Write
<1>2. \/ call' = call /\ arg' = arg /\ acked' = acked
      \/ /\ call' = "none" /\ arg' = None
         /\ acked' = IF call = "add" THEN acked \union {arg} ELSE acked
  BY Zenon DEF Write
<1>3. TypedFiles /\ TypedCall /\ TypedHistory
  BY TypedParts
<1>4. Head(due) \in Writes /\ Tail(due) \in Seq(Writes) /\ Len(Tail(due)) <= 3
  BY <1>1, <1>3, HeadTailProperties DEF TypedCall
<1>5. keyFile' \in Keys \union {Absent, Torn} /\ store' \in Contents
  BY <1>1, <1>3, <1>4 DEF Writes, TypedFiles
<1>6. TypedFiles'
  BY <1>1, <1>2, <1>3, <1>5 DEF TypedFiles, TypedCall
<1>7. TypedCall'
  BY <1>1, <1>2, <1>3, <1>4 DEF TypedCall
<1>8. TypedHistory'
  BY <1>1, <1>3 DEF TypedHistory
<1>9. env' \in BOOLEAN
  BY <1>1, TypedParts, Zenon
<1> QED BY <1>6, <1>7, <1>8, <1>9, Zenon DEF Typed, TypeOK, TypedFiles, TypedCall, TypedHistory

LEMMA RestartTyped == ASSUME Typed, Restart PROVE Typed'
<1>1. /\ crashes < MaxCrashes /\ crashes' = crashes + 1 /\ CutWrite
      /\ call' = "none" /\ arg' = None /\ due' = << >>
      /\ lastKey' = lastKey /\ acked' = acked
  BY Zenon DEF Restart
<1>2. env' \in BOOLEAN
  BY Zenon DEF Restart
<1>3. mishaps' \subseteq mishaps \union {"env changed"} \union (IF Idle THEN {} ELSE {call})
  <2>1. mishaps' = mishaps \union (IF Idle THEN {} ELSE {call})
                           \union (IF env' = env THEN {} ELSE {"env changed"})
    BY Zenon DEF Restart
  <2>2. (IF env' = env THEN {} ELSE {"env changed"}) \in {{}, {"env changed"}}
    BY Zenon
  <2> QED BY <2>1, <2>2
<1>4. TypedFiles /\ TypedCall /\ TypedHistory
  BY TypedParts
<1>5. keyFile' \in {keyFile, Torn} /\ store' \in {store, Empty}
  BY <1>1 DEF CutWrite
<1>6. TypedFiles'
  BY <1>1, <1>4, <1>5, EmptyAgrees DEF TypedFiles
<1>7. TypedCall'
  BY <1>1 DEF TypedCall
<1>8. TypedHistory'
  <2>1. (IF Idle THEN {} ELSE {call}) \subseteq Calls
    BY <1>4 DEF TypedCall, Idle
  <2>2. mishaps' \in SUBSET Mishaps
    BY <1>3, <1>4, <2>1 DEF TypedHistory, Mishaps
  <2>3. crashes' \in 0 .. MaxCrashes
    BY <1>1, <1>4, CredentialAssumption DEF TypedHistory
  <2> QED BY <2>2, <2>3 DEF TypedHistory
<1> QED BY <1>2, <1>6, <1>7, <1>8, Zenon DEF Typed, TypeOK, TypedFiles, TypedCall, TypedHistory

LEMMA TypedInit == Init => Typed
<1> SUFFICES ASSUME Init PROVE Typed
  OBVIOUS
<1>1. env \in BOOLEAN
  BY Zenon DEF Init
<1>2. /\ keyFile = Absent /\ store = Empty /\ lastKey = EnvKey /\ call = "none"
      /\ arg = None /\ due = << >> /\ acked = {} /\ mishaps = {} /\ crashes = 0
  BY Zenon DEF Init
<1>3. TypedFiles /\ TypedCall /\ TypedHistory
  BY <1>2, EmptyAgrees, CredentialAssumption
     DEF TypedFiles, TypedCall, TypedHistory, Keys, EnvKey
<1> QED BY <1>1, <1>3, TypedParts, Zenon

LEMMA TypedStep == Typed /\ [Next]_vars => Typed'
<1> SUFFICES ASSUME Typed, [Next]_vars PROVE Typed'
  OBVIOUS
<1>1. ASSUME NEW i \in Ids, AddPlain(i) \/ AddSecret(i) \/ Get(i) \/ Remove(i) PROVE Typed'
  <2>1. CASE Get(i)
    <3>1. /\ KeysDrawn <= MaxKeys /\ Run("get", i, NewKeyFile)
          /\ lastKey' = KeysDrawn /\ acked' = acked /\ mishaps' = mishaps
      BY <2>1, Zenon DEF Get
    <3> QED BY <3>1, KeyOnlyTyped
  <2> QED BY <1>1, <2>1, AddPlainTyped, AddSecretTyped, RemoveTyped, Zenon
<1>2. CASE RotateThrows
  <2>1. /\ KeysDrawn <= MaxKeys /\ Run("rotate", None, NewKeyFile)
        /\ lastKey' = KeysDrawn /\ acked' = acked /\ mishaps' = mishaps
    BY <1>2, Zenon DEF RotateThrows
  <2> QED BY <2>1, KeyOnlyTyped
<1>3. CASE UNCHANGED vars
  <2>1. /\ env' = env /\ keyFile' = keyFile /\ store' = store /\ lastKey' = lastKey
        /\ call' = call /\ arg' = arg /\ due' = due /\ acked' = acked /\ mishaps' = mishaps
        /\ crashes' = crashes
    BY <1>3, Zenon DEF vars
  <2> QED BY <2>1, Zenon DEF Typed, TypeOK
<1> QED BY <1>1, <1>2, <1>3, WriteTyped, RestartTyped, RotateTyped, Zenon DEF Next

LEMMA TypedAlways == Spec => []Typed
  BY TypedInit, TypedStep, PTL DEF Spec

\* Type correctness: through writes cut short and changes of MCP_CREDS_KEY both files
\* hold what the code can read, and no call has more than three writes to make.
THEOREM TypeCorrect == Spec => []TypeOK
<1>1. Typed => TypeOK
  BY Zenon DEF Typed
<1> QED BY <1>1, TypedAlways, PTL

-----------------------------------------------------------------------------
(***************************************************************************)
(* Rotation without MCP_CREDS_KEY.                                         *)
(***************************************************************************)

\* A process without the variable that rotated under it has lost it since.
LostEnv == ~env /\ "rotated under env" \in mishaps => "env changed" \in mishaps

LEMMA LostEnvStep == Typed /\ LostEnv /\ [Next]_vars => LostEnv'
<1> SUFFICES ASSUME Typed, LostEnv, [Next]_vars, ~env', "rotated under env" \in mishaps'
             PROVE  "env changed" \in mishaps'
  BY Zenon DEF LostEnv
<1>1. CASE Restart
  <2>1. mishaps' = mishaps \union (IF Idle THEN {} ELSE {call})
                           \union (IF env' = env THEN {} ELSE {"env changed"})
    BY <1>1, Zenon DEF Restart
  <2>2. CASE env
    <3>1. mishaps' = mishaps \union (IF Idle THEN {} ELSE {call}) \union {"env changed"}
      BY <2>1, <2>2, Zenon
    <3> QED BY <3>1
  <2>3. CASE ~env
    <3>1. call # "rotated under env"
      BY TypedParts DEF TypedCall, Calls
    <3>2. "rotated under env" \in mishaps
      BY <2>1, <3>1
    <3>3. "env changed" \in mishaps
      BY <2>3, <3>2, Zenon DEF LostEnv
    <3> QED BY <2>1, <3>3
  <2> QED BY <2>2, <2>3
<1>2. CASE ~Restart
  <2>1. env' = env /\ (~env => mishaps' = mishaps)
    <3>1. CASE Rotate
      BY <3>1, Zenon DEF Rotate, Run
    <3>2. CASE Write
      BY <3>2, Zenon DEF Write
    <3>3. CASE RotateThrows
      BY <3>3, Zenon DEF RotateThrows, Run
    <3>4. ASSUME NEW i \in Ids, AddPlain(i) \/ AddSecret(i) \/ Get(i) \/ Remove(i)
          PROVE  env' = env /\ mishaps' = mishaps
      BY <3>4, Zenon DEF AddPlain, AddSecret, Get, Remove, Run
    <3>5. CASE UNCHANGED vars
      BY <3>5, Zenon DEF vars
    <3> QED BY <1>2, <3>1, <3>2, <3>3, <3>4, <3>5, Zenon DEF Next
  <2>2. ~env
    BY <2>1, Zenon
  <2>3. mishaps' = mishaps
    BY <2>1, <2>2, Zenon
  <2> QED BY <2>2, <2>3, Zenon DEF LostEnv
<1> QED BY <1>1, <1>2

\* Without MCP_CREDS_KEY rotateKey() keeps its word: all stored secrets decrypt under
\* the key used from then on.
THEOREM RotationReencryptsHolds == Spec => [](~env => RotationReencrypts)
<1>1. Init => LostEnv
  BY Zenon DEF Init, LostEnv
<1>2. Spec => []LostEnv
  BY <1>1, LostEnvStep, TypedAlways, PTL DEF Spec
<1>3. Inv /\ LostEnv => (~env => RotationReencrypts)
  <2> SUFFICES ASSUME Inv, LostEnv, ~env, Idle, mishaps \subseteq {"rotated under env"},
                      NEW i \in Secrets
               PROVE  Decrypts(i)
    BY Zenon DEF RotationReencrypts
  <2>1. "rotated under env" \notin mishaps
    <3>1. "env changed" \notin mishaps
      OBVIOUS
    <3> QED BY <3>1, Zenon DEF LostEnv
  <2>2. Harmless
    BY <2>1 DEF Harmless
  <2>3. Good
    BY <2>2, Zenon DEF Inv
  <2>4. i \in Ids /\ store.sealed[i] \in Keys
    BY DEF Secrets
  <2> QED BY <2>3, <2>4, IdleDecrypts, Zenon
<1> QED BY <1>2, <1>3, InvHolds, PTL
=============================================================================
