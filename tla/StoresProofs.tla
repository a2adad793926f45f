---------------------------- MODULE StoresProofs ----------------------------
(***************************************************************************)
(* What holds of the stores for any number of ids, calls and records kept, *)
(* with and without the old settings, crashes and full disks.              *)
(***************************************************************************)
EXTENDS Stores, SubsequenceProofs

-----------------------------------------------------------------------------
(***************************************************************************)
(* Lists of entries and their ids.                                         *)
(***************************************************************************)
LEMMA IdsElements ==
    ASSUME NEW Entry, NEW list \in Seq(Entry)
    PROVE  /\ Len(list) \in Nat /\ DOMAIN list = 1 .. Len(list) /\ DOMAIN Ids(list) = DOMAIN list
           /\ \A i \in DOMAIN list : list[i] \in Entry /\ Ids(list)[i] = list[i].id
           /\ Range(Ids(list)) = {list[i].id : i \in DOMAIN list}
           /\ \A T : (\A x \in Entry : x.id \in T) => Ids(list) \in Seq(T)
<1>1. Len(list) \in Nat /\ DOMAIN list = 1 .. Len(list)
  BY LenProperties
<1>2. \A i \in DOMAIN list : list[i] \in Entry
  BY <1>1, ElementOfSeq
<1>3. DOMAIN Ids(list) = DOMAIN list /\ \A i \in DOMAIN list : Ids(list)[i] = list[i].id
  BY DEF Ids
<1>4. Range(Ids(list)) = {list[i].id : i \in DOMAIN list}
  BY <1>3 DEF Range
<1>5. ASSUME NEW T, \A x \in Entry : x.id \in T PROVE Ids(list) \in Seq(T)
  <2>1. \A i \in 1 .. Len(list) : list[i].id \in T
    BY <1>1, <1>2, <1>5
  <2>2. Ids(list) = [i \in 1 .. Len(list) |-> list[i].id]
    BY <1>1 DEF Ids
  <2> QED BY <1>1, <2>1, <2>2, SeqDef
<1> QED BY <1>1, <1>2, <1>3, <1>4, <1>5

\* Filtering the entries filters their ids.
LEMMA IdsOfPicked ==
    ASSUME NEW Entry, NEW list \in Seq(Entry), NEW I \in SUBSET DOMAIN list
    PROVE  Ids(Picked(list, I)) = Picked(Ids(list), I)
<1>1. /\ DOMAIN Picked(list, I) = 1 .. Cardinality(I)
      /\ \A k \in 1 .. Cardinality(I) : Nth(I, k) \in I /\ Picked(list, I)[k] = list[Nth(I, k)]
  BY PickedElements
<1>2. \A k \in 1 .. Cardinality(I) : Ids(list)[Nth(I, k)] = list[Nth(I, k)].id
  BY <1>1, IdsElements
<1>3. Ids(Picked(list, I)) = [k \in 1 .. Cardinality(I) |-> list[Nth(I, k)].id]
  BY <1>1 DEF Ids
<1> QED BY <1>2, <1>3 DEF Picked

LEMMA WithoutOne ==
    ASSUME NEW S, NEW s \in Seq(S), NEW a
    PROVE  /\ Without(s, a) \in Seq(S) /\ Range(Without(s, a)) = Range(s) \ {a}
           /\ IsInjective(s) => IsInjective(Without(s, a))
<1> DEFINE I == {i \in DOMAIN s : s[i] # a}
<1>1. Without(s, a) = Picked(s, I) /\ I \in SUBSET DOMAIN s
  BY DEF Without, Where
<1>2. {s[i] : i \in I} = Range(s) \ {a}
  BY DEF Range
<1> HIDE DEF I
<1> QED BY <1>1, <1>2, PickedElements, PickedRange

LEMMA DroppedOne ==
    ASSUME NEW Entry, NEW list \in Seq(Entry), NEW a
    PROVE  Dropped(list, a) \in Seq(Entry) /\ Ids(Dropped(list, a)) = Without(Ids(list), a)
<1> DEFINE I == {i \in DOMAIN list : list[i].id # a}
<1>1. Dropped(list, a) = Picked(list, I) /\ I \in SUBSET DOMAIN list
  BY DEF Dropped, Where
<1>2. I = {i \in DOMAIN Ids(list) : Ids(list)[i] # a}
  BY IdsElements
<1>3. Without(Ids(list), a) = Picked(Ids(list), I)
  BY <1>2 DEF Without, Where
<1> HIDE DEF I
<1> QED BY <1>1, <1>3, PickedElements, IdsOfPicked

LEMMA ReplacedOne ==
    ASSUME NEW Entry, NEW list \in Seq(Entry), NEW x \in Entry
    PROVE  Replaced(list, x) \in Seq(Entry) /\ Ids(Replaced(list, x)) = Ids(list)
<1> DEFINE r == [i \in 1 .. Len(list) |-> IF list[i].id = x.id THEN x ELSE list[i]]
<1>1. Len(list) \in Nat /\ DOMAIN list = 1 .. Len(list) /\ \A i \in 1 .. Len(list) : list[i] \in Entry
  BY IdsElements
<1>2. Replaced(list, x) = r
  BY <1>1 DEF Replaced
<1>3. \A i \in 1 .. Len(list) : r[i] \in Entry /\ r[i].id = list[i].id
  BY <1>1
<1>4. r \in Seq(Entry)
  BY <1>1, <1>3, SeqDef
<1>5. Ids(r) = [i \in 1 .. Len(list) |-> r[i].id]
  BY DEF Ids
<1>6. Ids(list) = [i \in 1 .. Len(list) |-> list[i].id]
  BY <1>1 DEF Ids
<1> HIDE DEF r
<1> QED BY <1>2, <1>3, <1>4, <1>5, <1>6

\* Loading the accounts gives every entry a port of its own, and keeps the ids.
LEMMA LoadKeepsIds ==
    ASSUME NEW json, json.list \in Seq(Account)
    PROVE  load(json) \in Seq(Account) /\ Ids(load(json)) = Ids(json.list)
<1> DEFINE list == json.list
           r == [i \in 1 .. Len(list) |-> migrate_embedded_port(list[i])]
<1>1. Len(list) \in Nat /\ DOMAIN list = 1 .. Len(list) /\ \A i \in 1 .. Len(list) : list[i] \in Account
  BY IdsElements
<1>2. load(json) = r
  BY <1>1 DEF load
<1>3. ASSUME NEW a \in Account
      PROVE  migrate_embedded_port(a) \in Account /\ migrate_embedded_port(a).id = a.id
  BY DEF Account, migrate_embedded_port, Server, Port
<1>4. \A i \in 1 .. Len(list) : r[i] \in Account /\ r[i].id = list[i].id
  BY <1>1, <1>3
<1>5. r \in Seq(Account)
  <2>1. r \in [1 .. Len(list) -> Account]
    BY <1>4
  <2> HIDE DEF r
  <2> QED BY <1>1, <2>1, SeqDef
<1>6. Ids(r) = [i \in 1 .. Len(list) |-> r[i].id]
  BY DEF Ids
<1>7. Ids(list) = [i \in 1 .. Len(list) |-> list[i].id]
  BY <1>1 DEF Ids
<1> HIDE DEF r
<1> QED BY <1>2, <1>4, <1>5, <1>6, <1>7

LEMMA AppendedOne ==
    ASSUME NEW Entry, NEW list \in Seq(Entry), NEW x \in Entry
    PROVE  /\ Append(list, x) \in Seq(Entry) /\ Ids(Append(list, x)) = Append(Ids(list), x.id)
           /\ Range(Ids(Append(list, x))) = Range(Ids(list)) \cup {x.id}
           /\ IsInjective(Ids(list)) /\ x.id \notin Range(Ids(list)) => IsInjective(Ids(Append(list, x)))
<1> DEFINE n == Len(list)
           p == Append(list, x)
           T == {y.id : y \in Entry}
<1>1. /\ n \in Nat /\ DOMAIN list = 1 .. n /\ Ids(list) \in Seq(T)
      /\ DOMAIN Ids(list) = 1 .. n /\ \A i \in 1 .. n : Ids(list)[i] = list[i].id
  BY IdsElements
<1>2. p \in Seq(Entry) /\ Len(p) = n + 1 /\ p[n + 1] = x /\ \A i \in 1 .. n : p[i] = list[i]
  BY AppendProperties
<1>3. Len(Ids(list)) = n
  BY <1>1, LenProperties
<1>4. /\ Append(Ids(list), x.id) \in Seq(T) /\ Len(Append(Ids(list), x.id)) = n + 1
      /\ Append(Ids(list), x.id)[n + 1] = x.id
      /\ \A i \in 1 .. n : Append(Ids(list), x.id)[i] = Ids(list)[i]
  BY <1>1, <1>3, AppendProperties
<1>5. DOMAIN p = 1 .. n + 1 /\ DOMAIN Append(Ids(list), x.id) = 1 .. n + 1
  BY <1>2, <1>4, LenProperties
<1>6. DOMAIN Ids(p) = 1 .. n + 1 /\ \A i \in 1 .. n + 1 : Ids(p)[i] = p[i].id
  BY <1>5 DEF Ids
<1> HIDE DEF p
<1>7. \A i \in 1 .. n + 1 : i \in 1 .. n \/ i = n + 1
  BY <1>1
<1>8. \A i \in 1 .. n + 1 : Ids(p)[i] = Append(Ids(list), x.id)[i]
  BY <1>1, <1>2, <1>4, <1>6, <1>7
<1>9. Ids(p) = Append(Ids(list), x.id)
  <2>1. Ids(p) \in Seq(T)
    BY <1>2, IdsElements
  <2>2. Len(Ids(p)) = n + 1
    BY <1>1, <1>6, <2>1, LenProperties
  <2> QED BY <1>4, <1>8, <2>1, <2>2, SeqEqual
<1>10. \A i \in 1 .. n : i \in 1 .. n + 1 /\ i # n + 1 /\ Ids(p)[i] = Ids(list)[i]
  BY <1>1, <1>2, <1>6
<1>11. n + 1 \in 1 .. n + 1 /\ Ids(p)[n + 1] = x.id
  BY <1>1, <1>2, <1>6
<1>12. Range(Ids(p)) = Range(Ids(list)) \cup {x.id}
  BY <1>1, <1>6, <1>7, <1>10, <1>11 DEF Range
<1>13. IsInjective(Ids(list)) /\ x.id \notin Range(Ids(list)) => IsInjective(Ids(p))
  BY <1>1, <1>6, <1>7, <1>10, <1>11 DEF Range, IsInjective
<1> QED BY <1>2, <1>9, <1>12, <1>13 DEF p

LEMMA SwappedTwo ==
    ASSUME NEW Entry, NEW list \in Seq(Entry), NEW i \in DOMAIN list, NEW j \in DOMAIN list
    PROVE  /\ Swapped(list, i, j) \in Seq(Entry)
           /\ Range(Ids(Swapped(list, i, j))) = Range(Ids(list))
           /\ IsInjective(Ids(list)) => IsInjective(Ids(Swapped(list, i, j)))
<1> DEFINE s == Swapped(list, i, j)
<1>1. Len(list) \in Nat /\ DOMAIN list = 1 .. Len(list) /\ \A k \in 1 .. Len(list) : list[k] \in Entry
  BY IdsElements
<1>2. s = [k \in 1 .. Len(list) |-> IF k = j THEN list[i] ELSE IF k = i THEN list[j] ELSE list[k]]
  BY <1>1 DEF Swapped
<1>3. s \in Seq(Entry)
  BY <1>1, <1>2, SeqDef
<1>4. DOMAIN s = DOMAIN list /\ DOMAIN Ids(s) = DOMAIN list /\ DOMAIN Ids(list) = DOMAIN list
  BY <1>1, <1>2 DEF Ids
<1>5. \A k \in DOMAIN list : /\ Ids(list)[k] = list[k].id
                             /\ Ids(s)[k] = IF k = j THEN Ids(list)[i]
                                            ELSE IF k = i THEN Ids(list)[j] ELSE Ids(list)[k]
  BY <1>1, <1>2 DEF Ids
<1> HIDE DEF s
<1>6. Range(Ids(s)) = Range(Ids(list))
  BY <1>4, <1>5 DEF Range
<1>7. IsInjective(Ids(list)) => IsInjective(Ids(s))
  BY <1>4, <1>5 DEF IsInjective
<1> QED BY <1>3, <1>6, <1>7 DEF s
-----------------------------------------------------------------------------
(***************************************************************************)
(* Engines.                                                                *)
(***************************************************************************)
\* connect_account: one engine for an account, and only for those named.
LEMMA ConnectedOnce ==
    ASSUME NEW list \in Seq(Account), NEW C
    PROVE  /\ Connected(list, C) \in Seq(Id)
           /\ Range(Connected(list, C)) \subseteq C \cap Range(Ids(list))
           /\ IsInjective(Ids(list)) => IsInjective(Connected(list, C))
<1> DEFINE I == {i \in DOMAIN list : list[i].id \in C /\ list[i].server # ""}
<1>1. Connected(list, C) = Ids(Picked(list, I)) /\ I \in SUBSET DOMAIN list
  BY DEF Connected, Where
<1>2. /\ Ids(list) \in Seq(Id) /\ DOMAIN Ids(list) = DOMAIN list
      /\ \A i \in DOMAIN list : Ids(list)[i] = list[i].id
  <2>1. \A a \in Account : a.id \in Id
    BY DEF Account
  <2> QED BY <2>1, IdsElements
<1>3. {Ids(list)[i] : i \in I} \subseteq C \cap Range(Ids(list))
  BY <1>2 DEF Range
<1> HIDE DEF I
<1>4. Connected(list, C) = Picked(Ids(list), I)
  BY <1>1, IdsOfPicked
<1> QED BY <1>1, <1>2, <1>3, <1>4, PickedElements, PickedRange

\* An engine is replaced: there is one for the account, or none.
LEMMA OneEngineMore ==
    ASSUME NEW S, NEW e \in Seq(S), IsInjective(e), NEW a,
           NEW c \in Seq(S), IsInjective(c), Range(c) \subseteq {a}
    PROVE  /\ Without(e, a) \o c \in Seq(S) /\ IsInjective(Without(e, a) \o c)
           /\ Range(Without(e, a) \o c) = (Range(e) \ {a}) \cup Range(c)
<1> DEFINE w == Without(e, a)
           m == Len(w)
           n == Len(c)
<1>1. w \in Seq(S) /\ Range(w) = Range(e) \ {a} /\ IsInjective(w)
  BY WithoutOne
<1> HIDE DEF w
<1>2. m \in Nat /\ n \in Nat /\ DOMAIN w = 1 .. m /\ DOMAIN c = 1 .. n
  BY <1>1, LenProperties
<1>3. /\ w \o c \in Seq(S) /\ Len(w \o c) = m + n
      /\ \A i \in 1 .. m + n : (w \o c)[i] = IF i <= m THEN w[i] ELSE c[i - m]
  BY <1>1, ConcatProperties
<1>4. DOMAIN (w \o c) = 1 .. m + n
  BY <1>3, LenProperties
<1>5. \A i \in 1 .. m : i \in 1 .. m + n /\ (w \o c)[i] = w[i]
  BY <1>2, <1>3
<1>6. \A k \in 1 .. n : m + k \in 1 .. m + n /\ (w \o c)[m + k] = c[k]
  <2> SUFFICES ASSUME NEW k \in 1 .. n PROVE m + k \in 1 .. m + n /\ (w \o c)[m + k] = c[k]
    OBVIOUS
  <2>1. m + k \in 1 .. m + n /\ ~(m + k <= m) /\ (m + k) - m = k
    BY <1>2
  <2> QED BY <1>3, <2>1
<1>7. \A i \in 1 .. m + n : i \in 1 .. m \/ \E k \in 1 .. n : i = m + k
  <2> SUFFICES ASSUME NEW i \in 1 .. m + n, i \notin 1 .. m PROVE i - m \in 1 .. n /\ i = m + (i - m)
    BY Zenon
  <2> QED BY <1>2
<1>8. Range(w \o c) = Range(w) \cup Range(c)
  <2>1. /\ Range(w \o c) = {(w \o c)[i] : i \in 1 .. m + n}
        /\ Range(w) = {w[i] : i \in 1 .. m} /\ Range(c) = {c[k] : k \in 1 .. n}
    BY <1>2, <1>4 DEF Range
  <2>2. \A i \in 1 .. m + n : (w \o c)[i] \in Range(w) \cup Range(c)
    BY <1>5, <1>6, <1>7, <2>1, SMTT(30)
  <2>3. \A i \in 1 .. m : w[i] \in Range(w \o c)
    BY <1>5, <2>1
  <2>4. \A k \in 1 .. n : c[k] \in Range(w \o c)
    BY <1>6, <2>1
  <2> QED BY <2>1, <2>2, <2>3, <2>4, SMTT(30)
<1>9. \A k \in 1 .. n : c[k] = a
  BY <1>2 DEF Range
<1>10. \A i \in 1 .. m : w[i] # a
  BY <1>1, <1>2 DEF Range
<1>11. \A i, j \in 1 .. m : w[i] = w[j] => i = j
  BY <1>1, <1>2 DEF IsInjective
<1>12. \A k, l \in 1 .. n : c[k] = c[l] => k = l
  BY <1>2 DEF IsInjective
<1>13. IsInjective(w \o c)
  <2> SUFFICES ASSUME NEW i \in 1 .. m + n, NEW j \in 1 .. m + n, (w \o c)[i] = (w \o c)[j]
               PROVE  i = j
    BY <1>4 DEF IsInjective
  <2>1. CASE i \in 1 .. m /\ j \in 1 .. m
    BY <1>5, <1>11, <2>1, Zenon
  <2>2. CASE i \in 1 .. m /\ j \notin 1 .. m
    BY <1>5, <1>6, <1>7, <1>9, <1>10, <2>2, Zenon
  <2>3. CASE i \notin 1 .. m /\ j \in 1 .. m
    BY <1>5, <1>6, <1>7, <1>9, <1>10, <2>3, Zenon
  <2>4. CASE i \notin 1 .. m /\ j \notin 1 .. m
    <3>1. PICK k \in 1 .. n : i = m + k
      BY <1>7, <2>4
    <3>2. PICK l \in 1 .. n : j = m + l
      BY <1>7, <2>4
    <3>3. c[k] = c[l]
      BY <1>6, <3>1, <3>2
    <3> QED BY <1>12, <3>1, <3>2, <3>3
  <2> QED BY <2>1, <2>2, <2>3, <2>4
<1> QED BY <1>1, <1>3, <1>8, <1>13 DEF w
-----------------------------------------------------------------------------
(***************************************************************************)
(* The invariant, less the call log.                                       *)
(***************************************************************************)
\* Entries with different ids, all of which new_id has given out.
Listing(list, Entry, n) ==
    /\ list \in Seq(Entry) /\ IsInjective(Ids(list)) /\ Range(Ids(list)) \subseteq 1 .. n

FileStates == {"missing", "whole", "torn"}

FilesOK ==
    /\ Listing(accounts_json.list, Account, last_id) /\ accounts_json.st \in FileStates
    /\ Listing(quickdials_json.list, QuickDial, last_id) /\ quickdials_json.st \in FileStates
    /\ Legacy => accounts_json.st = "whole"
    /\ keyring \in [Id -> {"none", "legacy", "typed"}] /\ last_id \in 0 .. MaxIds

EnginesOK ==
    /\ active_engines \in Seq(Id) /\ IsInjective(active_engines)
    /\ Range(active_engines) \subseteq 1 .. last_id /\ registered \subseteq Range(active_engines)

\* Calls go out on the default whenever it can be called with.
DefaultSelected ==
    default_account \in registered \cap Stored(accounts_json) =>
        selected_outgoing_account_id = default_account

\* The dialog shows what is stored, and leaves it to the bar.
DialogOK ==
    /\ dialog => account_rows = Ids(accounts_json.list)
                 /\ quickdial_rows = Ids(quickdials_json.list)
    /\ ~dialog => quickdial_bar = Buttons(quickdials_json.list)

FileInv == FilesOK /\ EnginesOK /\ DefaultSelected /\ DialogOK

LEMMA EntriesHaveIds ==
    (\A a \in Account : a.id \in Id) /\ (\A q \in QuickDial : q.id \in Id) /\ MaxIds \in Nat
BY StoresAssumption DEF Account, QuickDial

LEMMA LastId == ASSUME FilesOK PROVE last_id \in Nat /\ MaxIds \in Nat /\ last_id <= MaxIds
BY StoresAssumption DEF FilesOK

\* refresh_account_selector: with the accounts that are stored, the default is selected.
LEMMA RefreshSelects ==
    ASSUME NEW list, Range(Ids(list)) = Stored(accounts_json)', EnginesOK',
           refresh_account_selector(list)
    PROVE  DefaultSelected'
<1> DEFINE I == {i \in DOMAIN active_engines' :
                    active_engines'[i] \in registered' /\ active_engines'[i] \in Range(Ids(list))}
           ids == Picked(active_engines', I)
           J == {i \in 1 .. Len(ids) : ids[i] = default_account}
           saved == SelectInSeq(ids, LAMBDA a : a = default_account)
<1>1. /\ selector_account_ids' = ids /\ selected' = (IF saved = 0 THEN 1 ELSE saved)
      /\ default_account' = default_account
  BY DEF refresh_account_selector, Where, SelectorQuiet
<1>2. saved = IF J # {} THEN Min(J) ELSE 0
  BY DEF SelectInSeq
<1>3. active_engines' \in Seq(Id) /\ I \in SUBSET DOMAIN active_engines'
  BY DEF EnginesOK
<1>4. default_account \in registered' \cap Stored(accounts_json)' =>
          default_account \in {active_engines'[i] : i \in I}
  BY DEF EnginesOK, Range
<1> HIDE DEF saved, I
<1>5. ids \in Seq(Id) /\ Range(ids) = {active_engines'[i] : i \in I}
  BY <1>3, PickedElements, PickedRange
<1> HIDE DEF ids
<1>6. DOMAIN ids = 1 .. Len(ids) /\ Len(ids) \in Nat
  BY <1>5, LenProperties
<1> SUFFICES ASSUME default_account \in registered' \cap Stored(accounts_json)'
             PROVE  selected_outgoing_account_id' = default_account
  BY <1>1 DEF DefaultSelected
<1>7. default_account \in Range(ids)
  BY <1>4, <1>5
<1>8. J # {} /\ J \in SUBSET Nat
  BY <1>6, <1>7 DEF Range
<1>9. Min(J) \in J
  <2> HIDE DEF J
  <2> QED BY <1>8, MinIsElement
<1>10. saved = Min(J) /\ saved \in 1 .. Len(ids) /\ ids[saved] = default_account /\ saved # 0
  BY <1>2, <1>6, <1>8, <1>9
<1>11. selected' \in DOMAIN selector_account_ids' /\ selector_account_ids'[selected'] = default_account
  BY <1>1, <1>6, <1>10
<1> QED BY <1>11 DEF selected_outgoing_account_id

\* disconnect_account and connect_account_by_id.
LEMMA DisconnectKeeps ==
    ASSUME EnginesOK, UNCHANGED last_id, NEW a, NEW list, Range(Ids(list)) = Stored(accounts_json)',
           disconnect_account(a, list)
    PROVE  EnginesOK' /\ DefaultSelected'
<1>1. /\ active_engines' = Without(active_engines, a) /\ registered' = registered \ {a}
      /\ refresh_account_selector(list)
  BY DEF disconnect_account
<1>2. /\ Without(active_engines, a) \in Seq(Id) /\ IsInjective(Without(active_engines, a))
      /\ Range(Without(active_engines, a)) = Range(active_engines) \ {a}
  BY WithoutOne DEF EnginesOK
<1>3. EnginesOK'
  BY <1>1, <1>2 DEF EnginesOK
<1> QED BY <1>1, <1>3, RefreshSelects

LEMMA ConnectKeeps ==
    ASSUME EnginesOK, UNCHANGED last_id, NEW a, NEW list \in Seq(Account),
           IsInjective(Ids(list)), Range(Ids(list)) \subseteq 1 .. last_id,
           Range(Ids(list)) = Stored(accounts_json)', connect_account_by_id(a, list)
    PROVE  EnginesOK' /\ DefaultSelected'
<1> DEFINE c == Connected(list, {a})
<1>1. /\ active_engines' = Without(active_engines, a) \o c /\ registered' = registered \ {a}
      /\ refresh_account_selector(list)
  BY DEF connect_account_by_id
<1>2. c \in Seq(Id) /\ IsInjective(c) /\ Range(c) \subseteq {a} \cap 1 .. last_id
  BY ConnectedOnce
<1> HIDE DEF c
<1>3. active_engines \in Seq(Id) /\ IsInjective(active_engines) /\ Range(c) \subseteq {a}
  BY <1>2 DEF EnginesOK
<1>4. /\ Without(active_engines, a) \o c \in Seq(Id) /\ IsInjective(Without(active_engines, a) \o c)
      /\ Range(Without(active_engines, a) \o c) = (Range(active_engines) \ {a}) \cup Range(c)
  BY <1>2, <1>3, OneEngineMore
<1>5. EnginesOK'
  BY <1>1, <1>2, <1>4 DEF EnginesOK
<1> QED BY <1>1, <1>5, RefreshSelects

\* The engines are as they were, and the accounts, but for a new one.
LEMMA SameEngines ==
    ASSUME EnginesOK, DefaultSelected, UNCHANGED <<engineVars, selectorVars>>,
           last_id \in Nat, last_id' \in Nat, last_id <= last_id',
           Stored(accounts_json)' \cap 1 .. last_id \subseteq Stored(accounts_json)
    PROVE  EnginesOK' /\ DefaultSelected'
<1>1. UNCHANGED <<active_engines, registered, default_account, selector_account_ids, selected>>
  BY DEF engineVars, selectorVars
<1>2. 1 .. last_id \subseteq 1 .. last_id'
  OBVIOUS
<1>3. EnginesOK'
  BY <1>1, <1>2 DEF EnginesOK
<1>4. registered \cap Stored(accounts_json)' \subseteq registered \cap Stored(accounts_json)
  BY DEF EnginesOK
<1>5. DefaultSelected'
  BY <1>1, <1>4 DEF DefaultSelected, selected_outgoing_account_id
<1> QED BY <1>3, <1>5

-----------------------------------------------------------------------------
(***************************************************************************)
(* Engines, registrations and the selector: the files stay as they are.    *)
(***************************************************************************)
LEMMA SameFiles ==
    ASSUME FilesOK, DialogOK, UNCHANGED <<fileVars, dialogVars, quickdial_bar>>
    PROVE  FilesOK' /\ DialogOK' /\ Stored(accounts_json)' = Stored(accounts_json)
BY DEF FilesOK, DialogOK, fileVars, dialogVars, Stored

LEMMA LoadedIds ==
    ASSUME FilesOK
    PROVE  /\ load(accounts_json) \in Seq(Account)
           /\ Ids(load(accounts_json)) = Ids(accounts_json.list)
           /\ IsInjective(Ids(load(accounts_json)))
           /\ Range(Ids(load(accounts_json))) = Stored(accounts_json)
           /\ Range(Ids(load(accounts_json))) \subseteq 1 .. last_id
BY LoadKeepsIds DEF FilesOK, Listing, Stored

LEMMA RegistrationKeeps ==
    ASSUME FileInv, NEW a \in Id, Registers(a) \/ RegistrationFails(a)
    PROVE  FileInv'
<1>1. /\ UNCHANGED <<fileVars, dialogVars, quickdial_bar>> /\ UNCHANGED active_engines
      /\ registered' \subseteq Range(active_engines) /\ refresh_account_selector(load(accounts_json))
  BY DEF Registers, RegistrationFails, EngineFrame, FileInv, EnginesOK
<1>2. FilesOK' /\ DialogOK' /\ Stored(accounts_json)' = Stored(accounts_json)
  BY <1>1, SameFiles DEF FileInv
<1>3. EnginesOK'
  BY <1>1 DEF FileInv, EnginesOK, fileVars
<1>4. Range(Ids(load(accounts_json))) = Stored(accounts_json)'
  BY <1>2, LoadedIds DEF FileInv
<1>5. DefaultSelected'
  BY <1>1, <1>3, <1>4, RefreshSelects
<1> QED BY <1>2, <1>3, <1>5 DEF FileInv

LEMMA ReconnectAllKeeps ==
    ASSUME FileInv, ReconnectAll PROVE FileInv'
<1>1. UNCHANGED <<fileVars, dialogVars, quickdial_bar>> /\ registered' = {}
  BY DEF ReconnectAll, EngineFrame
<1>2. PICK I \in SUBSET DOMAIN active_engines : active_engines' = Picked(active_engines, I)
  BY DEF ReconnectAll, Where
<1>3. active_engines \in Seq(Id) /\ IsInjective(active_engines) /\ Range(active_engines) \subseteq 1 .. last_id
  BY DEF FileInv, EnginesOK
<1>4. {active_engines[i] : i \in I} \subseteq Range(active_engines)
  BY DEF Range
<1>5. /\ active_engines' \in Seq(Id) /\ IsInjective(active_engines')
      /\ Range(active_engines') \subseteq Range(active_engines)
  BY <1>2, <1>3, <1>4, PickedElements, PickedRange
<1>6. EnginesOK'
  BY <1>1, <1>3, <1>5 DEF EnginesOK, fileVars
<1>7. DefaultSelected'
  BY <1>1 DEF DefaultSelected
<1> QED BY <1>1, <1>6, <1>7, SameFiles DEF FileInv

LEMMA UserSelectsKeeps ==
    ASSUME FileInv, NEW i \in Id, UserSelects(i) PROVE FileInv'
<1>1. /\ UNCHANGED <<fileVars, dialogVars, quickdial_bar, engineVars, selector_account_ids>>
      /\ i \in DOMAIN selector_account_ids
      /\ selected' = i /\ default_account' = selector_account_ids[i]
  BY DEF UserSelects
<1>2. EnginesOK'
  BY <1>1 DEF FileInv, EnginesOK, engineVars, fileVars
<1>3. DefaultSelected'
  BY <1>1 DEF DefaultSelected, selected_outgoing_account_id
<1> QED BY <1>1, <1>2, <1>3, SameFiles DEF FileInv
-----------------------------------------------------------------------------
(***************************************************************************)
(* The settings dialog.                                                    *)
(***************************************************************************)
LEMMA LaterIds ==
    ASSUME NEW list, NEW Entry, NEW m \in Nat, NEW n \in Nat, m <= n, Listing(list, Entry, m)
    PROVE  Listing(list, Entry, n)
<1>1. 1 .. m \subseteq 1 .. n
  OBVIOUS
<1> QED BY <1>1 DEF Listing

LEMMA NoEntries == \A Entry, n : Listing(<<>>, Entry, n) /\ Ids(<<>>) = <<>>
<1>1. Ids(<<>>) = <<>> /\ Range(Ids(<<>>)) = {} /\ IsInjective(Ids(<<>>))
  <2>1. DOMAIN <<>> = {} /\ <<>> = [i \in {} |-> <<>>[i].id]
    OBVIOUS
  <2> QED BY <2>1 DEF Ids, Range, IsInjective
<1> QED BY <1>1 DEF Listing

LEMMA AddAccountKeeps ==
    ASSUME FileInv, AddAccount PROVE FileInv'
<1> DEFINE x == NewAccount(last_id')
           list == load(accounts_json)
<1>1. /\ dialog /\ UNCHANGED <<dialog, quickdials_json, quickdial_rows, keyring, engineVars, selectorVars>>
      /\ last_id' = last_id + 1 /\ last_id + 1 < MaxIds /\ accounts_json' = Whole(Append(list, x))
      /\ account_rows' = Append(account_rows, last_id')
  BY DEF AddAccount, AccountsFrame, IdLeft
<1>2. /\ last_id \in Nat /\ last_id' \in 1 .. MaxIds /\ last_id' \in Nat /\ last_id <= last_id'
      /\ last_id' \notin 1 .. last_id /\ 1 .. last_id \subseteq 1 .. last_id'
      /\ last_id' \in 1 .. last_id'
  BY <1>1, StoresAssumption DEF FileInv, FilesOK
<1>3. x \in Account /\ x.id = last_id'
  BY <1>2 DEF NewAccount, Account, Id, Server, Port
<1>4. /\ list \in Seq(Account) /\ Ids(list) = Ids(accounts_json.list) /\ IsInjective(Ids(list))
      /\ Range(Ids(list)) = Stored(accounts_json) /\ Range(Ids(list)) \subseteq 1 .. last_id
  BY LoadedIds DEF FileInv
<1> HIDE DEF list, x
<1>5. /\ accounts_json'.list = Append(list, x) /\ accounts_json'.st = "whole"
      /\ Ids(accounts_json'.list) = Append(Ids(list), last_id')
      /\ Append(list, x) \in Seq(Account) /\ IsInjective(Ids(accounts_json'.list))
      /\ Range(Ids(accounts_json'.list)) = Stored(accounts_json) \cup {last_id'}
  BY <1>1, <1>2, <1>3, <1>4, AppendedOne DEF Whole
<1>6. Listing(accounts_json'.list, Account, last_id')
  BY <1>2, <1>4, <1>5 DEF Listing
<1>7. Listing(quickdials_json.list, QuickDial, last_id')
  BY <1>2, LaterIds DEF FileInv, FilesOK
<1>8. FilesOK'
  BY <1>1, <1>2, <1>5, <1>6, <1>7 DEF FileInv, FilesOK, FileStates
<1>9. Stored(accounts_json)' \cap 1 .. last_id \subseteq Stored(accounts_json)
  BY <1>2, <1>5 DEF Stored
<1>10. EnginesOK' /\ DefaultSelected'
  BY <1>1, <1>2, <1>9, SameEngines DEF FileInv
<1>11. DialogOK'
  BY <1>1, <1>4, <1>5 DEF FileInv, DialogOK
<1> QED BY <1>8, <1>10, <1>11 DEF FileInv

\* Without one entry the list is still one.
LEMMA DroppedListing ==
    ASSUME NEW list, NEW Entry, NEW n, NEW a, Listing(list, Entry, n)
    PROVE  /\ Listing(Dropped(list, a), Entry, n) /\ Ids(Dropped(list, a)) = Without(Ids(list), a)
           /\ Range(Ids(Dropped(list, a))) = Range(Ids(list)) \ {a}
<1>1. Dropped(list, a) \in Seq(Entry) /\ Ids(Dropped(list, a)) = Without(Ids(list), a)
  BY DroppedOne DEF Listing
<1>2. Ids(list) \in Seq({x.id : x \in Entry})
  BY IdsElements DEF Listing
<1>3. Range(Without(Ids(list), a)) = Range(Ids(list)) \ {a} /\ IsInjective(Without(Ids(list), a))
  BY <1>2, WithoutOne DEF Listing
<1> QED BY <1>1, <1>3 DEF Listing

LEMMA ReplacedListing ==
    ASSUME NEW list, NEW Entry, NEW n, NEW x \in Entry, Listing(list, Entry, n)
    PROVE  Listing(Replaced(list, x), Entry, n) /\ Ids(Replaced(list, x)) = Ids(list)
BY ReplacedOne DEF Listing

LEMMA LoadedListing ==
    ASSUME FilesOK
    PROVE  /\ Listing(load(accounts_json), Account, last_id)
           /\ Ids(load(accounts_json)) = Ids(accounts_json.list)
BY LoadedIds DEF Listing

LEMMA DroppedAccount ==
    ASSUME FilesOK, NEW a
    PROVE  Range(Ids(Dropped(load(accounts_json), a))) = Stored(accounts_json) \ {a}
<1>1. /\ Listing(load(accounts_json), Account, last_id)
      /\ Range(Ids(load(accounts_json))) = Stored(accounts_json)
  BY LoadedListing DEF Stored
<1> QED BY <1>1, DroppedListing, ZenonT(30)

LEMMA DeleteAccountKeeps ==
    ASSUME FileInv, NEW a \in Id, DeleteAccount(a) PROVE FileInv'
<1> DEFINE list == Dropped(load(accounts_json), a)
<1>1. /\ dialog /\ UNCHANGED <<dialog, quickdials_json, quickdial_rows, last_id>>
      /\ accounts_json' = Whole(list) /\ keyring' = [keyring EXCEPT ![a] = "none"]
      /\ account_rows' = Without(account_rows, a) /\ disconnect_account(a, accounts_json'.list)
  BY DEF DeleteAccount, AccountsFrame
<1>2. Listing(list, Account, last_id) /\ Ids(list) = Without(Ids(accounts_json.list), a)
  BY LoadedListing, DroppedListing DEF FileInv
<1> HIDE DEF list
<1>3. accounts_json'.list = list /\ accounts_json'.st = "whole"
  BY <1>1 DEF Whole
<1>4. FilesOK'
  BY <1>1, <1>2, <1>3 DEF FileInv, FilesOK, FileStates
<1>5. Range(Ids(accounts_json'.list)) = Stored(accounts_json)'
  BY DEF Stored
<1>6. EnginesOK' /\ DefaultSelected'
  BY <1>1, <1>5, DisconnectKeeps DEF FileInv
<1>7. DialogOK'
  BY <1>1, <1>2, <1>3 DEF FileInv, DialogOK
<1> QED BY <1>4, <1>6, <1>7 DEF FileInv

LEMMA SaveAccountKeeps ==
    ASSUME FileInv, NEW a \in Id, NEW server \in Server, NEW port \in Port, NEW startup \in BOOLEAN,
           SaveAccount(a, server, port, startup)
    PROVE  FileInv' /\ Stored(accounts_json)' = Stored(accounts_json)
<1> DEFINE x == [id |-> a, server |-> server, port |-> port, startup |-> startup]
           list == Replaced(load(accounts_json), x)
<1>1. /\ dialog /\ UNCHANGED <<dialog, quickdials_json, quickdial_rows, last_id, account_rows>>
      /\ accounts_json' = Whole(list) /\ keyring' = [keyring EXCEPT ![a] = "typed"]
      /\ IF a \in registered_ids THEN connect_account_by_id(a, load(accounts_json'))
         ELSE UNCHANGED <<engineVars, selectorVars>>
  BY DEF SaveAccount, AccountsFrame
<1>2. Listing(list, Account, last_id) /\ Ids(list) = Ids(accounts_json.list)
  <2>1. x \in Account
    BY DEF Account
  <2> HIDE DEF x
  <2> QED BY <2>1, LoadedListing, ReplacedListing DEF FileInv
<1> HIDE DEF list
<1>3. accounts_json'.list = list /\ accounts_json'.st = "whole"
  BY <1>1 DEF Whole
<1>4. FilesOK'
  BY <1>1, <1>2, <1>3 DEF FileInv, FilesOK, FileStates
<1>5. Stored(accounts_json)' = Stored(accounts_json)
  BY <1>2, <1>3 DEF Stored
<1>6. EnginesOK' /\ DefaultSelected'
  <2>1. CASE a \in registered_ids
    <3>1. /\ load(accounts_json') \in Seq(Account)
          /\ Ids(load(accounts_json')) = Ids(accounts_json'.list)
      BY <1>2, <1>3, LoadKeepsIds DEF Listing
    <3>2. /\ IsInjective(Ids(load(accounts_json')))
          /\ Range(Ids(load(accounts_json'))) \subseteq 1 .. last_id
          /\ Range(Ids(load(accounts_json'))) = Stored(accounts_json)'
      BY <1>2, <1>3, <3>1 DEF Listing, Stored
    <3>3. connect_account_by_id(a, load(accounts_json'))
      BY <1>1, <2>1
    <3> QED BY <1>1, <3>1, <3>2, <3>3, ConnectKeeps DEF FileInv
  <2>2. CASE a \notin registered_ids
    BY <1>1, <1>5, <2>2, SameEngines DEF FileInv, FilesOK
  <2> QED BY <2>1, <2>2
<1>7. DialogOK'
  BY <1>1, <1>2, <1>3 DEF FileInv, DialogOK
<1> QED BY <1>4, <1>5, <1>6, <1>7 DEF FileInv

LEMMA ToggleAccountKeeps ==
    ASSUME FileInv, NEW a \in Id, ToggleAccount(a) PROVE FileInv'
<1> DEFINE list == load(accounts_json)
<1>1. /\ UNCHANGED <<fileVars, dialog, account_rows, quickdial_rows, quickdial_bar>>
      /\ disconnect_account(a, list) \/ connect_account_by_id(a, list)
  BY DEF ToggleAccount, AccountsFrame
<1>2. FilesOK' /\ DialogOK' /\ Stored(accounts_json)' = Stored(accounts_json) /\ UNCHANGED last_id
  BY <1>1 DEF FileInv, FilesOK, DialogOK, Stored, fileVars
<1>3. /\ list \in Seq(Account) /\ IsInjective(Ids(list))
      /\ Range(Ids(list)) = Stored(accounts_json)' /\ Range(Ids(list)) \subseteq 1 .. last_id
  BY <1>2, LoadedIds DEF FileInv
<1> HIDE DEF list
<1>4. EnginesOK' /\ DefaultSelected'
  BY <1>1, <1>2, <1>3, ConnectKeeps, DisconnectKeeps DEF FileInv
<1> QED BY <1>2, <1>4 DEF FileInv

\* The handlers of the quickdials write a list and leave its ids in the rows.
QuickdialsWritten(new) ==
    /\ dialog /\ QuickdialsFrame
    /\ quickdials_json' = Whole(new) /\ quickdial_rows' = Ids(new)
    /\ Listing(new, QuickDial, last_id') /\ last_id' \in Nat /\ last_id' <= MaxIds /\ last_id <= last_id'

LEMMA WrittenKeeps ==
    ASSUME FileInv, NEW new, QuickdialsWritten(new) PROVE FileInv'
<1>1. /\ dialog /\ UNCHANGED <<accounts_json, keyring, dialog, account_rows, engineVars, selectorVars>>
      /\ quickdial_rows' = Ids(new) /\ quickdials_json'.list = new /\ quickdials_json'.st = "whole"
      /\ Listing(new, QuickDial, last_id') /\ last_id' \in Nat /\ last_id' <= MaxIds
      /\ last_id <= last_id'
  BY DEF QuickdialsWritten, QuickdialsFrame, Whole
<1>2. last_id \in Nat /\ last_id' \in 0 .. MaxIds
  BY <1>1, LastId DEF FileInv
<1>3. Listing(accounts_json.list, Account, last_id')
  BY <1>1, <1>2, LaterIds DEF FileInv, FilesOK
<1>4. FilesOK'
  BY <1>1, <1>2, <1>3 DEF FileInv, FilesOK, FileStates
<1>5. Stored(accounts_json)' = Stored(accounts_json)
  BY <1>1 DEF Stored
<1>6. EnginesOK' /\ DefaultSelected'
  BY <1>1, <1>2, <1>5, SameEngines DEF FileInv
<1>7. DialogOK'
  BY <1>1 DEF FileInv, DialogOK
<1> QED BY <1>4, <1>6, <1>7 DEF FileInv

\* What the rows show while the dialog is open.
LEMMA QuickdialRows ==
    ASSUME FileInv, dialog
    PROVE  /\ quickdial_rows = Ids(quickdials_json.list)
           /\ Listing(quickdials_json.list, QuickDial, last_id)
           /\ last_id \in Nat /\ MaxIds \in Nat /\ last_id <= MaxIds
BY LastId DEF FileInv, FilesOK, DialogOK

LEMMA NewQuickdial ==
    ASSUME NEW n \in Id PROVE [id |-> n, number |-> ""] \in QuickDial
BY DEF QuickDial

LEMMA ListingMore ==
    ASSUME NEW list, NEW Entry, NEW n \in Nat, NEW x \in Entry, x.id = n + 1, Listing(list, Entry, n)
    PROVE  Listing(Append(list, x), Entry, n + 1) /\ Ids(Append(list, x)) = Append(Ids(list), n + 1)
<1>1. n + 1 \notin 1 .. n /\ 1 .. n \subseteq 1 .. n + 1 /\ n + 1 \in 1 .. n + 1
  OBVIOUS
<1>2. list \in Seq(Entry) /\ IsInjective(Ids(list)) /\ x.id \notin Range(Ids(list))
  BY <1>1 DEF Listing
<1>3. /\ Append(list, x) \in Seq(Entry) /\ Ids(Append(list, x)) = Append(Ids(list), n + 1)
      /\ Range(Ids(Append(list, x))) = Range(Ids(list)) \cup {n + 1}
      /\ IsInjective(Ids(Append(list, x)))
  BY <1>2, AppendedOne
<1> QED BY <1>1, <1>3 DEF Listing

LEMMA AddQuickdialKeeps ==
    ASSUME FileInv, AddQuickdial PROVE FileInv' /\ UNCHANGED accounts_json
<1> DEFINE x == [id |-> last_id', number |-> ""]
           new == Append(quickdials_json.list, x)
<1>1. /\ dialog /\ QuickdialsFrame /\ last_id' = last_id + 1 /\ last_id < MaxIds
      /\ quickdials_json' = Whole(new) /\ quickdial_rows' = Append(quickdial_rows, last_id')
  BY DEF AddQuickdial, IdLeft
<1>2. x.id = last_id' /\ (last_id' \in Id => x \in QuickDial)
  BY NewQuickdial
<1> HIDE DEF x
<1>3. /\ quickdial_rows = Ids(quickdials_json.list) /\ Listing(quickdials_json.list, QuickDial, last_id)
      /\ last_id \in Nat /\ MaxIds \in Nat /\ last_id <= MaxIds
  BY <1>1, QuickdialRows
<1>4. last_id' \in Nat /\ last_id' <= MaxIds /\ last_id <= last_id' /\ last_id' \in 1 .. MaxIds
  BY <1>1, <1>3
<1>5. x \in QuickDial /\ x.id = last_id + 1
  BY <1>1, <1>2, <1>4 DEF Id
<1>6. /\ Listing(new, QuickDial, last_id + 1)
      /\ Ids(new) = Append(Ids(quickdials_json.list), last_id + 1)
  BY <1>3, <1>5, ListingMore
<1> HIDE DEF new
<1>7. QuickdialsWritten(new)
  BY <1>1, <1>3, <1>4, <1>6 DEF QuickdialsWritten
<1> QED BY <1>1, <1>7, WrittenKeeps DEF QuickdialsFrame

LEMMA DeleteQuickdialKeeps ==
    ASSUME FileInv, NEW q \in Id, DeleteQuickdial(q) PROVE FileInv' /\ UNCHANGED accounts_json
<1> DEFINE new == Dropped(quickdials_json.list, q)
<1>1. /\ dialog /\ QuickdialsFrame /\ last_id' = last_id
      /\ quickdials_json' = Whole(new) /\ quickdial_rows' = Without(quickdial_rows, q)
  BY DEF DeleteQuickdial
<1>2. /\ quickdial_rows = Ids(quickdials_json.list) /\ Listing(quickdials_json.list, QuickDial, last_id)
      /\ last_id \in Nat /\ MaxIds \in Nat /\ last_id <= MaxIds
  BY <1>1, QuickdialRows
<1>3. Listing(new, QuickDial, last_id) /\ Ids(new) = Without(Ids(quickdials_json.list), q)
  BY <1>2, DroppedListing
<1> HIDE DEF new
<1>4. QuickdialsWritten(new)
  BY <1>1, <1>2, <1>3 DEF QuickdialsWritten
<1> QED BY <1>1, <1>4, WrittenKeeps DEF QuickdialsFrame

LEMMA SaveQuickdialKeeps ==
    ASSUME FileInv, NEW q \in Id, NEW number, [id |-> q, number |-> number] \in QuickDial,
           SaveQuickdial(q, number)
    PROVE  FileInv' /\ UNCHANGED accounts_json
<1> DEFINE new == Replaced(quickdials_json.list, [id |-> q, number |-> number])
<1>1. /\ dialog /\ QuickdialsFrame /\ last_id' = last_id
      /\ quickdials_json' = Whole(new) /\ quickdial_rows' = quickdial_rows
  BY DEF SaveQuickdial
<1>2. /\ quickdial_rows = Ids(quickdials_json.list) /\ Listing(quickdials_json.list, QuickDial, last_id)
      /\ last_id \in Nat /\ MaxIds \in Nat /\ last_id <= MaxIds
  BY <1>1, QuickdialRows
<1>3. Listing(new, QuickDial, last_id) /\ Ids(new) = Ids(quickdials_json.list)
  BY <1>2, ReplacedListing
<1> HIDE DEF new
<1>4. QuickdialsWritten(new)
  BY <1>1, <1>2, <1>3 DEF QuickdialsWritten
<1> QED BY <1>1, <1>4, WrittenKeeps DEF QuickdialsFrame

LEMMA MoveQuickdialKeeps ==
    ASSUME FileInv, NEW q \in Id, MoveQuickdial(q) PROVE FileInv' /\ UNCHANGED accounts_json
<1>1. PICK pos \in DOMAIN quickdials_json.list, target \in DOMAIN quickdials_json.list :
          reorder_quickdial(pos, target)
  BY DEF MoveQuickdial
<1> DEFINE new == Swapped(quickdials_json.list, pos, target)
<1>2. /\ dialog /\ QuickdialsFrame /\ last_id' = last_id
      /\ quickdials_json' = Whole(new) /\ quickdial_rows' = Ids(quickdials_json'.list)
  BY <1>1 DEF MoveQuickdial, reorder_quickdial
<1>3. /\ Listing(quickdials_json.list, QuickDial, last_id)
      /\ last_id \in Nat /\ MaxIds \in Nat /\ last_id <= MaxIds
  BY <1>2, QuickdialRows
<1>4. Listing(new, QuickDial, last_id)
  BY <1>3, SwappedTwo DEF Listing
<1> HIDE DEF new
<1>5. QuickdialsWritten(new)
  BY <1>2, <1>3, <1>4 DEF QuickdialsWritten, Whole
<1> QED BY <1>2, <1>5, WrittenKeeps DEF QuickdialsFrame

LEMMA SettingsKeep ==
    ASSUME FileInv, OpenSettings \/ CloseSettings PROVE FileInv' /\ UNCHANGED accounts_json
<1>1. /\ UNCHANGED <<fileVars, engineVars, selectorVars>>
      /\ FilesOK'
  BY DEF OpenSettings, CloseSettings, FileInv, FilesOK, fileVars
<1>2. EnginesOK' /\ DefaultSelected'
  BY <1>1 DEF FileInv, EnginesOK, DefaultSelected, selected_outgoing_account_id, Stored,
              fileVars, engineVars, selectorVars
<1>3. Ids(load(accounts_json)) = Ids(accounts_json.list)
  BY LoadedIds DEF FileInv
<1>4. DialogOK'
  BY <1>3 DEF OpenSettings, CloseSettings, DialogOK, fileVars
<1> QED BY <1>1, <1>2, <1>4 DEF FileInv, fileVars
-----------------------------------------------------------------------------
(***************************************************************************)
(* The program starts: with the files it left, or with a torn one.         *)
(***************************************************************************)
\* What a start may find.
Found(accounts, quickdials, passwords, last) ==
    /\ Listing(accounts.list, Account, last) /\ accounts.st \in FileStates
    /\ Listing(quickdials.list, QuickDial, last) /\ quickdials.st \in FileStates
    /\ passwords \in [Id -> {"none", "legacy", "typed"}]
    /\ last \in 0 .. MaxIds /\ (Migrates(accounts) => last < MaxIds)

LEMMA MigratedListing ==
    ASSUME NEW last \in 0 .. MaxIds, last < MaxIds
    PROVE  Listing(<<LegacyAccount(last + 1)>>, Account, last + 1)
<1> DEFINE x == LegacyAccount(last + 1)
<1>1. last \in Nat /\ last + 1 \in Id
  BY StoresAssumption DEF Id
<1>2. x \in Account /\ x.id = last + 1
  BY <1>1 DEF LegacyAccount, Account, Server, Port
<1> HIDE DEF x
<1>3. Listing(<<>>, Account, last)
  BY NoEntries
<1>4. Listing(Append(<<>>, x), Account, last + 1)
  BY <1>1, <1>2, <1>3, ListingMore
<1>5. Append(<<>>, x) = <<x>>
  OBVIOUS
<1> QED BY <1>4, <1>5 DEF x

LEMMA StartedKeeps ==
    ASSUME NEW accounts, NEW quickdials, NEW passwords, NEW last,
           Found(accounts, quickdials, passwords, last), Started(accounts, quickdials, passwords, last)
    PROVE  FileInv'
<1> DEFINE json == IF Migrates(accounts) THEN Whole(<<LegacyAccount(last + 1)>>) ELSE accounts
           list == load(json)
           C == {a.id : a \in {b \in Range(list) : b.startup}}
<1>1. /\ accounts_json' = json /\ quickdials_json' = quickdials
      /\ last_id' = (IF Migrates(accounts) THEN last + 1 ELSE last)
      /\ keyring' = [a \in Id |-> IF a \in Range(Ids(list)) /\ passwords[a] = "none" /\ Legacy
                                  THEN "legacy" ELSE passwords[a]]
      /\ active_engines' = Connected(list, C)
      /\ registered' = {} /\ quickdial_bar' = Buttons(quickdials.list) /\ dialog' = FALSE
  BY Zenon DEF Started
<1>2. /\ Listing(accounts.list, Account, last) /\ accounts.st \in FileStates
      /\ Listing(quickdials.list, QuickDial, last) /\ quickdials.st \in FileStates
      /\ passwords \in [Id -> {"none", "legacy", "typed"}]
      /\ last \in 0 .. MaxIds /\ (Migrates(accounts) => last < MaxIds) /\ MaxIds \in Nat
  BY StoresAssumption DEF Found
<1>3. /\ last \in Nat /\ last_id' \in 0 .. MaxIds /\ last_id' \in Nat /\ last <= last_id'
  BY <1>1, <1>2
<1>4. Listing(json.list, Account, last_id') /\ json.st \in FileStates /\ (Legacy => json.st = "whole")
  <2>1. CASE Migrates(accounts)
    BY <1>1, <1>2, <2>1, MigratedListing DEF Whole, FileStates
  <2>2. CASE ~Migrates(accounts)
    BY <1>1, <1>2, <2>2 DEF Migrates
  <2> QED BY <2>1, <2>2
<1> HIDE DEF json
<1>5. list \in Seq(Account) /\ Ids(list) = Ids(json.list)
  BY <1>4, LoadKeepsIds DEF Listing
<1>6. Listing(quickdials_json'.list, QuickDial, last_id')
  BY <1>1, <1>2, <1>3, LaterIds
<1>7. keyring' \in [Id -> {"none", "legacy", "typed"}]
  BY <1>1, <1>2
<1>8. FilesOK'
  BY <1>1, <1>2, <1>3, <1>4, <1>6, <1>7 DEF FilesOK
<1> HIDE DEF list, C
<1>9. /\ Connected(list, C) \in Seq(Id) /\ IsInjective(Connected(list, C))
      /\ Range(Connected(list, C)) \subseteq 1 .. last_id'
  BY <1>4, <1>5, ConnectedOnce DEF Listing
<1>10. EnginesOK' /\ DefaultSelected'
  BY <1>1, <1>9 DEF EnginesOK, DefaultSelected
<1>11. DialogOK'
  BY <1>1 DEF DialogOK
<1> QED BY <1>8, <1>10, <1>11 DEF FileInv

\* Whatever ends the program, the next start is a good one.
LEMMA RestartKeeps ==
    ASSUME FileInv, NEW a \in Id, Restart \/ CrashInWrite \/ CrashInDelete(a) \/ CrashInCall
    PROVE  FileInv'
<1>1. /\ Listing(accounts_json.list, Account, last_id) /\ accounts_json.st \in FileStates
      /\ Listing(quickdials_json.list, QuickDial, last_id) /\ quickdials_json.st \in FileStates
      /\ (Legacy => accounts_json.st = "whole") /\ last_id \in 0 .. MaxIds
      /\ keyring \in [Id -> {"none", "legacy", "typed"}]
  BY DEF FileInv, FilesOK
<1>2. Listing(Torn.list, Account, last_id) /\ Listing(Torn.list, QuickDial, last_id) /\ Torn.st \in FileStates
  BY NoEntries DEF Torn, FileStates
<1>3. ~Migrates(accounts_json)
  BY <1>1 DEF Migrates
<1>4. Found(accounts_json, quickdials_json, keyring, last_id)
  BY <1>1, <1>3 DEF Found
<1>5. last_id < MaxIds => Found(Torn, quickdials_json, keyring, last_id)
  BY <1>1, <1>2 DEF Found
<1>6. Found(accounts_json, Torn, keyring, last_id)
  BY <1>1, <1>2, <1>3 DEF Found
<1>7. Found(Whole(Dropped(load(accounts_json), a)), quickdials_json, keyring, last_id)
  <2> DEFINE list == Dropped(load(accounts_json), a)
             json == Whole(list)
  <2>1. Listing(list, Account, last_id)
    BY LoadedListing, DroppedListing DEF FileInv
  <2>2. json.list = list /\ json.st = "whole" /\ "whole" \in FileStates
    BY DEF Whole, FileStates
  <2> HIDE DEF list, json
  <2>3. ~Migrates(json)
    BY <2>2 DEF Migrates
  <2>4. Found(json, quickdials_json, keyring, last_id)
    BY <1>1, <2>1, <2>2, <2>3 DEF Found
  <2> QED BY <2>4 DEF list, json
<1>8. CASE Restart
  BY <1>4, <1>8, StartedKeeps DEF Restart
<1>9. CASE CrashInWrite
  BY <1>5, <1>6, <1>9, StartedKeeps DEF CrashInWrite
<1>10. CASE CrashInDelete(a)
  BY <1>7, <1>10, StartedKeeps DEF CrashInDelete
<1>11. CASE CrashInCall
  BY <1>4, <1>11, StartedKeeps DEF CrashInCall
<1> QED BY <1>8, <1>9, <1>10, <1>11

LEMMA CallEndsKeeps ==
    ASSUME FileInv, UNCHANGED <<fileVars, dialogVars, quickdial_bar, engineVars, selectorVars>>
    PROVE  FileInv'
BY DEF FileInv, FilesOK, EnginesOK, DefaultSelected, DialogOK, selected_outgoing_account_id, Stored,
       fileVars, dialogVars, engineVars, selectorVars
-----------------------------------------------------------------------------
(***************************************************************************)
(* The call log.                                                           *)
(***************************************************************************)
Record == [started_at : Nat, number : Raws]

NewestFirst(log) ==
    \A i, j \in DOMAIN log : i < j => log[i].started_at > log[j].started_at

\* A log of calls up to the n-th.
LogOf(log, n) ==
    /\ log \in Seq(Record) /\ NewestFirst(log)
    /\ \A i \in DOMAIN log : log[i].started_at <= n

IsHead(h, s) == Len(h) <= Len(s) /\ \A i \in 1 .. Len(h) : h[i] = s[i]

\* What of a record in memory is newer than a line of the file is in the file, too.
FileKeepsNewest ==
    \A i \in DOMAIN records, j \in DOMAIN calls_log :
        Readable(records[i]) /\ records[i].started_at > calls_log[j].started_at =>
            records[i] \in Range(calls_log)

\* The Recents list starts with the rows of the log.
RecentsOK ==
    /\ recents \in Seq({Row(r) : r \in Record}) /\ Len(records) <= Len(recents)
    /\ \A i \in 1 .. Len(records) : recents[i] = Row(records[i])

LogInv ==
    /\ calls \in Nat /\ LogOf(records, calls) /\ LogOf(calls_log, calls)
    /\ logged => FileKeepsNewest
    /\ RecentsOK

LEMMA PrefixElements ==
    ASSUME NEW S, NEW s \in Seq(S), NEW n \in Nat
    PROVE  Prefix(s, n) \in Seq(S) /\ IsHead(Prefix(s, n), s)
<1> DEFINE m == IF n < Len(s) THEN n ELSE Len(s)
<1>1. Len(s) \in Nat /\ m \in Nat /\ m <= Len(s) /\ DOMAIN s = 1 .. Len(s)
  BY LenProperties
<1>2. \A i \in 1 .. m : s[i] \in S
  BY <1>1, ElementOfSeq
<1>3. Prefix(s, n) = SubSeq(s, 1, m)
  BY DEF Prefix
<1> HIDE DEF m
<1> DEFINE h == [i \in 1 .. m |-> s[i]]
<1>4. SubSeq(s, 1, m) = h
  <2>1. SubSeq(s, 1, m) = [i \in 1 .. (1 + m - 1) |-> s[i + 1 - 1]]
    BY <1>1
  <2>2. 1 + m - 1 = m /\ \A i \in 1 .. m : i + 1 - 1 = i
    BY <1>1
  <2> QED BY <2>1, <2>2
<1>5. h \in Seq(S) /\ Len(h) = m
  BY <1>1, <1>2, SeqDef
<1>6. \A i \in 1 .. m : h[i] = s[i]
  OBVIOUS
<1> HIDE DEF h
<1> QED BY <1>1, <1>3, <1>4, <1>5, <1>6 DEF IsHead

\* The head of a log is a log, and holds what is newer than what it holds.
LEMMA HeadOfLog ==
    ASSUME NEW n, NEW log, LogOf(log, n), NEW h \in Seq(Record), IsHead(h, log)
    PROVE  /\ LogOf(h, n)
           /\ \A i \in DOMAIN log, j \in DOMAIN h :
                 log[i].started_at > h[j].started_at => log[i] \in Range(h)
<1>1. /\ log \in Seq(Record) /\ Len(log) \in Nat /\ DOMAIN log = 1 .. Len(log)
      /\ Len(h) \in Nat /\ DOMAIN h = 1 .. Len(h) /\ Len(h) <= Len(log)
      /\ \A i \in 1 .. Len(h) : h[i] = log[i] /\ i \in DOMAIN log
  BY LenProperties DEF LogOf, IsHead
<1>2. \A i \in DOMAIN log : log[i].started_at \in Nat
  <2>1. \A i \in DOMAIN log : log[i] \in Record
    BY <1>1, ElementOfSeq
  <2> QED BY <2>1 DEF Record
<1>3. LogOf(h, n)
  <2>1. NewestFirst(h)
    BY <1>1 DEF LogOf, NewestFirst
  <2> QED BY <1>1, <2>1 DEF LogOf
<1>4. ASSUME NEW i \in DOMAIN log, NEW j \in DOMAIN h, log[i].started_at > h[j].started_at
      PROVE  log[i] \in Range(h)
  <2>1. h[j] = log[j] /\ j \in DOMAIN log /\ i \in Nat /\ j \in Nat
    BY <1>1
  <2>2. i # j /\ ~(j < i)
    BY <1>2, <1>4, <2>1 DEF LogOf, NewestFirst
  <2>3. i \in DOMAIN h
    BY <1>1, <2>1, <2>2
  <2> QED BY <1>1, <2>3 DEF Range
<1> QED BY <1>3, <1>4

\* What parse_file finds of a log, and that it skips nothing readable.
LEMMA ParsedLog ==
    ASSUME NEW n, NEW log, LogOf(log, n)
    PROVE  /\ LogOf(parse_file(log), n)
           /\ Range(parse_file(log)) = {r \in Range(log) : Readable(r)}
<1> DEFINE I == {i \in DOMAIN log : Readable(log[i])}
           p == Picked(log, I)
<1>1. parse_file(log) = p /\ I \in SUBSET DOMAIN log /\ log \in Seq(Record)
  BY DEF parse_file, Where, LogOf
<1>2. {log[i] : i \in I} = {r \in Range(log) : Readable(r)}
  BY DEF Range
<1> HIDE DEF I
<1>3. /\ p \in Seq(Record) /\ Range(p) = {log[i] : i \in I}
      /\ \A k \in DOMAIN p : Nth(I, k) \in I /\ p[k] = log[Nth(I, k)]
      /\ \A k, l \in DOMAIN p : k < l => Nth(I, k) < Nth(I, l)
  <2>1. p \in Seq(Record) /\ Range(p) = {log[i] : i \in I}
    BY <1>1, PickedElements, PickedRange
  <2> QED BY <1>1, <2>1, PickedElements
<1> HIDE DEF p
<1>4. \A k \in DOMAIN p : Nth(I, k) \in DOMAIN log
  BY <1>1, <1>3
<1>5. NewestFirst(p)
  BY <1>3, <1>4 DEF LogOf, NewestFirst
<1>6. \A k \in DOMAIN p : p[k].started_at <= n
  BY <1>3, <1>4 DEF LogOf
<1> QED BY <1>1, <1>2, <1>3, <1>5, <1>6 DEF LogOf

\* A call goes to the front of the log, which keeps the newest ones.
LEMMA PushedLog ==
    ASSUME LogInv, NEW r \in NewRecord
    PROVE  /\ LogOf(<<r>> \o records, calls + 1) /\ LogOf(Pushed(r), calls + 1)
           /\ IsHead(Pushed(r), <<r>> \o records)
           /\ Len(<<r>> \o records) = Len(records) + 1 /\ (<<r>> \o records)[1] = r
           /\ \A i \in 1 .. Len(records) : (<<r>> \o records)[i + 1] = records[i]
<1> DEFINE p == <<r>> \o records
<1>1. r \in Record /\ r.started_at = calls + 1 /\ calls \in Nat
  BY DEF NewRecord, Record, LogInv
<1>2. /\ records \in Seq(Record) /\ NewestFirst(records)
      /\ \A i \in DOMAIN records : records[i].started_at <= calls
      /\ Len(records) \in Nat /\ DOMAIN records = 1 .. Len(records)
  BY LenProperties DEF LogInv, LogOf
<1>3. \A i \in DOMAIN records : records[i].started_at \in Nat
  <2>1. \A i \in DOMAIN records : records[i] \in Record
    BY <1>2, ElementOfSeq
  <2> QED BY <2>1 DEF Record
<1>4. <<r>> \in Seq(Record) /\ Len(<<r>>) = 1 /\ <<r>>[1] = r
  BY <1>1
<1>5. /\ p \in Seq(Record) /\ Len(p) = Len(records) + 1
      /\ \A i \in 1 .. 1 + Len(records) : p[i] = IF i <= 1 THEN <<r>>[i] ELSE records[i - 1]
  <2>1. Len(<<r>>) + Len(records) = Len(records) + 1
    BY <1>2, <1>4
  <2> QED BY <1>2, <1>4, <2>1, ConcatProperties
<1> HIDE DEF p
<1>6. p[1] = r /\ DOMAIN p = 1 .. Len(records) + 1
  BY <1>2, <1>4, <1>5, LenProperties
<1>7. \A i \in DOMAIN p : i = 1 \/ (i - 1 \in DOMAIN records /\ p[i] = records[i - 1])
  BY <1>2, <1>5, <1>6
<1>8. NewestFirst(p)
  <2> SUFFICES ASSUME NEW i \in DOMAIN p, NEW j \in DOMAIN p, i < j
               PROVE  p[i].started_at > p[j].started_at
    BY DEF NewestFirst
  <2>1. j # 1 /\ j - 1 \in DOMAIN records /\ p[j] = records[j - 1]
    BY <1>2, <1>6, <1>7
  <2>2. CASE i = 1
    BY <1>1, <1>2, <1>3, <1>6, <2>1, <2>2
  <2>3. CASE i # 1
    <3>1. i - 1 \in DOMAIN records /\ p[i] = records[i - 1] /\ i - 1 < j - 1
      BY <1>2, <1>6, <1>7, <2>3
    <3> QED BY <1>2, <2>1, <3>1 DEF NewestFirst
  <2> QED BY <2>2, <2>3
<1>9. \A i \in DOMAIN p : p[i].started_at <= calls + 1
  <2> SUFFICES ASSUME NEW i \in DOMAIN p PROVE p[i].started_at <= calls + 1
    OBVIOUS
  <2>1. CASE i = 1
    BY <1>1, <1>6, <2>1
  <2>2. CASE i # 1
    BY <1>1, <1>2, <1>3, <1>7, <2>2
  <2> QED BY <2>1, <2>2
<1>10. LogOf(p, calls + 1)
  BY <1>5, <1>8, <1>9 DEF LogOf
<1>11. Pushed(r) = Prefix(p, MaxRecords) /\ MaxRecords \in Nat
  BY CallLogAssumption DEF Pushed, p
<1>12. Pushed(r) \in Seq(Record) /\ IsHead(Pushed(r), p)
  BY <1>5, <1>11, PrefixElements
<1>13. LogOf(Pushed(r), calls + 1)
  BY <1>10, <1>12, HeadOfLog
<1>14. \A i \in 1 .. Len(records) : p[i + 1] = records[i]
  <2> SUFFICES ASSUME NEW i \in 1 .. Len(records) PROVE p[i + 1] = records[i]
    OBVIOUS
  <2>1. i + 1 \in DOMAIN p /\ i + 1 # 1 /\ (i + 1) - 1 = i
    BY <1>2, <1>6
  <2> QED BY <1>7, <2>1
<1> QED BY <1>5, <1>6, <1>10, <1>12, <1>13, <1>14 DEF p

\* A head of the new log holds every record newer than one of its own.
LEMMA PushedKeepsNewest ==
    ASSUME LogInv, NEW r \in NewRecord, NEW h \in Seq(Record), IsHead(h, Pushed(r))
    PROVE  /\ LogOf(h, calls + 1)
           /\ \A i \in DOMAIN records, j \in DOMAIN h :
                 records[i].started_at > h[j].started_at => records[i] \in Range(h)
<1> DEFINE p == <<r>> \o records
<1>1. /\ LogOf(p, calls + 1) /\ LogOf(Pushed(r), calls + 1) /\ IsHead(Pushed(r), p)
      /\ Len(p) = Len(records) + 1 /\ \A i \in 1 .. Len(records) : p[i + 1] = records[i]
  BY PushedLog
<1> HIDE DEF p
<1>2. /\ Len(p) \in Nat /\ DOMAIN p = 1 .. Len(p) /\ Len(records) \in Nat /\ Len(h) \in Nat
      /\ DOMAIN records = 1 .. Len(records) /\ Len(Pushed(r)) \in Nat
  BY <1>1, LenProperties DEF LogInv, LogOf
<1>3. IsHead(h, p)
  BY <1>1, <1>2 DEF IsHead
<1>4. /\ LogOf(h, calls + 1)
      /\ \A i \in DOMAIN p, j \in DOMAIN h : p[i].started_at > h[j].started_at => p[i] \in Range(h)
  BY <1>1, <1>3, HeadOfLog
<1>5. \A i \in DOMAIN records : i + 1 \in DOMAIN p /\ p[i + 1] = records[i]
  BY <1>1, <1>2
<1> QED BY <1>4, <1>5

LEMMA CallLoggedKeeps ==
    ASSUME LogInv, CallLogged
    PROVE  /\ LogInv'
           /\ \A i \in DOMAIN records, j \in DOMAIN records' :
                 records[i].started_at > records'[j].started_at => records[i] \in Range(records')
<1>1. PICK r \in NewRecord :
          /\ recents' = <<Row(r)>> \o recents /\ records' = Pushed(r)
          /\ calls_log' \in Saved(records', calls_log) /\ logged' = (calls_log' # calls_log)
  BY DEF CallLogged
<1>2. calls' = calls + 1 /\ calls \in Nat /\ calls' \in Nat
  BY DEF CallLogged, LogInv
<1> DEFINE p == <<r>> \o records
<1>3. /\ LogOf(p, calls + 1) /\ LogOf(records', calls + 1) /\ IsHead(records', p)
      /\ Len(p) = Len(records) + 1 /\ p[1] = r
      /\ \A i \in 1 .. Len(records) : p[i + 1] = records[i]
  BY <1>1, PushedLog
<1> HIDE DEF p
<1>4. /\ records' \in Seq(Record) /\ Len(records') \in Nat /\ DOMAIN records' = 1 .. Len(records')
      /\ Len(records) \in Nat /\ Len(records') <= Len(records) + 1
  BY <1>3, LenProperties DEF LogInv, LogOf, IsHead
<1>5. \A h \in Seq(Record) : IsHead(h, records') =>
          /\ LogOf(h, calls + 1)
          /\ \A i \in DOMAIN records', j \in DOMAIN h :
                records'[i].started_at > h[j].started_at => records'[i] \in Range(h)
  BY <1>3, HeadOfLog
<1>6. IsHead(records', records')
  BY <1>4 DEF IsHead
<1>7. calls_log' = calls_log \/ (calls_log' \in Seq(Record) /\ IsHead(calls_log', records'))
  <2>1. CASE calls_log' = records'
    BY <1>4, <1>6, <2>1
  <2>2. CASE calls_log' \in {Prefix(records', n) : n \in 0 .. Len(records')}
    <3>1. PICK n \in 0 .. Len(records') : calls_log' = Prefix(records', n)
      BY <2>2
    <3>2. n \in Nat
      BY <1>4
    <3> QED BY <1>4, <3>1, <3>2, PrefixElements
  <2> QED BY <1>1, <2>1, <2>2 DEF Saved, Lines
<1>8. LogOf(calls_log', calls + 1)
  <2>1. CASE calls_log' = calls_log
    <3>1. /\ calls_log \in Seq(Record) /\ NewestFirst(calls_log)
          /\ \A i \in DOMAIN calls_log : calls_log[i].started_at <= calls
      BY DEF LogInv, LogOf
    <3>2. \A i \in DOMAIN calls_log : calls_log[i].started_at \in Nat
      <4>1. DOMAIN calls_log = 1 .. Len(calls_log)
        BY <3>1, LenProperties
      <4>2. \A i \in DOMAIN calls_log : calls_log[i] \in Record
        BY <3>1, <4>1, ElementOfSeq
      <4> QED BY <4>2 DEF Record
    <3>3. \A i \in DOMAIN calls_log : calls_log[i].started_at <= calls + 1
      BY <1>2, <3>1, <3>2
    <3> QED BY <2>1, <3>1, <3>3 DEF LogOf
  <2>2. CASE calls_log' # calls_log
    BY <1>5, <1>7, <2>2
  <2> QED BY <2>1, <2>2
<1>9. logged' => FileKeepsNewest'
  <2> SUFFICES ASSUME calls_log' # calls_log PROVE FileKeepsNewest'
    BY <1>1
  <2> QED BY <1>5, <1>7 DEF FileKeepsNewest
<1>10. RecentsOK'
  <2> DEFINE T == {Row(x) : x \in Record}
             q == <<Row(r)>> \o recents
  <2>1. r \in Record
    BY <1>2 DEF NewRecord, Record
  <2>2. <<Row(r)>> \in Seq(T) /\ Len(<<Row(r)>>) = 1 /\ <<Row(r)>>[1] = Row(r)
    BY <2>1
  <2>3. /\ recents \in Seq(T) /\ Len(records) <= Len(recents)
        /\ \A i \in 1 .. Len(records) : recents[i] = Row(records[i])
    BY DEF LogInv, RecentsOK
  <2>4. Len(recents) \in Nat
    BY <2>3, LenProperties
  <2> HIDE DEF T
  <2>5. /\ q \in Seq(T) /\ Len(q) = 1 + Len(recents)
        /\ \A i \in 1 .. 1 + Len(recents) : q[i] = IF i <= 1 THEN <<Row(r)>>[i] ELSE recents[i - 1]
    BY <2>2, <2>3, ConcatProperties
  <2> HIDE DEF q
  <2>6. Len(records') <= Len(q) /\ \A i \in 1 .. Len(records') : records'[i] = p[i]
    BY <1>3, <1>4, <2>3, <2>4, <2>5 DEF IsHead
  <2>7. ASSUME NEW i \in 1 .. Len(records') PROVE q[i] = Row(records'[i])
    <3>1. CASE i = 1
      BY <1>3, <2>2, <2>4, <2>5, <2>6, <3>1
    <3>2. CASE i # 1
      <4>1. i - 1 \in 1 .. Len(records) /\ (i - 1) + 1 = i /\ i \in 1 .. 1 + Len(recents) /\ ~(i <= 1)
        BY <1>4, <2>3, <2>4, <3>2
      <4>2. q[i] = recents[i - 1] /\ recents[i - 1] = Row(records[i - 1])
        BY <2>3, <2>5, <4>1
      <4>3. p[i] = records[i - 1]
        BY <1>3, <4>1
      <4> QED BY <2>6, <4>2, <4>3
    <3> QED BY <3>1, <3>2
  <2>8. recents' = q
    BY <1>1 DEF q
  <2> QED BY <2>5, <2>6, <2>7, <2>8 DEF RecentsOK, T
<1>11. LogInv'
  BY <1>2, <1>3, <1>8, <1>9, <1>10 DEF LogInv
<1>12. IsHead(Pushed(r), Pushed(r)) /\ Pushed(r) \in Seq(Record)
  BY <1>1, <1>4, <1>6
<1> QED BY <1>1, <1>11, <1>12, PushedKeepsNewest

\* The log is read from a file that keeps what is newest of the records.
LEMMA LogLoadedKeeps ==
    ASSUME LogInv, NEW log, calls' \in Nat, LogOf(log, calls'), LogLoaded(log)
    PROVE  /\ LogInv'
           /\ (\A i \in DOMAIN records, j \in DOMAIN log :
                  Readable(records[i]) /\ records[i].started_at > log[j].started_at =>
                      records[i] \in Range(log))
              => \A i \in DOMAIN records, j \in DOMAIN records' :
                    Readable(records[i]) /\ records[i].started_at > records'[j].started_at =>
                        records[i] \in Range(records')
<1>1. calls_log' = log /\ records' = parse_file(log) /\ recents' = Rows(records')
  BY DEF LogLoaded
<1>2. LogOf(records', calls') /\ Range(records') = {r \in Range(log) : Readable(r)}
  BY <1>1, ParsedLog
<1>3. /\ records' \in Seq(Record) /\ Len(records') \in Nat /\ DOMAIN records' = 1 .. Len(records')
  BY <1>2, LenProperties DEF LogOf
<1>4. \A i \in 1 .. Len(records') : records'[i] \in Record
  BY <1>3, ElementOfSeq
<1>5. FileKeepsNewest'
  <2>1. \A i \in DOMAIN records' : records'[i] \in Range(log)
    BY <1>2 DEF Range
  <2> QED BY <1>1, <2>1 DEF FileKeepsNewest
<1>6. RecentsOK'
  <2> DEFINE T == {Row(x) : x \in Record}
             rows == [i \in 1 .. Len(records') |-> Row(records'[i])]
  <2>1. recents' = rows
    BY <1>1, <1>3 DEF Rows
  <2>2. \A i \in 1 .. Len(records') : rows[i] \in T
    BY <1>4
  <2>3. rows \in [1 .. Len(records') -> T]
    BY <2>2
  <2> HIDE DEF T
  <2>4. rows \in Seq(T) /\ Len(rows) = Len(records')
    BY <1>3, <2>3, SeqDef
  <2>5. \A i \in 1 .. Len(records') : rows[i] = Row(records'[i])
    OBVIOUS
  <2> HIDE DEF rows
  <2>6. Len(records') <= Len(rows)
    BY <1>3, <2>4
  <2> QED BY <2>1, <2>4, <2>5, <2>6 DEF RecentsOK, T
<1>7. LogInv'
  BY <1>1, <1>2, <1>5, <1>6 DEF LogInv
<1>8. ASSUME \A i \in DOMAIN records, j \in DOMAIN log :
                Readable(records[i]) /\ records[i].started_at > log[j].started_at =>
                    records[i] \in Range(log),
             NEW i \in DOMAIN records, NEW j \in DOMAIN records',
             Readable(records[i]), records[i].started_at > records'[j].started_at
      PROVE  records[i] \in Range(records')
  <2>1. records'[j] \in Range(log)
    BY <1>2 DEF Range
  <2>2. PICK k \in DOMAIN log : records'[j] = log[k]
    BY <2>1 DEF Range
  <2> QED BY <1>2, <1>8, <2>2
<1> QED BY <1>7, <1>8

\* The program starts again: with the lines that are there, or with what save has
\* written of them.
LEMMA LogRestartsKeeps ==
    ASSUME LogInv, LogRestarts
    PROVE  /\ LogInv'
           /\ logged => \A i \in DOMAIN records, j \in DOMAIN records' :
                 Readable(records[i]) /\ records[i].started_at > records'[j].started_at =>
                     records[i] \in Range(records')
<1>1. LogLoaded(calls_log) /\ calls' = calls /\ calls' \in Nat /\ LogOf(calls_log, calls')
  BY DEF LogRestarts, LogInv
<1>2. logged => FileKeepsNewest
  BY DEF LogInv
<1> QED BY <1>1, <1>2, LogLoadedKeeps DEF FileKeepsNewest

LEMMA CrashInSaveKeeps ==
    ASSUME LogInv, CrashInSave
    PROVE  /\ LogInv'
           /\ \A i \in DOMAIN records, j \in DOMAIN records' :
                 Readable(records[i]) /\ records[i].started_at > records'[j].started_at =>
                     records[i] \in Range(records')
<1>1. PICK r \in NewRecord, n \in 0 .. MaxRecords : LogLoaded(Prefix(Pushed(r), n))
  BY DEF CrashInSave, Lines
<1> DEFINE h == Prefix(Pushed(r), n)
<1>2. calls' = calls + 1 /\ calls' \in Nat /\ n \in Nat
  BY CallLogAssumption DEF CrashInSave, LogInv
<1>3. Pushed(r) \in Seq(Record)
  BY PushedLog DEF LogOf
<1>4. h \in Seq(Record) /\ IsHead(h, Pushed(r))
  BY <1>2, <1>3, PrefixElements
<1>5. LogLoaded(h)
  BY <1>1
<1> HIDE DEF h
<1>6. /\ LogOf(h, calls')
      /\ \A i \in DOMAIN records, j \in DOMAIN h :
            records[i].started_at > h[j].started_at => records[i] \in Range(h)
  BY <1>2, <1>4, PushedKeepsNewest
<1> QED BY <1>2, <1>5, <1>6, LogLoadedKeeps
-----------------------------------------------------------------------------
(***************************************************************************)
(* The steps, by what they touch.                                          *)
(***************************************************************************)
LeavesFiles(a) ==
    \/ Registers(a) \/ RegistrationFails(a) \/ UserSelects(a) \/ ReconnectAll
    \/ OpenSettings \/ CloseSettings \/ ToggleAccount(a)

SavesAccount(a) ==
    \E server \in Server, port \in Port, startup \in BOOLEAN : SaveAccount(a, server, port, startup)

SavesQuickdial(q) ==
    \E number : [id |-> q, number |-> number] \in QuickDial /\ SaveQuickdial(q, number)

EditsAccounts(a) == AddAccount \/ DeleteAccount(a) \/ SavesAccount(a)
EditsQuickdials(q) == AddQuickdial \/ DeleteQuickdial(q) \/ SavesQuickdial(q) \/ MoveQuickdial(q)
Starts(a) == Restart \/ CrashInWrite \/ CrashInDelete(a) \/ CrashInCall

LEMMA EveryStep ==
    ASSUME StoresNext
    PROVE  \E a \in Id : LeavesFiles(a) \/ EditsAccounts(a) \/ EditsQuickdials(a)
                         \/ Starts(a) \/ CallEnds
<1>1. 1 \in Id
  BY StoresAssumption DEF Id
<1>2. ASSUME NEW a \in Id, NEW number \in {"", "number"}, SaveQuickdial(a, number)
      PROVE  SavesQuickdial(a)
  BY <1>2, Zenon DEF SavesQuickdial, QuickDial
<1> QED BY <1>1, <1>2, Zenon DEF StoresNext, LeavesFiles, SavesAccount, EditsAccounts, EditsQuickdials, Starts

LEMMA LeavesFilesKeeps ==
    ASSUME FileInv, NEW a \in Id, LeavesFiles(a)
    PROVE  /\ FileInv' /\ UNCHANGED <<logVars, accounts_json>>
           /\ default_account' # default_account => UserSelects(a)
<1>1. CASE Registers(a) \/ RegistrationFails(a)
  <2>1. UNCHANGED <<logVars, fileVars, default_account>>
    BY <1>1 DEF Registers, RegistrationFails, EngineFrame, refresh_account_selector, SelectorQuiet
  <2> QED BY <1>1, <2>1, RegistrationKeeps DEF fileVars
<1>2. CASE UserSelects(a)
  BY <1>2, UserSelectsKeeps DEF UserSelects, fileVars
<1>3. CASE ReconnectAll
  <2>1. UNCHANGED <<logVars, fileVars, selectorVars>>
    BY <1>3 DEF ReconnectAll, EngineFrame
  <2> QED BY <1>3, <2>1, ReconnectAllKeeps DEF fileVars, selectorVars
<1>4. CASE OpenSettings \/ CloseSettings
  <2>1. UNCHANGED <<logVars, fileVars, selectorVars>>
    BY <1>4 DEF OpenSettings, CloseSettings
  <2> QED BY <1>4, <2>1, SettingsKeep DEF fileVars, selectorVars
<1>5. CASE ToggleAccount(a)
  <2>1. UNCHANGED <<logVars, fileVars, default_account>>
    BY <1>5 DEF ToggleAccount, AccountsFrame, disconnect_account, connect_account_by_id,
                refresh_account_selector, SelectorQuiet
  <2> QED BY <1>5, <2>1, ToggleAccountKeeps DEF fileVars
<1> QED BY <1>1, <1>2, <1>3, <1>4, <1>5 DEF LeavesFiles

LEMMA EditsAccountsKeeps ==
    ASSUME FileInv, NEW a \in Id, EditsAccounts(a)
    PROVE  /\ FileInv' /\ UNCHANGED <<logVars, default_account>>
           /\ \A b \in Stored(accounts_json) \ Stored(accounts_json)' : b = a /\ DeleteAccount(a)
           /\ Stored(accounts_json)' \subseteq Stored(accounts_json) \/ AddAccount
<1>1. CASE AddAccount
  <2> DEFINE list == load(accounts_json)
             x == NewAccount(last_id')
  <2>1. UNCHANGED <<logVars, selectorVars>>
    BY <1>1 DEF AddAccount, AccountsFrame
  <2>2. FileInv'
    BY <1>1, AddAccountKeeps
  <2>3. accounts_json' = Whole(Append(list, x)) /\ last_id' = last_id + 1 /\ last_id + 1 < MaxIds
    BY <1>1 DEF AddAccount, IdLeft
  <2>4. last_id' \in Id
    BY <2>3, LastId DEF FileInv, Id
  <2>5. x \in Account
    BY <2>4 DEF NewAccount, Account, Server, Port
  <2>6. list \in Seq(Account) /\ Range(Ids(list)) = Stored(accounts_json)
    BY LoadedIds DEF FileInv
  <2> HIDE DEF list, x
  <2>7. Range(Ids(Append(list, x))) = Stored(accounts_json) \cup {x.id}
    BY <2>5, <2>6, AppendedOne
  <2>8. Stored(accounts_json)' = Stored(accounts_json) \cup {x.id}
    BY <2>3, <2>7 DEF Stored, Whole
  <2> QED BY <1>1, <2>1, <2>2, <2>8 DEF selectorVars
<1>2. CASE DeleteAccount(a)
  <2> DEFINE list == Dropped(load(accounts_json), a)
  <2>1. UNCHANGED <<logVars, default_account>> /\ accounts_json' = Whole(list)
    BY <1>2 DEF DeleteAccount, AccountsFrame, disconnect_account, refresh_account_selector, SelectorQuiet
  <2>2. Range(Ids(list)) = Stored(accounts_json) \ {a}
    BY DroppedAccount DEF FileInv
  <2> HIDE DEF list
  <2>3. Stored(accounts_json)' = Stored(accounts_json) \ {a}
    BY <2>1, <2>2 DEF Stored, Whole
  <2> QED BY <1>2, <2>1, <2>3, DeleteAccountKeeps
<1>3. CASE SavesAccount(a)
  <2>1. PICK server \in Server, port \in Port, startup \in BOOLEAN :
            SaveAccount(a, server, port, startup)
    BY <1>3 DEF SavesAccount
  <2>2. UNCHANGED <<logVars, default_account>>
    BY <2>1 DEF SaveAccount, AccountsFrame, connect_account_by_id, refresh_account_selector,
                SelectorQuiet, selectorVars
  <2> QED BY <2>1, <2>2, SaveAccountKeeps
<1> QED BY <1>1, <1>2, <1>3 DEF EditsAccounts

LEMMA EditsQuickdialsKeeps ==
    ASSUME FileInv, NEW q \in Id, EditsQuickdials(q)
    PROVE  FileInv' /\ UNCHANGED <<logVars, accounts_json, default_account>>
<1>1. QuickdialsFrame
  BY DEF EditsQuickdials, AddQuickdial, DeleteQuickdial, SavesQuickdial, SaveQuickdial, MoveQuickdial,
         reorder_quickdial
<1>2. UNCHANGED <<logVars, default_account>>
  BY <1>1 DEF QuickdialsFrame, selectorVars
<1>3. FileInv' /\ UNCHANGED accounts_json
  BY AddQuickdialKeeps, DeleteQuickdialKeeps, SaveQuickdialKeeps, MoveQuickdialKeeps
     DEF EditsQuickdials, SavesQuickdial
<1> QED BY <1>2, <1>3

\* A start with the accounts of before, or without the one that is being deleted.
LEMMA StartsKeeps ==
    ASSUME FileInv, NEW a \in Id, Starts(a)
    PROVE  /\ FileInv' /\ UNCHANGED default_account /\ (LogRestarts \/ CrashInSave)
           /\ accounts_json.st = "whole" /\ ~CrashInWrite =>
                 /\ \A b \in Stored(accounts_json) \ Stored(accounts_json)' : b = a /\ CrashInDelete(a)
                 /\ Stored(accounts_json)' \subseteq Stored(accounts_json)
<1>1. FileInv'
  BY RestartKeeps DEF Starts
<1>2. UNCHANGED default_account
  BY DEF Starts, Restart, CrashInWrite, CrashInDelete, CrashInCall, Started
<1>3. LogRestarts \/ CrashInSave
  BY DEF Starts, Restart, CrashInWrite, CrashInDelete, CrashInCall
<1>4. ASSUME accounts_json.st = "whole", Restart \/ CrashInCall
      PROVE  Stored(accounts_json)' = Stored(accounts_json)
  <2>1. Started(accounts_json, quickdials_json, keyring, last_id) /\ ~Migrates(accounts_json)
    BY <1>4 DEF Restart, CrashInCall, Migrates
  <2>2. accounts_json' = accounts_json
    BY <2>1 DEF Started
  <2> QED BY <2>2 DEF Stored
<1>5. ASSUME CrashInDelete(a) PROVE Stored(accounts_json)' = Stored(accounts_json) \ {a}
  <2> DEFINE list == Dropped(load(accounts_json), a)
             json == Whole(list)
  <2>1. Range(Ids(list)) = Stored(accounts_json) \ {a}
    BY DroppedAccount DEF FileInv
  <2>2. Started(json, quickdials_json, keyring, last_id) /\ json.st = "whole" /\ json.list = list
    BY <1>5 DEF CrashInDelete, Whole
  <2> HIDE DEF list, json
  <2>3. ~Migrates(json)
    BY <2>2 DEF Migrates
  <2>4. accounts_json' = json
    BY <2>2, <2>3 DEF Started
  <2> QED BY <2>1, <2>2, <2>4 DEF Stored
<1> QED BY <1>1, <1>2, <1>3, <1>4, <1>5 DEF Starts

-----------------------------------------------------------------------------
(***************************************************************************)
(* The invariant, and the properties.                                      *)
(***************************************************************************)
StoresInv == FileInv /\ LogInv

LEMMA StoresStart == StoresInit => StoresInv
<1> SUFFICES ASSUME StoresInit PROVE StoresInv
  OBVIOUS
<1>1. /\ accounts_json = (IF Legacy THEN Whole(<<LegacyAccount(1)>>) ELSE Missing)
      /\ quickdials_json = Missing /\ last_id = (IF Legacy THEN 1 ELSE 0)
      /\ keyring = [a \in Id |-> IF Legacy /\ a = 1 THEN "legacy" ELSE "none"]
      /\ active_engines = (IF Legacy THEN <<1>> ELSE <<>>)
      /\ registered = {} /\ quickdial_bar = <<>> /\ dialog = FALSE
  BY DEF StoresInit
<1>2. MaxIds \in Nat /\ 0 < MaxIds /\ 1 \in Id /\ 0 \in 0 .. MaxIds /\ 1 \in 0 .. MaxIds /\ 0 + 1 = 1
  BY StoresAssumption DEF Id
<1>3. Listing(<<LegacyAccount(1)>>, Account, 1)
  BY <1>2, MigratedListing
<1>4. FilesOK
  <2>1. keyring \in [Id -> {"none", "legacy", "typed"}] /\ last_id \in 0 .. MaxIds
    BY <1>1, <1>2
  <2>2. Listing(Missing.list, QuickDial, last_id) /\ Listing(Missing.list, Account, last_id)
        /\ Missing.st \in FileStates
    BY NoEntries DEF Missing, FileStates
  <2>3. CASE Legacy
    <3>1. accounts_json.list = <<LegacyAccount(1)>> /\ accounts_json.st = "whole" /\ last_id = 1
      BY <1>1, <2>3 DEF Whole
    <3> QED BY <1>1, <1>3, <2>1, <2>2, <3>1 DEF FilesOK, FileStates
  <2>4. CASE ~Legacy
    BY <1>1, <2>1, <2>2, <2>4 DEF FilesOK
  <2> QED BY <2>3, <2>4
<1>5. EnginesOK /\ DefaultSelected
  <2>1. active_engines \in Seq(Id) /\ IsInjective(active_engines)
    BY <1>1, <1>2 DEF IsInjective
  <2>2. Range(active_engines) \subseteq 1 .. last_id
    BY <1>1 DEF Range
  <2> QED BY <1>1, <2>1, <2>2 DEF EnginesOK, DefaultSelected
<1>6. DialogOK
  <2> DEFINE I == {i \in DOMAIN <<>> : <<>>[i].number # ""}
  <2>1. Buttons(<<>>) = Ids(Picked(<<>>, I))
    BY DEF Buttons, Where
  <2>2. I \in SUBSET DOMAIN <<>>
    BY Zenon
  <2> HIDE DEF I
  <2>3. I = {}
    BY <2>2
  <2>4. Picked(<<>>, {}) = <<>>
    <3>1. Cardinality({}) = 0
      BY FS_EmptySet
    <3> QED BY <3>1 DEF Picked
  <2> QED BY <1>1, <2>1, <2>3, <2>4, NoEntries DEF DialogOK, Missing
<1>7. LogInv
  <2>1. records = <<>> /\ calls_log = <<>> /\ recents = <<>> /\ calls = 0
    BY DEF StoresInit, LogInit
  <2>2. LogOf(<<>>, 0)
    BY DEF LogOf, NewestFirst
  <2>3. FileKeepsNewest
    BY <2>1 DEF FileKeepsNewest
  <2>4. RecentsOK
    BY <2>1 DEF RecentsOK
  <2> QED BY <2>1, <2>2, <2>3, <2>4 DEF LogInv
<1> QED BY <1>4, <1>5, <1>6, <1>7 DEF FileInv, StoresInv

LEMMA SameLog ==
    ASSUME LogInv, UNCHANGED logVars
    PROVE  /\ LogInv'
           /\ \A i \in DOMAIN records, j \in DOMAIN records' :
                 records[i].started_at > records'[j].started_at => records[i] \in Range(records')
<1>1. UNCHANGED <<records, calls_log, recents, calls, logged>>
  BY DEF logVars
<1>2. LogInv'
  BY <1>1 DEF LogInv, LogOf, NewestFirst, FileKeepsNewest, RecentsOK
<1> QED BY <1>1, <1>2 DEF Range

LEMMA StoresKeeps ==
    ASSUME StoresInv, [StoresNext]_storeVars
    PROVE  /\ StoresInv'
           /\ logged => \A i \in DOMAIN records, j \in DOMAIN records' :
                 Readable(records[i]) /\ records[i].started_at > records'[j].started_at =>
                     records[i] \in Range(records')
<1>0. FileInv /\ LogInv
  BY DEF StoresInv
<1>1. CASE UNCHANGED storeVars
  <2>1. UNCHANGED <<logVars, fileVars, dialogVars, quickdial_bar, engineVars, selectorVars>>
    BY <1>1 DEF storeVars
  <2>2. FileInv'
    BY <1>0, <2>1, CallEndsKeeps
  <2> QED BY <1>0, <2>1, <2>2, SameLog DEF StoresInv
<1>2. CASE StoresNext
  <2>1. PICK a \in Id : LeavesFiles(a) \/ EditsAccounts(a) \/ EditsQuickdials(a) \/ Starts(a) \/ CallEnds
    BY <1>2, EveryStep
  <2>2. CASE LeavesFiles(a) \/ EditsAccounts(a) \/ EditsQuickdials(a)
    <3>1. FileInv' /\ UNCHANGED logVars
      BY <1>0, <2>2, LeavesFilesKeeps, EditsAccountsKeeps, EditsQuickdialsKeeps
    <3> QED BY <1>0, <3>1, SameLog DEF StoresInv
  <2>3. CASE Starts(a)
    <3>1. FileInv' /\ (LogRestarts \/ CrashInSave)
      BY <1>0, <2>3, StartsKeeps
    <3> QED BY <1>0, <3>1, LogRestartsKeeps, CrashInSaveKeeps DEF StoresInv
  <2>4. CASE CallEnds
    <3>1. FileInv' /\ CallLogged
      BY <1>0, <2>4, CallEndsKeeps DEF CallEnds
    <3> QED BY <1>0, <3>1, CallLoggedKeeps DEF StoresInv
  <2> QED BY <2>1, <2>2, <2>3, <2>4
<1> QED BY <1>1, <1>2

LEMMA StoresInvariant == StoresSpec => []StoresInv
<1>1. StoresInv /\ [StoresNext]_storeVars => StoresInv'
  BY StoresKeeps
<1> QED BY <1>1, StoresStart, PTL DEF StoresSpec

\* Ids are never given out twice: entries of a file have different ones, and so have
\* the engines.
THEOREM StoresTypes == StoresSpec => []StoresTypeOK
<1>1. StoresInv => StoresTypeOK
  <2> SUFFICES ASSUME FileInv PROVE StoresTypeOK
    BY DEF StoresInv
  <2>1. /\ accounts_json.list \in Seq(Account) /\ quickdials_json.list \in Seq(QuickDial)
        /\ active_engines \in Seq(Id)
    BY DEF FileInv, FilesOK, EnginesOK, Listing
  <2>2. ASSUME NEW S, NEW s \in Seq(S) PROVE Range(s) \subseteq S
    <3>1. \A i \in DOMAIN s : s[i] \in S
      BY LenProperties, ElementOfSeq
    <3> QED BY <3>1 DEF Range
  <2>3. /\ Range(accounts_json.list) \subseteq Account /\ Range(quickdials_json.list) \subseteq QuickDial
        /\ Range(active_engines) \subseteq Id
    BY <2>1, <2>2
  <2>4. 1 .. last_id \subseteq 0 .. last_id
    OBVIOUS
  <2> QED BY <2>3, <2>4 DEF FileInv, FilesOK, EnginesOK, Listing, FileStates, Stored, StoresTypeOK
<1> QED BY <1>1, StoresInvariant, PTL

\* The rows of the dialog edit the entries of the files in their order, the bar shows
\* the stored quickdials once it is closed, and the Recents list starts with the log.
THEOREM ScreensShowTheStores == StoresSpec => []ScreensShowStores
<1>1. StoresInv => ScreensShowStores
  <2> SUFFICES ASSUME FileInv, LogInv PROVE ScreensShowStores
    BY DEF StoresInv
  <2> DEFINE n == Len(records)
             T == {Row(x) : x \in Record}
  <2>1. /\ recents \in Seq(T) /\ n <= Len(recents) /\ records \in Seq(Record)
        /\ \A i \in 1 .. n : recents[i] = Row(records[i])
    BY DEF LogInv, LogOf, RecentsOK
  <2>2. n \in Nat /\ DOMAIN records = 1 .. n /\ Len(recents) \in Nat
    BY <2>1, LenProperties
  <2> DEFINE h == Prefix(recents, n)
  <2>3. h \in Seq(T) /\ IsHead(h, recents)
    BY <2>1, <2>2, PrefixElements
  <2>4. Len(h) = n
    <3>1. h = SubSeq(recents, 1, n)
      BY <2>1, <2>2 DEF Prefix
    <3>2. \A i \in 1 .. n : recents[i] \in T
      BY <2>1, <2>2, ElementOfSeq
    <3> QED BY <2>2, <3>1, <3>2, SubSeqProperties
  <2> HIDE DEF h
  <2>5. DOMAIN h = 1 .. n /\ \A i \in 1 .. n : h[i] = Row(records[i])
    BY <2>1, <2>3, <2>4, LenProperties DEF IsHead
  <2>6. h = [i \in 1 .. n |-> h[i]]
    BY <2>3, <2>4, LenProperties
  <2>7. Rows(records) = h
    BY <2>2, <2>5, <2>6 DEF Rows
  <2> QED BY <2>7 DEF h, FileInv, DialogOK, ScreensShowStores
<1> QED BY <1>1, StoresInvariant, PTL

\* accounts.rs: only the delete button takes an account from the file, only the add
\* button puts one there, and no start imports the old settings over a file it can read.
THEOREM AccountsBelongToUsers == StoresSpec => AccountsAreUsers
<1>1. ASSUME StoresInv, [StoresNext]_storeVars
      PROVE  [accounts_json.st = "whole" /\ ~CrashInWrite =>
                 /\ \A a \in Stored(accounts_json) \ Stored(accounts_json)' :
                       DeleteAccount(a) \/ CrashInDelete(a)
                 /\ Stored(accounts_json)' \subseteq Stored(accounts_json) \/ AddAccount]_storeVars
  <2> SUFFICES ASSUME StoresNext, accounts_json.st = "whole", ~CrashInWrite
               PROVE  /\ \A a \in Stored(accounts_json) \ Stored(accounts_json)' :
                            DeleteAccount(a) \/ CrashInDelete(a)
                      /\ Stored(accounts_json)' \subseteq Stored(accounts_json) \/ AddAccount
    BY <1>1
  <2>0. FileInv
    BY <1>1 DEF StoresInv
  <2>1. PICK a \in Id : LeavesFiles(a) \/ EditsAccounts(a) \/ EditsQuickdials(a) \/ Starts(a) \/ CallEnds
    BY EveryStep
  <2>2. CASE LeavesFiles(a) \/ EditsQuickdials(a) \/ CallEnds
    <3>1. UNCHANGED accounts_json
      BY <2>0, <2>2, LeavesFilesKeeps, EditsQuickdialsKeeps DEF CallEnds, fileVars
    <3> QED BY <3>1 DEF Stored
  <2>3. CASE EditsAccounts(a)
    BY <2>0, <2>3, EditsAccountsKeeps
  <2>4. CASE Starts(a)
    BY <2>0, <2>4, StartsKeeps
  <2> QED BY <2>1, <2>2, <2>3, <2>4
<1> QED BY <1>1, StoresInvariant, PTL DEF StoresSpec, AccountsAreUsers

\* window.rs: refreshing the selector never overwrites the user's default, and selects
\* it whenever its account is registered.
THEOREM DefaultOutlives == StoresSpec => DefaultSurvives
<1>1. ASSUME StoresInv, [StoresNext]_storeVars
      PROVE  [default_account' # default_account => \E i \in Id : UserSelects(i)]_storeVars
  <2> SUFFICES ASSUME StoresNext, default_account' # default_account
               PROVE  \E i \in Id : UserSelects(i)
    BY <1>1
  <2>0. FileInv
    BY <1>1 DEF StoresInv
  <2>1. PICK a \in Id : LeavesFiles(a) \/ EditsAccounts(a) \/ EditsQuickdials(a) \/ Starts(a) \/ CallEnds
    BY EveryStep
  <2>2. ~CallEnds
    BY DEF CallEnds, selectorVars
  <2> QED BY <2>0, <2>1, <2>2, LeavesFilesKeeps, EditsAccountsKeeps, EditsQuickdialsKeeps, StartsKeeps
<1>2. StoresInv => (default_account \in registered \cap Stored(accounts_json) =>
                        selected_outgoing_account_id = default_account)
  BY DEF StoresInv, FileInv, DefaultSelected
<1> QED BY <1>1, <1>2, StoresInvariant, PTL DEF StoresSpec, DefaultSurvives

\* call_log.rs: what a crash or a full disk takes from the log is older than what it
\* leaves, however many calls it keeps.
THEOREM LogKeepsNewest == StoresSpec => RestartKeepsNewest
<1>1. ASSUME StoresInv, [StoresNext]_storeVars
      PROVE  [\A i \in DOMAIN records, j \in DOMAIN records' :
                 logged /\ Readable(records[i]) /\ records[i].started_at > records'[j].started_at =>
                     records[i] \in Range(records')]_storeVars
  BY <1>1, StoresKeeps
<1> QED BY <1>1, StoresInvariant, PTL DEF StoresSpec, RestartKeepsNewest
=============================================================================
