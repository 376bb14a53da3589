------------------------ MODULE JobValidation_proofs ------------------------
(***************************************************************************)
(* What holds of the targets of the server, of the verdicts on descriptors *)
(* and of the results of accepted jobs, for every set of probes, every     *)
(* configuration, every list the probes may report and every descriptor.   *)
(* The loops of `from_desc` are FlattenSeqs in the model: SequenceFacts    *)
(* says what stands where in them.  First, what the entries of a descriptor*)
(* resolve to and which errors that makes; then the runs of a job and the  *)
(* slots of their outcomes; last the states, of which only that an answer  *)
(* is that of some descriptor needs an invariant.                          *)
(***************************************************************************)
EXTENDS JobDescBuilder, SequenceFacts, FiniteSetTheorems

PositionType == Nat \X Nat \X Nat

EntryType ==
  [position : PositionType,
   by : {"probe_serials", "probe_aliases", "targets", "groups"}, key : Keys]

(* The entry at a position of a descriptor.                                *)
Entry(desc, p) ==
  [position |-> p, by |-> desc[p[1]].run_on[p[2]].by, key |-> desc[p[1]].run_on[p[2]].keys[p[3]]]

(* Every position of a descriptor is that of an entry, and the other way   *)
(* round.                                                                  *)
LEMMA PositionsAre ==
  ASSUME NEW desc \in Seq(TaskDescType)
  PROVE  /\ \A p \in Positions(desc) :
              /\ p \in PositionType /\ p[1] \in DOMAIN desc /\ p[2] \in DOMAIN desc[p[1]].run_on
              /\ p[3] \in DOMAIN desc[p[1]].run_on[p[2]].keys
              /\ p = <<p[1], p[2], p[3]>>
              /\ Entry(desc, p) \in EntryType
         /\ \A t \in DOMAIN desc : \A r \in DOMAIN desc[t].run_on :
              \A k \in DOMAIN desc[t].run_on[r].keys : <<t, r, k>> \in Positions(desc)
<1>1. \A t \in DOMAIN desc : \A r \in DOMAIN desc[t].run_on :
        \A k \in DOMAIN desc[t].run_on[r].keys : <<t, r, k>> \in Positions(desc)
  BY DEF Positions, PositionsIn
<1>2. ASSUME NEW p \in Positions(desc)
      PROVE  \E t \in DOMAIN desc : \E r \in DOMAIN desc[t].run_on :
               \E k \in DOMAIN desc[t].run_on[r].keys : p = <<t, r, k>>
  BY DEF Positions, PositionsIn
<1>3. ASSUME NEW t \in DOMAIN desc, NEW r \in DOMAIN desc[t].run_on,
             NEW k \in DOMAIN desc[t].run_on[r].keys
      PROVE  /\ t \in Nat /\ r \in Nat /\ k \in Nat
             /\ desc[t].run_on[r].keys[k] \in Keys
             /\ desc[t].run_on[r].by \in {"probe_serials", "probe_aliases", "targets", "groups"}
  <2>1. desc[t] \in TaskDescType /\ t \in Nat
    BY LenProperties, ElementOfSeq
  <2>2. desc[t].run_on \in Seq(RunOnType)
    BY <2>1 DEF TaskDescType
  <2>3. desc[t].run_on[r] \in RunOnType /\ r \in Nat
    BY <2>2, LenProperties, ElementOfSeq
  <2>4. desc[t].run_on[r].keys \in Seq(Keys)
    BY <2>3 DEF RunOnType
  <2>5. desc[t].run_on[r].keys[k] \in Keys /\ k \in Nat
    BY <2>4, LenProperties, ElementOfSeq
  <2> QED
    BY <2>1, <2>3, <2>5 DEF RunOnType
<1>4. ASSUME NEW p \in Positions(desc)
      PROVE  /\ p \in PositionType /\ p[1] \in DOMAIN desc /\ p[2] \in DOMAIN desc[p[1]].run_on
             /\ p[3] \in DOMAIN desc[p[1]].run_on[p[2]].keys
             /\ p = <<p[1], p[2], p[3]>>
             /\ Entry(desc, p) \in EntryType
  <2>1. PICK t \in DOMAIN desc : \E r \in DOMAIN desc[t].run_on :
               \E k \in DOMAIN desc[t].run_on[r].keys : p = <<t, r, k>>
    BY <1>2
  <2>2. PICK r \in DOMAIN desc[t].run_on :
               \E k \in DOMAIN desc[t].run_on[r].keys : p = <<t, r, k>>
    BY <2>1
  <2>3. PICK k \in DOMAIN desc[t].run_on[r].keys : p = <<t, r, k>>
    BY <2>2
  <2>4. p[1] = t /\ p[2] = r /\ p[3] = k
    BY <2>3
  <2>5. p \in PositionType
    BY <1>3, <2>3 DEF PositionType
  <2> QED
    BY <1>3, <2>3, <2>4, <2>5 DEF Entry, EntryType
<1> QED
  BY <1>1, <1>4

(* A task has one entry for each of its positions.                         *)
LEMMA EntriesAre ==
  ASSUME NEW desc \in Seq(TaskDescType), NEW t \in DOMAIN desc
  PROVE  LET entries == Entries(desc[t], t) IN
         /\ entries \in Seq(EntryType)
         /\ \A e \in DOMAIN entries :
              /\ entries[e].position \in Positions(desc) /\ entries[e].position[1] = t
              /\ entries[e] = Entry(desc, entries[e].position)
              /\ \A f \in DOMAIN entries : entries[e].position = entries[f].position => e = f
         /\ \A p \in Positions(desc) :
              p[1] = t => \E e \in DOMAIN entries : entries[e] = Entry(desc, p)
<1> DEFINE run_on == desc[t].run_on
           Row(r) == [k \in DOMAIN run_on[r].keys |-> Entry(desc, <<t, r, k>>)]
           rows == [r \in DOMAIN run_on |-> Row(r)]
           entries == FlattenSeq(rows)
<1>1. desc[t] \in TaskDescType
  BY ElementOfSeq, LenProperties
<1>2. /\ run_on \in Seq(RunOnType)
      /\ DOMAIN run_on = 1 .. Len(run_on) /\ Len(run_on) \in Nat
  <2>1. run_on \in Seq(RunOnType)
    BY <1>1 DEF TaskDescType
  <2> QED
    BY <2>1, LenProperties
<1>3. ASSUME NEW r \in DOMAIN run_on
      PROVE  /\ DOMAIN run_on[r].keys = 1 .. Len(run_on[r].keys)
             /\ Len(run_on[r].keys) \in Nat
  <2>1. run_on[r] \in RunOnType
    BY <1>2, ElementOfSeq
  <2>2. run_on[r].keys \in Seq(Keys)
    BY <2>1 DEF RunOnType
  <2> QED
    BY <2>2, LenProperties
<1>4. Entries(desc[t], t) = entries
  BY DEF Entries, Entry
<1>5. ASSUME NEW r \in DOMAIN run_on
      PROVE  /\ Row(r) \in Seq(EntryType) /\ DOMAIN Row(r) = DOMAIN run_on[r].keys
             /\ \A k \in DOMAIN Row(r) : Row(r)[k] = Entry(desc, <<t, r, k>>)
  <2>1. \A k \in DOMAIN run_on[r].keys : Entry(desc, <<t, r, k>>) \in EntryType
    BY PositionsAre
  <2>2. PICK n \in Nat : DOMAIN run_on[r].keys = 1 .. n
    BY <1>3
  <2>3. Row(r) \in [1 .. n -> EntryType]
    BY <2>1, <2>2
  <2> QED
    BY <2>2, <2>3
<1> HIDE DEF Row
<1>6. rows \in Seq(Seq(EntryType)) /\ DOMAIN rows = DOMAIN run_on
  <2>1. PICK n \in Nat : DOMAIN run_on = 1 .. n
    BY <1>2
  <2>2. rows \in [1 .. n -> Seq(EntryType)]
    BY <1>5, <2>1
  <2> QED
    BY <2>1, <2>2
<1>7. \A r \in DOMAIN run_on : rows[r] = Row(r)
  OBVIOUS
<1> HIDE DEF rows
<1>8. PICK row, col : Located(rows, row, col)
  BY <1>6, FlattenLocates
<1>9. entries \in Seq(EntryType)
  BY <1>6, FlattenLocates
<1>10. /\ \A e \in DOMAIN entries :
            /\ row[e] \in DOMAIN run_on /\ col[e] \in DOMAIN run_on[row[e]].keys
            /\ entries[e] = Entry(desc, <<t, row[e], col[e]>>)
       /\ \A e, f \in DOMAIN entries : row[e] = row[f] /\ col[e] = col[f] => e = f
       /\ \A r \in DOMAIN run_on : \A k \in DOMAIN run_on[r].keys :
            \E e \in DOMAIN entries : row[e] = r /\ col[e] = k
  BY <1>5, <1>6, <1>7, <1>8 DEF Located
<1> HIDE DEF entries
<1>11. ASSUME NEW e \in DOMAIN entries
       PROVE  /\ entries[e].position = <<t, row[e], col[e]>>
              /\ entries[e].position \in Positions(desc) /\ entries[e].position[1] = t
              /\ entries[e] = Entry(desc, entries[e].position)
  <2>1. entries[e].position = <<t, row[e], col[e]>>
    BY <1>10 DEF Entry
  <2>2. <<t, row[e], col[e]>> \in Positions(desc) /\ <<t, row[e], col[e]>>[1] = t
    BY <1>10, PositionsAre
  <2> QED
    BY <2>1, <2>2, <1>10
<1>12. ASSUME NEW p \in Positions(desc), p[1] = t
       PROVE  \E e \in DOMAIN entries : entries[e] = Entry(desc, p)
  <2>1. /\ p = <<t, p[2], p[3]>> /\ p[2] \in DOMAIN run_on
        /\ p[3] \in DOMAIN run_on[p[2]].keys
    BY <1>12, PositionsAre
  <2>2. PICK e \in DOMAIN entries : row[e] = p[2] /\ col[e] = p[3]
    BY <1>10, <2>1
  <2> QED
    BY <1>10, <2>1, <2>2
<1>13. \A e, f \in DOMAIN entries : entries[e].position = entries[f].position => e = f
  BY <1>10, <1>11
<1> QED
  BY <1>4, <1>9, <1>11, <1>12, <1>13

(* The first of the targets with indices in I, if there are any.           *)
LEMMA FirstIs ==
  ASSUME NEW I \in SUBSET DOMAIN targets, targets \in Seq(TargetType),
         NEW i, i = IF I # {} THEN Min(I) ELSE 0
  PROVE  LET first == IF i = 0 THEN <<>> ELSE <<targets[i]>> IN
         /\ first \in Seq(TargetType) /\ Len(first) <= 1
         /\ ToSet(first) = {targets[j] : j \in {k \in I : \A l \in I : k <= l}}
<1>1. /\ DOMAIN targets = 1 .. Len(targets) /\ Len(targets) \in Nat
      /\ \A j \in DOMAIN targets : targets[j] \in TargetType
  BY LenProperties, ElementOfSeq
<1>2. CASE I = {}
  <2>1. i = 0
    BY <1>2
  <2> QED
    BY <1>2, <2>1 DEF ToSet
<1>3. CASE I # {}
  <2>1. i = Min(I) /\ i \in I /\ \A l \in I : i <= l
    BY <1>1, <1>3, MinOf
  <2>2. \A k \in I : (\A l \in I : k <= l) <=> k = i
    BY <1>1, <2>1
  <2>3. {k \in I : \A l \in I : k <= l} = {i}
    BY <2>1, <2>2
  <2>4. i # 0 /\ targets[i] \in TargetType
    BY <1>1, <2>1
  <2>5. ToSet(<<targets[i]>>) = {targets[i]}
    BY DEF ToSet
  <2>6. <<targets[i]>> \in Seq(TargetType) /\ Len(<<targets[i]>>) <= 1
    BY <2>4
  <2> QED
    BY <2>3, <2>4, <2>5, <2>6
<1> QED
  BY <1>2, <1>3

(* The targets of a group, each once.                                      *)
LEMMA GroupIs ==
  ASSUME targets \in Seq(TargetType), NEW key
  PROVE  LET group == FindByGroup(targets, key)
             hits  == {i \in DOMAIN targets : key \in targets[i].groups}
         IN  /\ group \in Seq(TargetType) /\ ToSet(group) = {targets[i] : i \in hits}
             /\ TargetsUnique => \A m, n \in DOMAIN group :
                  group[m].probe_serial = group[n].probe_serial => m = n
<1> DEFINE hits == {i \in DOMAIN targets : key \in targets[i].groups}
           Row(i) == IF key \in targets[i].groups THEN <<targets[i]>> ELSE <<>>
           rows == [i \in DOMAIN targets |-> Row(i)]
           group == FlattenSeq(rows)
<1>1. /\ DOMAIN targets = 1 .. Len(targets) /\ Len(targets) \in Nat
      /\ \A i \in DOMAIN targets : targets[i] \in TargetType
  BY LenProperties, ElementOfSeq
<1>2. FindByGroup(targets, key) = group
  BY DEF FindByGroup
<1>3. ASSUME NEW i \in DOMAIN targets
      PROVE  /\ Row(i) \in Seq(TargetType)
             /\ DOMAIN Row(i) = IF i \in hits THEN {1} ELSE {}
             /\ \A j \in DOMAIN Row(i) : Row(i)[j] = targets[i]
  <2>1. <<targets[i]>> \in Seq(TargetType) /\ <<>> \in Seq(TargetType)
    BY <1>1
  <2> QED
    BY <2>1
<1> HIDE DEF Row
<1>4. rows \in Seq(Seq(TargetType))
  BY <1>1, <1>3
<1>5. DOMAIN rows = DOMAIN targets /\ \A i \in DOMAIN targets : rows[i] = Row(i)
  OBVIOUS
<1> HIDE DEF rows
<1>6. PICK row, col : Located(rows, row, col)
  BY <1>4, FlattenLocates
<1>7. group \in Seq(TargetType)
  BY <1>4, FlattenLocates
<1>8. /\ \A m \in DOMAIN group :
           row[m] \in hits /\ col[m] = 1 /\ group[m] = targets[row[m]]
      /\ \A m, n \in DOMAIN group : row[m] = row[n] /\ col[m] = col[n] => m = n
      /\ \A i \in hits : \E m \in DOMAIN group : row[m] = i
  <2>1. ASSUME NEW m \in DOMAIN group
        PROVE  row[m] \in hits /\ col[m] = 1 /\ group[m] = targets[row[m]]
    <3>1. /\ row[m] \in DOMAIN targets /\ col[m] \in DOMAIN Row(row[m])
          /\ group[m] = Row(row[m])[col[m]]
      BY <1>5, <1>6 DEF Located
    <3> QED
      BY <1>3, <3>1
  <2>2. ASSUME NEW i \in hits PROVE \E m \in DOMAIN group : row[m] = i
    <3>1. i \in DOMAIN rows /\ 1 \in DOMAIN rows[i]
      BY <1>3, <1>5
    <3> QED
      BY <1>6, <3>1 DEF Located
  <2>3. \A m, n \in DOMAIN group : row[m] = row[n] /\ col[m] = col[n] => m = n
    BY <1>6 DEF Located
  <2> QED
    BY <2>1, <2>2, <2>3
<1> HIDE DEF group
<1>9. ToSet(group) = {targets[i] : i \in hits}
  BY <1>8 DEF ToSet
<1>10. ASSUME TargetsUnique, NEW m \in DOMAIN group, NEW n \in DOMAIN group,
              group[m].probe_serial = group[n].probe_serial
       PROVE  m = n
  <2>1. row[m] = row[n]
    BY <1>8, <1>10 DEF TargetsUnique
  <2> QED
    BY <1>8, <2>1
<1> QED
  BY <1>2, <1>7, <1>9, <1>10

(* An entry is resolved to what it asks for, each target once.             *)
LEMMA FoundIs ==
  ASSUME targets \in Seq(TargetType), TargetsUnique,
         NEW desc \in Seq(TaskDescType), NEW p \in Positions(desc)
  PROVE  LET found == Found(Entry(desc, p)) IN
         /\ found \in Seq(TargetType)
         /\ AskedAt(desc, p) \subseteq DOMAIN targets
         /\ ToSet(found) = {targets[i] : i \in AskedAt(desc, p)}
         /\ \A m, n \in DOMAIN found :
              found[m].probe_serial = found[n].probe_serial => m = n
<1> DEFINE run_on == desc[p[1]].run_on[p[2]]
           key == run_on.keys[p[3]]
           found == Found(Entry(desc, p))
           Right ==
             /\ found \in Seq(TargetType)
             /\ AskedAt(desc, p) \subseteq DOMAIN targets
             /\ ToSet(found) = {targets[j] : j \in AskedAt(desc, p)}
             /\ \A m, n \in DOMAIN found :
                  found[m].probe_serial = found[n].probe_serial => m = n
<1> SUFFICES Right
  OBVIOUS
<1>1. /\ Entry(desc, p).by = run_on.by /\ Entry(desc, p).key = key
      /\ run_on.by \in {"probe_serials", "probe_aliases", "targets", "groups"}
  BY PositionsAre DEF Entry, EntryType
<1>2. AskedAt(desc, p) = Asked(run_on, key)
  BY DEF AskedAt
<1>3. DOMAIN targets = 1 .. Len(targets)
  BY LenProperties
<1> HIDE DEF run_on, key
<1>4. CASE run_on.by = "groups"
  <2>1. found = FindByGroup(targets, key)
    BY <1>1, <1>4 DEF Found
  <2>2. AskedAt(desc, p) = {i \in DOMAIN targets : key \in targets[i].groups}
    BY <1>2, <1>4 DEF Asked
  <2> QED
    BY <2>1, <2>2, GroupIs
<1>5. ASSUME NEW I \in SUBSET DOMAIN targets,
             AskedAt(desc, p) = {i \in I : \A j \in I : i <= j},
             NEW i, i = IF I # {} THEN Min(I) ELSE 0,
             found = IF i = 0 THEN <<>> ELSE <<targets[i]>>
      PROVE  Right
  <2>1. /\ found \in Seq(TargetType) /\ Len(found) <= 1
        /\ ToSet(found) = {targets[j] : j \in AskedAt(desc, p)}
    BY <1>5, FirstIs
  <2>2. \A m, n \in DOMAIN found : m = n
    BY <2>1
  <2> QED
    BY <1>5, <2>1, <2>2
<1>6. CASE run_on.by = "probe_serials"
  <2> DEFINE I == {i \in DOMAIN targets : targets[i].probe_serial = key}
             i == IF I # {} THEN Min(I) ELSE 0
  <2>1. AskedAt(desc, p) = {j \in I : \A k \in I : j <= k}
    BY <1>2, <1>6 DEF Asked
  <2>2. found = FindByProbeSerial(targets, key)
    BY <1>1, <1>6 DEF Found
  <2>3. found = IF i = 0 THEN <<>> ELSE <<targets[i]>>
    BY <1>3, <2>2 DEF FindByProbeSerial, TargetAt, SelectInSeq
  <2>4. I \in SUBSET DOMAIN targets
    OBVIOUS
  <2>5. i = IF I # {} THEN Min(I) ELSE 0
    OBVIOUS
  <2> HIDE DEF I, i, found, Right
  <2> QED
    BY <1>5, <2>1, <2>3, <2>4, <2>5
<1>7. CASE run_on.by = "probe_aliases"
  <2> DEFINE I == {i \in DOMAIN targets : targets[i].probe_alias = key}
             i == IF I # {} THEN Min(I) ELSE 0
  <2>1. AskedAt(desc, p) = {j \in I : \A k \in I : j <= k}
    BY <1>2, <1>7 DEF Asked
  <2>2. found = FindByProbeAlias(targets, key)
    BY <1>1, <1>7 DEF Found
  <2>3. found = IF i = 0 THEN <<>> ELSE <<targets[i]>>
    BY <1>3, <2>2 DEF FindByProbeAlias, TargetAt, SelectInSeq
  <2>4. I \in SUBSET DOMAIN targets
    OBVIOUS
  <2>5. i = IF I # {} THEN Min(I) ELSE 0
    OBVIOUS
  <2> HIDE DEF I, i, found, Right
  <2> QED
    BY <1>5, <2>1, <2>3, <2>4, <2>5
<1>8. CASE run_on.by = "targets"
  <2> DEFINE I == {i \in DOMAIN targets : targets[i].target_name = key}
             i == IF I # {} THEN Min(I) ELSE 0
  <2>1. AskedAt(desc, p) = {j \in I : \A k \in I : j <= k}
    BY <1>2, <1>8 DEF Asked
  <2>2. found = FindByTargetName(targets, key)
    BY <1>1, <1>8 DEF Found
  <2>3. found = IF i = 0 THEN <<>> ELSE <<targets[i]>>
    BY <1>3, <2>2 DEF FindByTargetName, TargetAt, SelectInSeq
  <2>4. I \in SUBSET DOMAIN targets
    OBVIOUS
  <2>5. i = IF I # {} THEN Min(I) ELSE 0
    OBVIOUS
  <2> HIDE DEF I, i, found, Right
  <2> QED
    BY <1>5, <2>1, <2>3, <2>4, <2>5
<1> QED
  BY <1>1, <1>4, <1>6, <1>7, <1>8

PairType == [position : PositionType, target : TargetType \cup {NoTarget}]

(* What the entry at a position adds to the map.                           *)
Pairs(desc, p) ==
  IF AskedAt(desc, p) = {} THEN {[position |-> p, target |-> NoTarget]}
  ELSE {[position |-> p, target |-> targets[i]] : i \in AskedAt(desc, p)}

(* A serial stands for one target.                                         *)
LEMMA SerialIsTarget ==
  \A a, b \in TargetType : a.probe_serial = b.probe_serial => a = b
BY DEF TargetType, Target

(* An entry adds to the map what it asks for, each pair once.              *)
LEMMA ResolvedIs ==
  ASSUME targets \in Seq(TargetType), TargetsUnique,
         NEW desc \in Seq(TaskDescType), NEW p \in Positions(desc)
  PROVE  LET pairs == Resolved(Entry(desc, p)) IN
         /\ pairs \in Seq(PairType) /\ ToSet(pairs) = Pairs(desc, p)
         /\ \A m, n \in DOMAIN pairs : pairs[m] = pairs[n] => m = n
<1> DEFINE hits == Found(Entry(desc, p))
           pairs == Resolved(Entry(desc, p))
<1>1. /\ hits \in Seq(TargetType)
      /\ ToSet(hits) = {targets[i] : i \in AskedAt(desc, p)}
      /\ \A m, n \in DOMAIN hits : hits[m].probe_serial = hits[n].probe_serial => m = n
  BY FoundIs
<1>2. Entry(desc, p).position = p /\ p \in PositionType
  BY PositionsAre DEF Entry
<1>3. DOMAIN hits = 1 .. Len(hits) /\ Len(hits) \in Nat
  BY <1>1, LenProperties
<1>4. pairs = IF hits = <<>> THEN << [position |-> p, target |-> NoTarget] >>
              ELSE [i \in DOMAIN hits |-> [position |-> p, target |-> hits[i]]]
  BY <1>2 DEF Resolved
<1> HIDE DEF hits, pairs
<1>5. CASE hits = <<>>
  <2>1. pairs = << [position |-> p, target |-> NoTarget] >>
    BY <1>4, <1>5
  <2>2. [position |-> p, target |-> NoTarget] \in PairType
    BY <1>2 DEF PairType
  <2>3. pairs \in Seq(PairType) /\ DOMAIN pairs = {1} /\ ToSet(pairs) = {pairs[1]}
    BY <2>1, <2>2 DEF ToSet
  <2>4. AskedAt(desc, p) = {}
    <3>1. ToSet(hits) = {}
      BY <1>5 DEF ToSet
    <3> QED
      BY <1>1, <3>1
  <2> QED
    BY <2>1, <2>3, <2>4 DEF pairs, Pairs
<1>6. CASE hits # <<>>
  <2>1. pairs = [i \in DOMAIN hits |-> [position |-> p, target |-> hits[i]]]
    BY <1>4, <1>6
  <2>2. \A i \in DOMAIN hits : [position |-> p, target |-> hits[i]] \in PairType
    BY <1>1, <1>2, <1>3, ElementOfSeq DEF PairType
  <2>3. pairs \in Seq(PairType)
    <3>1. PICK n \in Nat : DOMAIN hits = 1 .. n
      BY <1>3
    <3>2. pairs \in [1 .. n -> PairType]
      BY <2>1, <2>2, <3>1
    <3> QED BY <3>2
  <2>4. \A m, n \in DOMAIN pairs : pairs[m] = pairs[n] => m = n
    BY <1>1, <2>1
  <2>5. 1 \in DOMAIN hits
    BY <1>1, <1>3, <1>6, EmptySeq
  <2>6. AskedAt(desc, p) # {}
    <3>1. hits[1] \in ToSet(hits)
      BY <2>5 DEF ToSet
    <3> QED BY <1>1, <3>1
  <2>7. ToSet(pairs) = {[position |-> p, target |-> h] : h \in ToSet(hits)}
    BY <2>1 DEF ToSet
  <2>8. ToSet(pairs) = {[position |-> p, target |-> targets[i]] : i \in AskedAt(desc, p)}
    BY <1>1, <2>7
  <2> QED
    BY <2>3, <2>4, <2>6, <2>8 DEF pairs, Pairs
<1> QED
  BY <1>5, <1>6

(* The runs of task t: at[m] is the position that asked for the m-th.      *)
AskedFrom(desc, t, runs, at) ==
  /\ \A m \in DOMAIN runs :
       /\ at[m] \in Positions(desc) /\ at[m][1] = t
       /\ \E i \in AskedAt(desc, at[m]) : runs[m] = targets[i]
  /\ \A m, n \in DOMAIN runs :
       at[m] = at[n] /\ runs[m].probe_serial = runs[n].probe_serial => m = n
  /\ \A p \in Positions(desc) : p[1] = t =>
       \A i \in AskedAt(desc, p) :
         \E m \in DOMAIN runs : at[m] = p /\ runs[m] = targets[i]

(* Such an `at` exists for the runs `from_desc` gives a task.              *)
LEMMA TargetsOfAre ==
  ASSUME targets \in Seq(TargetType), TargetsUnique,
         NEW desc \in Seq(TaskDescType), NEW t \in DOMAIN desc
  PROVE  /\ TargetsOf(desc[t], t) \in Seq(TargetType)
         /\ \E at : AskedFrom(desc, t, TargetsOf(desc[t], t), at)
<1> DEFINE entries == Entries(desc[t], t)
           rows == [e \in DOMAIN entries |-> Found(entries[e])]
           runs == FlattenSeq(rows)
<1>1. /\ entries \in Seq(EntryType)
      /\ \A e \in DOMAIN entries :
           /\ entries[e].position \in Positions(desc) /\ entries[e].position[1] = t
           /\ entries[e] = Entry(desc, entries[e].position)
           /\ \A f \in DOMAIN entries : entries[e].position = entries[f].position => e = f
      /\ \A p \in Positions(desc) :
           p[1] = t => \E e \in DOMAIN entries : entries[e] = Entry(desc, p)
  BY EntriesAre
<1>2. TargetsOf(desc[t], t) = runs
  BY DEF TargetsOf
<1>3. DOMAIN entries = 1 .. Len(entries) /\ Len(entries) \in Nat
  BY <1>1, LenProperties
<1>4. DOMAIN rows = DOMAIN entries /\ \A e \in DOMAIN entries : rows[e] = Found(entries[e])
  OBVIOUS
<1> HIDE DEF entries
<1>5. \A e \in DOMAIN entries :
        /\ rows[e] \in Seq(TargetType)
        /\ ToSet(rows[e]) = {targets[i] : i \in AskedAt(desc, entries[e].position)}
        /\ \A m, n \in DOMAIN rows[e] :
             rows[e][m].probe_serial = rows[e][n].probe_serial => m = n
  BY <1>1, <1>4, FoundIs
<1>6. rows \in Seq(Seq(TargetType))
  <2>1. PICK n \in Nat : DOMAIN entries = 1 .. n
    BY <1>3
  <2>2. rows \in [1 .. n -> Seq(TargetType)]
    BY <1>4, <1>5, <2>1
  <2> QED BY <2>2
<1> HIDE DEF rows
<1>7. PICK row, col : Located(rows, row, col)
  BY <1>6, FlattenLocates
<1>8. runs \in Seq(TargetType)
  BY <1>6, FlattenLocates
<1>9. /\ \A m \in DOMAIN runs : /\ row[m] \in DOMAIN entries /\ col[m] \in DOMAIN rows[row[m]]
                                /\ runs[m] = rows[row[m]][col[m]]
      /\ \A m, n \in DOMAIN runs : row[m] = row[n] /\ col[m] = col[n] => m = n
      /\ \A e \in DOMAIN entries : \A j \in DOMAIN rows[e] :
           \E m \in DOMAIN runs : row[m] = e /\ col[m] = j
  BY <1>4, <1>7 DEF Located
<1> HIDE DEF runs
<1> DEFINE at == [m \in DOMAIN runs |-> entries[row[m]].position]
<1>10. ASSUME NEW m \in DOMAIN runs
       PROVE  /\ at[m] \in Positions(desc) /\ at[m][1] = t
              /\ \E i \in AskedAt(desc, at[m]) : runs[m] = targets[i]
  <2>1. at[m] = entries[row[m]].position /\ runs[m] \in ToSet(rows[row[m]])
    BY <1>9 DEF ToSet
  <2> HIDE DEF at
  <2>2. row[m] \in DOMAIN entries
    BY <1>9
  <2>3. at[m] \in Positions(desc) /\ at[m][1] = t
    BY <1>1, <2>1, <2>2
  <2>4. ToSet(rows[row[m]]) = {targets[i] : i \in AskedAt(desc, at[m])}
    BY <1>5, <2>1, <2>2
  <2> QED
    BY <2>1, <2>3, <2>4
<1>11. ASSUME NEW m \in DOMAIN runs, NEW n \in DOMAIN runs,
              at[m] = at[n], runs[m].probe_serial = runs[n].probe_serial
       PROVE  m = n
  <2>1. entries[row[m]].position = entries[row[n]].position
    BY <1>11
  <2>2. row[m] = row[n]
    BY <1>1, <1>9, <2>1
  <2>3. col[m] = col[n]
    BY <1>5, <1>9, <1>11, <2>2
  <2> QED
    BY <1>9, <2>2, <2>3
<1>12. ASSUME NEW p \in Positions(desc), p[1] = t, NEW i \in AskedAt(desc, p)
       PROVE  \E m \in DOMAIN runs : at[m] = p /\ runs[m] = targets[i]
  <2>1. PICK e \in DOMAIN entries : entries[e] = Entry(desc, p)
    BY <1>1, <1>12
  <2>2. entries[e].position = p
    BY <2>1 DEF Entry
  <2>3. targets[i] \in ToSet(rows[e])
    BY <1>5, <2>2
  <2>4. PICK j \in DOMAIN rows[e] : rows[e][j] = targets[i]
    BY <2>3 DEF ToSet
  <2>5. PICK m \in DOMAIN runs : row[m] = e /\ col[m] = j
    BY <1>9
  <2>6. at[m] = p
    BY <2>2, <2>5
  <2> QED
    BY <1>9, <2>4, <2>5, <2>6
<1> HIDE DEF at
<1>13. AskedFrom(desc, t, runs, at)
  BY <1>10, <1>11, <1>12 DEF AskedFrom
<1> QED
  BY <1>2, <1>8, <1>13

(* What the entries of task t add to the map: each pair once.              *)
LEMMA MapOfAre ==
  ASSUME targets \in Seq(TargetType), TargetsUnique,
         NEW desc \in Seq(TaskDescType), NEW t \in DOMAIN desc
  PROVE  LET pairs == MapOf(desc[t], t) IN
         /\ pairs \in Seq(PairType)
         /\ ToSet(pairs) = UNION {Pairs(desc, p) : p \in {q \in Positions(desc) : q[1] = t}}
         /\ \A m, n \in DOMAIN pairs : pairs[m] = pairs[n] => m = n
<1> DEFINE entries == Entries(desc[t], t)
           rows == [e \in DOMAIN entries |-> Resolved(entries[e])]
           pairs == FlattenSeq(rows)
<1>1. /\ entries \in Seq(EntryType)
      /\ \A e \in DOMAIN entries :
           /\ entries[e].position \in Positions(desc) /\ entries[e].position[1] = t
           /\ entries[e] = Entry(desc, entries[e].position)
           /\ \A f \in DOMAIN entries : entries[e].position = entries[f].position => e = f
      /\ \A p \in Positions(desc) :
           p[1] = t => \E e \in DOMAIN entries : entries[e] = Entry(desc, p)
  BY EntriesAre
<1>2. MapOf(desc[t], t) = pairs
  BY DEF MapOf
<1>3. DOMAIN entries = 1 .. Len(entries) /\ Len(entries) \in Nat
  BY <1>1, LenProperties
<1>4. DOMAIN rows = DOMAIN entries /\ \A e \in DOMAIN entries : rows[e] = Resolved(entries[e])
  OBVIOUS
<1> HIDE DEF entries
<1>5. \A e \in DOMAIN entries :
        /\ rows[e] \in Seq(PairType)
        /\ ToSet(rows[e]) = Pairs(desc, entries[e].position)
        /\ \A m, n \in DOMAIN rows[e] : rows[e][m] = rows[e][n] => m = n
  BY <1>1, <1>4, ResolvedIs
<1>6. rows \in Seq(Seq(PairType))
  <2>1. PICK n \in Nat : DOMAIN entries = 1 .. n
    BY <1>3
  <2>2. rows \in [1 .. n -> Seq(PairType)]
    BY <1>4, <1>5, <2>1
  <2> QED BY <2>2
<1> HIDE DEF rows
<1>7. PICK row, col : Located(rows, row, col)
  BY <1>6, FlattenLocates
<1>8. pairs \in Seq(PairType)
  BY <1>6, FlattenLocates
<1>9. /\ \A m \in DOMAIN pairs : /\ row[m] \in DOMAIN entries /\ col[m] \in DOMAIN rows[row[m]]
                                 /\ pairs[m] = rows[row[m]][col[m]]
      /\ \A m, n \in DOMAIN pairs : row[m] = row[n] /\ col[m] = col[n] => m = n
      /\ \A e \in DOMAIN entries : \A j \in DOMAIN rows[e] :
           \E m \in DOMAIN pairs : row[m] = e /\ col[m] = j
  BY <1>4, <1>7 DEF Located
<1> HIDE DEF pairs
<1>10. ASSUME NEW m \in DOMAIN pairs
       PROVE  /\ pairs[m] \in Pairs(desc, entries[row[m]].position)
              /\ pairs[m].position = entries[row[m]].position
  <2>1. pairs[m] \in ToSet(rows[row[m]])
    BY <1>9 DEF ToSet
  <2>2. pairs[m] \in Pairs(desc, entries[row[m]].position)
    BY <1>5, <1>9, <2>1
  <2> QED
    BY <2>2 DEF Pairs
<1>11. ASSUME NEW m \in DOMAIN pairs, NEW n \in DOMAIN pairs, pairs[m] = pairs[n]
       PROVE  m = n
  <2>1. row[m] = row[n]
    BY <1>1, <1>9, <1>10, <1>11
  <2>2. col[m] = col[n]
    BY <1>5, <1>9, <1>11, <2>1
  <2> QED
    BY <1>9, <2>1, <2>2
<1>12. ASSUME NEW p \in Positions(desc), p[1] = t, NEW x \in Pairs(desc, p)
       PROVE  x \in ToSet(pairs)
  <2>1. PICK e \in DOMAIN entries : entries[e] = Entry(desc, p)
    BY <1>1, <1>12
  <2>2. entries[e].position = p
    BY <2>1 DEF Entry
  <2>3. PICK j \in DOMAIN rows[e] : rows[e][j] = x
    <3>1. x \in ToSet(rows[e])
      BY <1>5, <1>12, <2>2
    <3> QED BY <3>1 DEF ToSet
  <2>4. PICK m \in DOMAIN pairs : row[m] = e /\ col[m] = j
    BY <1>9
  <2>5. pairs[m] = x
    BY <1>9, <2>3, <2>4
  <2> QED
    BY <2>5 DEF ToSet
<1>13. ASSUME NEW x \in ToSet(pairs)
       PROVE  \E p \in Positions(desc) : p[1] = t /\ x \in Pairs(desc, p)
  <2>1. PICK m \in DOMAIN pairs : x = pairs[m]
    BY DEF ToSet
  <2> QED
    BY <1>1, <1>9, <1>10, <2>1
<1>14. ToSet(pairs) = UNION {Pairs(desc, p) : p \in {q \in Positions(desc) : q[1] = t}}
  BY <1>12, <1>13
<1> QED
  BY <1>2, <1>8, <1>11, <1>14

(* The map has the pairs of all entries, each once.                        *)
LEMMA MapIs ==
  ASSUME targets \in Seq(TargetType), TargetsUnique, NEW desc \in Seq(TaskDescType)
  PROVE  LET map == PositionTargetMap(desc) IN
         /\ map \in Seq(PairType)
         /\ ToSet(map) = UNION {Pairs(desc, p) : p \in Positions(desc)}
         /\ \A m, n \in DOMAIN map : map[m] = map[n] => m = n
<1> DEFINE rows == [t \in DOMAIN desc |-> MapOf(desc[t], t)]
           map == FlattenSeq(rows)
<1>1. DOMAIN rows = DOMAIN desc /\ \A t \in DOMAIN desc : rows[t] = MapOf(desc[t], t)
  OBVIOUS
<1>2. PositionTargetMap(desc) = map
  BY DEF PositionTargetMap
<1> HIDE DEF rows
<1>3. \A t \in DOMAIN desc :
        /\ rows[t] \in Seq(PairType)
        /\ ToSet(rows[t]) = UNION {Pairs(desc, p) : p \in {q \in Positions(desc) : q[1] = t}}
        /\ \A m, n \in DOMAIN rows[t] : rows[t][m] = rows[t][n] => m = n
  BY <1>1, MapOfAre
<1>4. rows \in Seq(Seq(PairType))
  <2>1. PICK n \in Nat : DOMAIN desc = 1 .. n
    BY LenProperties
  <2>2. rows \in [1 .. n -> Seq(PairType)]
    BY <1>1, <1>3, <2>1 DEF rows
  <2> QED BY <2>2
<1>5. PICK row, col : Located(rows, row, col)
  BY <1>4, FlattenLocates
<1>6. map \in Seq(PairType)
  BY <1>4, FlattenLocates
<1>7. /\ \A m \in DOMAIN map : /\ row[m] \in DOMAIN desc /\ col[m] \in DOMAIN rows[row[m]]
                               /\ map[m] = rows[row[m]][col[m]]
      /\ \A m, n \in DOMAIN map : row[m] = row[n] /\ col[m] = col[n] => m = n
      /\ \A t \in DOMAIN desc : \A j \in DOMAIN rows[t] :
           \E m \in DOMAIN map : row[m] = t /\ col[m] = j
  BY <1>1, <1>5 DEF Located
<1> HIDE DEF map
<1>8. \A p \in Positions(desc) : \A x \in Pairs(desc, p) : x.position = p
  BY DEF Pairs
<1>9. ASSUME NEW m \in DOMAIN map
      PROVE  \E p \in Positions(desc) : p[1] = row[m] /\ map[m] \in Pairs(desc, p)
  <2>1. map[m] \in ToSet(rows[row[m]])
    BY <1>7 DEF ToSet
  <2>2. ToSet(rows[row[m]]) =
          UNION {Pairs(desc, p) : p \in {q \in Positions(desc) : q[1] = row[m]}}
    BY <1>3, <1>7
  <2> QED
    BY <2>1, <2>2
<1>10. ASSUME NEW m \in DOMAIN map, NEW n \in DOMAIN map, map[m] = map[n]
       PROVE  m = n
  <2>1. row[m] = row[n]
    BY <1>8, <1>9, <1>10
  <2>2. col[m] = col[n]
    BY <1>3, <1>7, <1>10, <2>1
  <2> QED
    BY <1>7, <2>1, <2>2
<1>11. ASSUME NEW p \in Positions(desc), NEW x \in Pairs(desc, p)
       PROVE  x \in ToSet(map)
  <2>1. p[1] \in DOMAIN desc
    BY PositionsAre
  <2>2. PICK j \in DOMAIN rows[p[1]] : rows[p[1]][j] = x
    <3>1. ToSet(rows[p[1]]) =
            UNION {Pairs(desc, q) : q \in {r \in Positions(desc) : r[1] = p[1]}}
      BY <1>3, <2>1
    <3>2. x \in ToSet(rows[p[1]])
      BY <3>1
    <3> QED BY <3>2 DEF ToSet
  <2>3. PICK m \in DOMAIN map : row[m] = p[1] /\ col[m] = j
    BY <1>7, <2>1
  <2>4. map[m] = x
    BY <1>7, <2>2, <2>3
  <2> QED
    BY <2>4 DEF ToSet
<1>12. \A x \in ToSet(map) : \E p \in Positions(desc) : x \in Pairs(desc, p)
  BY <1>9 DEF ToSet
<1>13. ToSet(map) = UNION {Pairs(desc, p) : p \in Positions(desc)}
  BY <1>11, <1>12
<1> QED
  BY <1>2, <1>6, <1>10, <1>13
-----------------------------------------------------------------------------
LEMMA MoreThanOne ==
  ASSUME NEW S, IsFiniteSet(S)
  PROVE  Cardinality(S) > 1 <=> \E a, b \in S : a # b
<1>1. CASE S = {}
  BY <1>1, FS_EmptySet
<1>2. CASE S # {}
  <2>1. PICK a \in S : TRUE
    BY <1>2
  <2>2. IsFiniteSet(S \ {a}) /\ Cardinality(S \ {a}) = Cardinality(S) - 1
    BY <2>1, FS_RemoveElement
  <2>3. Cardinality(S) \in Nat /\ Cardinality(S \ {a}) \in Nat
    BY <2>2, FS_CardinalityType
  <2>4. Cardinality(S \ {a}) = 0 <=> S \ {a} = {}
    BY <2>2, FS_EmptySet
  <2> QED
    BY <2>1, <2>2, <2>3, <2>4
<1> QED
  BY <1>1, <1>2

(* The positions that ask for target i.                                    *)
AskedBy(desc, i) == {p \in Positions(desc) : i \in AskedAt(desc, p)}

(* The errors, each in the words of `Faults`.                              *)
LEMMA TaskErrorsAre ==
  ASSUME targets \in Seq(TargetType), TargetsUnique,
         NEW desc \in Seq(TaskDescType), NEW t \in DOMAIN desc
  PROVE  Entries(desc[t], t) = <<>> <=> \A p \in Positions(desc) : p[1] # t
<1> DEFINE entries == Entries(desc[t], t)
<1>1. /\ entries \in Seq(EntryType)
      /\ \A e \in DOMAIN entries :
           entries[e].position \in Positions(desc) /\ entries[e].position[1] = t
      /\ \A p \in Positions(desc) :
           p[1] = t => \E e \in DOMAIN entries : entries[e] = Entry(desc, p)
  BY EntriesAre
<1> HIDE DEF entries
<1>2. CASE entries = <<>>
  <2>1. DOMAIN entries = {}
    BY <1>2
  <2> QED
    BY <1>1, <1>2, <2>1 DEF entries
<1>3. CASE entries # <<>>
  <2>1. 1 \in DOMAIN entries
    BY <1>1, <1>3, EmptySeq, LenProperties
  <2> QED
    BY <1>1, <1>3, <2>1 DEF entries
<1> QED
  BY <1>2, <1>3

LEMMA NotAvailableIs ==
  ASSUME targets \in Seq(TargetType), TargetsUnique, NEW desc \in Seq(TaskDescType)
  PROVE  NotAvailable(PositionTargetMap(desc)) =
           {[kind |-> "target_not_available", entry |-> p] :
              p \in {q \in Positions(desc) : AskedAt(desc, q) = {}}}
<1> DEFINE M == ToSet(PositionTargetMap(desc))
<1>1. M = UNION {Pairs(desc, p) : p \in Positions(desc)}
  BY MapIs
<1>2. ASSUME NEW p \in Positions(desc), NEW x \in Pairs(desc, p)
      PROVE  x.position = p /\ (x.target = NoTarget <=> AskedAt(desc, p) = {})
  <2>1. \A i \in AskedAt(desc, p) : targets[i] \in TargetType
    <3>1. AskedAt(desc, p) \subseteq DOMAIN targets
      BY FoundIs
    <3> QED BY <3>1, ElementOfSeq, LenProperties
  <2> QED
    BY <1>2, <2>1, ValidationAssumption DEF Pairs
<1>3. ASSUME NEW p \in Positions(desc), AskedAt(desc, p) = {}
      PROVE  \E x \in M : x.target = NoTarget /\ x.position = p
  <2>1. [position |-> p, target |-> NoTarget] \in Pairs(desc, p)
    BY <1>3 DEF Pairs
  <2>2. [position |-> p, target |-> NoTarget] \in M
    BY <1>1, <2>1
  <2> HIDE DEF M
  <2> QED
    BY <2>2
<1> HIDE DEF M
<1>4. {x.position : x \in {q \in M : q.target = NoTarget}}
        = {q \in Positions(desc) : AskedAt(desc, q) = {}}
  BY <1>1, <1>2, <1>3
<1>5. NotAvailable(PositionTargetMap(desc)) =
        {[kind |-> "target_not_available", entry |-> p.position] :
           p \in {q \in M : q.target = NoTarget}}
  BY DEF NotAvailable, M
<1> QED
  BY <1>4, <1>5

LEMMA PositionsOfAre ==
  ASSUME targets \in Seq(TargetType), TargetsUnique, NEW desc \in Seq(TaskDescType),
         NEW i \in DOMAIN targets
  PROVE  LET map == PositionTargetMap(desc)
             at  == PositionsOf(map, targets[i].probe_serial)
         IN  /\ {map[m].position : m \in at} = AskedBy(desc, i)
             /\ Cardinality(at) > 1 <=> \E p, q \in AskedBy(desc, i) : p # q
<1> DEFINE map == PositionTargetMap(desc)
           s == targets[i].probe_serial
           at == PositionsOf(map, s)
<1>1. /\ map \in Seq(PairType) /\ ToSet(map) = UNION {Pairs(desc, p) : p \in Positions(desc)}
      /\ \A m, n \in DOMAIN map : map[m] = map[n] => m = n
  BY MapIs
<1>2. DOMAIN map = 1 .. Len(map) /\ Len(map) \in Nat /\ targets[i] \in TargetType
  BY <1>1, LenProperties, ElementOfSeq
<1>3. \A p \in Positions(desc) : \A j \in AskedAt(desc, p) :
        j \in DOMAIN targets /\ targets[j] \in TargetType
  BY FoundIs, ElementOfSeq, LenProperties
<1> HIDE DEF map
<1>4. at = {m \in DOMAIN map : HasSerial(map[m], s)}
  BY DEF PositionsOf
<1>5. ASSUME NEW m \in at
      PROVE  map[m].position \in AskedBy(desc, i) /\ map[m].target = targets[i]
  <2>1. m \in DOMAIN map /\ map[m].target # NoTarget /\ map[m].target.probe_serial = s
    BY <1>4 DEF HasSerial
  <2>2. map[m] \in ToSet(map)
    BY <2>1 DEF ToSet
  <2>3. PICK p \in Positions(desc) : map[m] \in Pairs(desc, p)
    BY <1>1, <2>2
  <2>4. PICK j \in AskedAt(desc, p) : map[m] = [position |-> p, target |-> targets[j]]
    BY <2>1, <2>3 DEF Pairs
  <2>5. j = i
    BY <1>3, <2>1, <2>4 DEF TargetsUnique
  <2> QED
    BY <2>4, <2>5 DEF AskedBy
<1>6. ASSUME NEW p \in AskedBy(desc, i)
      PROVE  \E m \in at : map[m].position = p
  <2>1. p \in Positions(desc) /\ i \in AskedAt(desc, p)
    BY DEF AskedBy
  <2> DEFINE x == [position |-> p, target |-> targets[i]]
  <2>2. x \in Pairs(desc, p)
    BY <2>1 DEF Pairs
  <2>3. x \in ToSet(map)
    BY <1>1, <2>1, <2>2
  <2>4. PICK m \in DOMAIN map : map[m] = x
    BY <2>3 DEF ToSet
  <2>5. HasSerial(map[m], s)
    BY <1>2, <2>4, ValidationAssumption DEF HasSerial
  <2> QED
    BY <1>4, <2>4, <2>5
<1>7. IsFiniteSet(at)
  <2>1. IsFiniteSet(1 .. Len(map))
    BY <1>2, FS_Interval
  <2>2. at \in SUBSET (1 .. Len(map))
    BY <1>2, <1>4
  <2> QED
    BY <2>1, <2>2, FS_Subset
<1>8. \A m \in at : m \in DOMAIN map /\ map[m] \in PairType
  BY <1>1, <1>2, <1>4, ElementOfSeq
<1> HIDE DEF at
<1>9. ASSUME NEW m \in at, NEW n \in at, map[m].position = map[n].position
      PROVE  m = n
  <2>1. map[m] = map[n]
    BY <1>5, <1>8, <1>9 DEF PairType
  <2> QED
    BY <1>1, <1>8, <2>1
<1>10. {map[m].position : m \in at} = AskedBy(desc, i)
  BY <1>5, <1>6
<1>11. (\E m, n \in at : m # n) <=> \E p, q \in AskedBy(desc, i) : p # q
  BY <1>5, <1>6, <1>9
<1>12. Cardinality(at) > 1 <=> \E p, q \in AskedBy(desc, i) : p # q
  BY <1>7, <1>11, MoreThanOne
<1> QED
  BY <1>10, <1>12 DEF at, map

LEMMA NoTargetNoPosition ==
  ASSUME targets \in Seq(TargetType), TargetsUnique, NEW desc \in Seq(TaskDescType),
         NEW s, \A i \in DOMAIN targets : targets[i].probe_serial # s
  PROVE  PositionsOf(PositionTargetMap(desc), s) = {}
<1> DEFINE map == PositionTargetMap(desc)
<1>1. ToSet(map) = UNION {Pairs(desc, p) : p \in Positions(desc)}
  BY MapIs
<1> HIDE DEF map
<1>2. ASSUME NEW m \in DOMAIN map, map[m].target # NoTarget
      PROVE  map[m].target.probe_serial # s
  <2>1. map[m] \in ToSet(map)
    BY DEF ToSet
  <2>2. PICK p \in Positions(desc) : map[m] \in Pairs(desc, p)
    BY <1>1, <2>1
  <2>3. PICK j \in AskedAt(desc, p) : map[m] = [position |-> p, target |-> targets[j]]
    BY <1>2, <2>2 DEF Pairs
  <2>4. j \in DOMAIN targets
    BY FoundIs
  <2> QED
    BY <2>3, <2>4
<1> QED
  BY <1>2 DEF PositionsOf, HasSerial, map

LEMMA NotUniqueIs ==
  ASSUME targets \in Seq(TargetType), TargetsUnique, NEW desc \in Seq(TaskDescType)
  PROVE  NotUnique(PositionTargetMap(desc)) =
           {[kind |-> "target_is_not_unique", serial |-> targets[i].probe_serial,
             entries |-> AskedBy(desc, i)] :
              i \in {j \in DOMAIN targets : \E p, q \in AskedBy(desc, j) : p # q}}
<1> DEFINE map == PositionTargetMap(desc)
           many == {j \in DOMAIN targets : \E p, q \in AskedBy(desc, j) : p # q}
           often == {u \in DOMAIN ProbeConfigs : Cardinality(PositionsOf(map, u)) > 1}
           Error(i) == [kind |-> "target_is_not_unique", serial |-> targets[i].probe_serial,
                        entries |-> AskedBy(desc, i)]
<1>1. \A i \in DOMAIN targets : targets[i].probe_serial \in DOMAIN ProbeConfigs
  BY ElementOfSeq, LenProperties DEF TargetType, Target
<1>2. \A i \in DOMAIN targets :
        /\ NotUniqueError(map, targets[i].probe_serial) = Error(i)
        /\ Cardinality(PositionsOf(map, targets[i].probe_serial)) > 1 <=> i \in many
  BY PositionsOfAre DEF NotUniqueError
<1>3. ASSUME NEW s \in often PROVE \E i \in DOMAIN targets : targets[i].probe_serial = s
  <2>1. SUFFICES ASSUME \A i \in DOMAIN targets : targets[i].probe_serial # s
                 PROVE  FALSE
    OBVIOUS
  <2>2. PositionsOf(map, s) = {}
    BY <2>1, NoTargetNoPosition
  <2>3. Cardinality(PositionsOf(map, s)) = 0
    BY <2>2, FS_EmptySet
  <2>4. Cardinality(PositionsOf(map, s)) > 1
    OBVIOUS
  <2> QED
    BY <2>3, <2>4
<1>4. NotUnique(map) = {NotUniqueError(map, s) : s \in often}
  BY DEF NotUnique
<1>5. \A s \in often : \E i \in many : targets[i].probe_serial = s
  BY <1>2, <1>3
<1>6. \A i \in many : targets[i].probe_serial \in often
  BY <1>1, <1>2
<1>7. \A i \in many : i \in DOMAIN targets
  OBVIOUS
<1> HIDE DEF map, many, often, Error
<1>8. {NotUniqueError(map, s) : s \in often} = {Error(i) : i \in many}
  BY <1>2, <1>5, <1>6, <1>7
<1>9. NotUnique(map) = {Error(i) : i \in many}
  BY <1>4, <1>8
<1> QED
  BY <1>9 DEF map, many, Error

LEMMA ErrorsAreFaults ==
  ASSUME targets \in Seq(TargetType), TargetsUnique, NEW desc \in Seq(TaskDescType)
  PROVE  Errors(desc) = Faults(desc)
<1> DEFINE NoneChosen == {[kind |-> "no_target_chosen", task |-> t] :
             t \in {u \in DOMAIN desc : \A p \in Positions(desc) : p[1] # u}}
           Undecoded == {[kind |-> "base64_decoding_failed", task |-> t] :
             t \in {u \in DOMAIN desc : ~ desc[u].base64_ok}}
           Unavailable == {[kind |-> "target_not_available", entry |-> p] :
             p \in {q \in Positions(desc) : AskedAt(desc, q) = {}}}
           Clashes == {[kind |-> "target_is_not_unique", serial |-> targets[i].probe_serial,
                        entries |-> AskedBy(desc, i)] :
             i \in {j \in DOMAIN targets : \E p, q \in AskedBy(desc, j) : p # q}}
<1>1. TaskErrors(desc) = NoneChosen \cup Undecoded
  <2>1. {u \in DOMAIN desc : Entries(desc[u], u) = <<>>}
          = {u \in DOMAIN desc : \A p \in Positions(desc) : p[1] # u}
    BY TaskErrorsAre
  <2> QED
    BY <2>1 DEF TaskErrors
<1>2. NotAvailable(PositionTargetMap(desc)) = Unavailable
  BY NotAvailableIs
<1>3. NotUnique(PositionTargetMap(desc)) = Clashes
  BY NotUniqueIs
<1>4. Faults(desc) = NoneChosen \cup Undecoded \cup Unavailable \cup Clashes
  BY DEF Faults, AskedBy
<1> HIDE DEF NoneChosen, Undecoded, Unavailable, Clashes
<1> QED
  BY <1>1, <1>2, <1>3, <1>4 DEF Errors
-----------------------------------------------------------------------------
(* No two runs, of whatever tasks, are on the same probe.                  *)
Distinct(tasks) ==
  \A t, u \in DOMAIN tasks : \A i \in DOMAIN tasks[t], j \in DOMAIN tasks[u] :
    tasks[t][i].probe_serial = tasks[u][j].probe_serial => <<t, i>> = <<u, j>>

(* The runs of an accepted job.                                            *)
LEMMA TasksAre ==
  ASSUME targets \in Seq(TargetType), TargetsUnique, NEW desc \in Seq(TaskDescType)
  PROVE  /\ Tasks(desc) \in Seq(Seq(TargetType)) /\ DOMAIN Tasks(desc) = DOMAIN desc
         /\ \A t \in DOMAIN desc :
              /\ Tasks(desc)[t] = TargetsOf(desc[t], t)
              /\ Tasks(desc)[t] \in Seq(ToSet(targets))
<1>1. /\ DOMAIN Tasks(desc) = DOMAIN desc
      /\ \A t \in DOMAIN desc : Tasks(desc)[t] = TargetsOf(desc[t], t)
  BY DEF Tasks
<1>2. ASSUME NEW t \in DOMAIN desc
      PROVE  Tasks(desc)[t] \in Seq(TargetType) /\ Tasks(desc)[t] \in Seq(ToSet(targets))
  <2> DEFINE runs == TargetsOf(desc[t], t)
  <2>1. PICK at : AskedFrom(desc, t, runs, at)
    BY TargetsOfAre
  <2>2. runs \in Seq(TargetType)
    BY TargetsOfAre
  <2>3. \A m \in DOMAIN runs : runs[m] \in ToSet(targets)
    <3>1. ASSUME NEW m \in DOMAIN runs PROVE runs[m] \in ToSet(targets)
      <4>1. PICK i \in AskedAt(desc, at[m]) : runs[m] = targets[i]
        BY <2>1 DEF AskedFrom
      <4>2. i \in DOMAIN targets
        BY <2>1, FoundIs DEF AskedFrom
      <4> QED BY <4>1, <4>2 DEF ToSet
    <3> QED BY <3>1
  <2> HIDE DEF runs
  <2>4. runs \in Seq(ToSet(targets))
    <3>1. PICK n \in Nat : DOMAIN runs = 1 .. n /\ runs = [m \in 1 .. n |-> runs[m]]
      BY <2>2
    <3>2. runs \in [1 .. n -> ToSet(targets)]
      BY <2>3, <3>1
    <3> QED BY <3>2
  <2> QED
    BY <1>1, <2>2, <2>4 DEF runs
<1>3. Tasks(desc) \in Seq(Seq(TargetType))
  <2>1. PICK n \in Nat : DOMAIN desc = 1 .. n
    BY LenProperties
  <2>2. Tasks(desc) = [t \in 1 .. n |-> Tasks(desc)[t]]
    BY <2>1 DEF Tasks
  <2>3. Tasks(desc) \in [1 .. n -> Seq(TargetType)]
    BY <1>2, <2>1, <2>2
  <2> QED BY <2>3
<1> QED
  BY <1>1, <1>2, <1>3

LEMMA AcceptedAreDistinct ==
  ASSUME targets \in Seq(TargetType), TargetsUnique, NEW desc \in Seq(TaskDescType),
         Errors(desc) = {}
  PROVE  Distinct(Tasks(desc))
<1> DEFINE tasks == Tasks(desc)
<1> SUFFICES ASSUME NEW t \in DOMAIN tasks, NEW u \in DOMAIN tasks,
                    NEW i \in DOMAIN tasks[t], NEW j \in DOMAIN tasks[u],
                    tasks[t][i].probe_serial = tasks[u][j].probe_serial
             PROVE  <<t, i>> = <<u, j>>
  BY DEF Distinct
<1>1. /\ t \in DOMAIN desc /\ tasks[t] = TargetsOf(desc[t], t)
      /\ u \in DOMAIN desc /\ tasks[u] = TargetsOf(desc[u], u)
  BY TasksAre
<1>2. PICK a : AskedFrom(desc, t, tasks[t], a)
  BY <1>1, TargetsOfAre
<1>3. PICK b : AskedFrom(desc, u, tasks[u], b)
  BY <1>1, TargetsOfAre
<1> HIDE DEF tasks
<1>4. PICK x \in AskedAt(desc, a[i]) : tasks[t][i] = targets[x]
  BY <1>2 DEF AskedFrom
<1>5. PICK y \in AskedAt(desc, b[j]) : tasks[u][j] = targets[y]
  BY <1>3 DEF AskedFrom
<1>6. a[i] \in Positions(desc) /\ a[i][1] = t /\ b[j] \in Positions(desc) /\ b[j][1] = u
  BY <1>2, <1>3 DEF AskedFrom
<1>7. x \in DOMAIN targets /\ y \in DOMAIN targets
  BY <1>6, FoundIs
<1>8. x = y
  BY <1>4, <1>5, <1>7 DEF TargetsUnique
<1>9. a[i] \in AskedBy(desc, x) /\ b[j] \in AskedBy(desc, x)
  BY <1>6, <1>8 DEF AskedBy
<1>10. \A p, q \in AskedBy(desc, x) : p = q
  <2>1. NotUnique(PositionTargetMap(desc)) = {}
    BY DEF Errors
  <2> DEFINE many == {k \in DOMAIN targets : \E p, q \in AskedBy(desc, k) : p # q}
             Error(k) == [kind |-> "target_is_not_unique", serial |-> targets[k].probe_serial,
                          entries |-> AskedBy(desc, k)]
  <2>2. NotUnique(PositionTargetMap(desc)) = {Error(k) : k \in many}
    BY NotUniqueIs
  <2>3. x \notin many
    <3> HIDE DEF many, Error
    <3>1. {Error(k) : k \in many} = {}
      BY <2>1, <2>2
    <3> QED
      BY <3>1
  <2> HIDE DEF Error
  <2> QED
    BY <1>7, <2>3
<1>11. a[i] = b[j] /\ t = u
  BY <1>6, <1>9, <1>10
<1>12. a[i] = a[j]
  <2>1. tasks[t][j] = targets[x] /\ j \in DOMAIN tasks[t]
    BY <1>5, <1>8, <1>11
  <2>2. PICK z \in AskedAt(desc, a[j]) : tasks[t][j] = targets[z]
    BY <1>2, <2>1 DEF AskedFrom
  <2>3. a[j] \in Positions(desc)
    BY <1>2, <2>1 DEF AskedFrom
  <2>4. z \in DOMAIN targets
    BY <2>3, FoundIs
  <2>5. z = x
    BY <1>7, <2>1, <2>2, <2>4 DEF TargetsUnique
  <2>6. a[j] \in AskedBy(desc, x)
    BY <2>3, <2>5 DEF AskedBy
  <2> QED
    BY <1>9, <1>10, <2>6
<1> QED
  BY <1>2, <1>11, <1>12 DEF AskedFrom

LEMMA AcceptedAreAsked ==
  ASSUME targets \in Seq(TargetType), TargetsUnique, NEW desc \in Seq(TaskDescType),
         Errors(desc) = {}, NEW t \in DOMAIN desc
  PROVE  LET asked == UNION {AskedAt(desc, p) : p \in {q \in Positions(desc) : q[1] = t}}
         IN  asked # {} /\ ToSet(Tasks(desc)[t]) = {targets[i] : i \in asked}
<1> DEFINE runs == Tasks(desc)[t]
           here == {q \in Positions(desc) : q[1] = t}
           asked == UNION {AskedAt(desc, p) : p \in here}
<1>1. runs = TargetsOf(desc[t], t)
  BY TasksAre
<1>2. PICK at : AskedFrom(desc, t, runs, at)
  BY <1>1, TargetsOfAre
<1>3. asked # {}
  <2>1. Faults(desc) = {}
    BY ErrorsAreFaults
  <2>2. ~ \A p \in Positions(desc) : p[1] # t
    <3> DEFINE idle == {u \in DOMAIN desc : \A p \in Positions(desc) : p[1] # u}
    <3>1. {[kind |-> "no_target_chosen", task |-> u] : u \in idle} = {}
      BY <2>1 DEF Faults
    <3>2. t \notin idle
      BY <3>1
    <3> QED
      BY <3>2
  <2>3. PICK p \in Positions(desc) : p[1] = t
    BY <2>2
  <2>4. AskedAt(desc, p) # {}
    <3> DEFINE lost == {q \in Positions(desc) : AskedAt(desc, q) = {}}
    <3>1. {[kind |-> "target_not_available", entry |-> q] : q \in lost} = {}
      BY <2>1 DEF Faults
    <3>2. p \notin lost
      BY <3>1
    <3> QED
      BY <3>2
  <2> QED
    BY <2>3, <2>4
<1> HIDE DEF runs
<1>4. \A m \in DOMAIN runs : \E i \in asked : runs[m] = targets[i]
  BY <1>2 DEF AskedFrom
<1>5. \A i \in asked : \E m \in DOMAIN runs : runs[m] = targets[i]
  BY <1>2 DEF AskedFrom
<1> HIDE DEF asked
<1>6. ToSet(runs) = {targets[i] : i \in asked}
  BY <1>4, <1>5 DEF ToSet
<1> QED
  BY <1>3, <1>6 DEF asked, runs
-----------------------------------------------------------------------------
(* The result after the first n of the outcomes have been stored.          *)
Stores(tasks, outcomes, n, f) ==
  f = [k \in 0 .. n |->
        IF k = 0 THEN EmptyFromJob(tasks) ELSE Stored(f[k - 1], outcomes[k])]

StoredInTurn(tasks, outcomes, n, f) ==
  /\ f[0] = EmptyFromJob(tasks)
  /\ \A k \in 1 .. n : f[k] = Stored(f[k - 1], outcomes[k])

LEMMA StoresIs ==
  ASSUME NEW tasks, NEW outcomes, NEW n \in Nat, NEW f, Stores(tasks, outcomes, n, f)
  PROVE  StoredInTurn(tasks, outcomes, n, f)
<1> DEFINE F == [k \in 0 .. n |->
                   IF k = 0 THEN EmptyFromJob(tasks) ELSE Stored(f[k - 1], outcomes[k])]
<1>1. f = F
  BY DEF Stores
<1>2. \A k \in 0 .. n :
        F[k] = IF k = 0 THEN EmptyFromJob(tasks) ELSE Stored(f[k - 1], outcomes[k])
  OBVIOUS
<1> HIDE DEF F
<1> QED
  BY <1>1, <1>2 DEF StoredInTurn

LEMMA StoresExists ==
  ASSUME NEW tasks, NEW outcomes, NEW n \in Nat
  PROVE  \E f : Stores(tasks, outcomes, n, f)
<1> DEFINE N == {m \in Nat : \E f : Stores(tasks, outcomes, m, f)}
<1>1. 0 \in N
  <2>1. Stores(tasks, outcomes, 0, [k \in 0 .. 0 |-> EmptyFromJob(tasks)])
    BY DEF Stores
  <2> QED
    BY <2>1
<1>2. ASSUME NEW m \in Nat, m \in N PROVE m + 1 \in N
  <2>1. PICK f : Stores(tasks, outcomes, m, f)
    BY <1>2
  <2>2. f[0] = EmptyFromJob(tasks) /\ \A k \in 1 .. m : f[k] = Stored(f[k - 1], outcomes[k])
    BY <2>1, StoresIs DEF StoredInTurn
  <2> DEFINE g == [k \in 0 .. m + 1 |->
                     IF k = m + 1 THEN Stored(f[m], outcomes[m + 1]) ELSE f[k]]
  <2>3. ASSUME NEW k \in 0 .. m + 1
        PROVE  g[k] = IF k = 0 THEN EmptyFromJob(tasks) ELSE Stored(g[k - 1], outcomes[k])
    <3>1. CASE k = m + 1
      BY <3>1
    <3>2. CASE k = 0
      BY <2>2, <3>2
    <3>3. CASE k # m + 1 /\ k # 0
      <4>1. k \in 1 .. m /\ k - 1 \in 0 .. m + 1 /\ k - 1 # m + 1
        BY <3>3
      <4> QED
        BY <2>2, <3>3, <4>1
    <3> QED
      BY <3>1, <3>2, <3>3
  <2>4. Stores(tasks, outcomes, m + 1, g)
    BY <2>3 DEF Stores
  <2> QED
    BY <2>4
<1> HIDE DEF N
<1>3. Nat \subseteq N
  BY <1>1, <1>2, Induction
<1> QED
  BY <1>3 DEF N

LEMMA JobResultDefined ==
  ASSUME NEW tasks, Len(Outcomes(tasks)) \in Nat
  PROVE  \E f : /\ Stores(tasks, Outcomes(tasks), Len(Outcomes(tasks)), f)
                /\ JobResult(tasks) = f[Len(Outcomes(tasks))]
<1> DEFINE f == CHOOSE g : Stores(tasks, Outcomes(tasks), Len(Outcomes(tasks)), g)
<1>1. Stores(tasks, Outcomes(tasks), Len(Outcomes(tasks)), f)
  BY StoresExists
<1>2. JobResult(tasks) = f[Len(Outcomes(tasks))]
  BY DEF JobResult, Stores
<1> QED
  BY <1>1, <1>2

OutcomeType == [task_id : Nat, run_id : DOMAIN ProbeConfigs, outcome : Nat \X Nat]

(* The outcomes of the runs, one of each.                                  *)
LEMMA OutcomesAre ==
  ASSUME NEW tasks \in Seq(Seq(TargetType))
  PROVE  LET all == Outcomes(tasks) IN
         /\ all \in Seq(OutcomeType)
         /\ \A m \in DOMAIN all : \E t \in DOMAIN tasks : \E r \in DOMAIN tasks[t] :
              all[m] = [task_id |-> t, run_id |-> tasks[t][r].probe_serial,
                        outcome |-> <<t, r>>]
         /\ \A t \in DOMAIN tasks : \A r \in DOMAIN tasks[t] :
              \E m \in DOMAIN all : all[m].outcome = <<t, r>>
<1> DEFINE One(t, r) == [task_id |-> t, run_id |-> tasks[t][r].probe_serial,
                         outcome |-> <<t, r>>]
           Row(t) == [r \in DOMAIN tasks[t] |-> One(t, r)]
           rows == [t \in DOMAIN tasks |-> Row(t)]
           all == FlattenSeq(rows)
<1>1. Outcomes(tasks) = all
  BY DEF Outcomes
<1>2. \A t \in DOMAIN tasks : t \in Nat /\ tasks[t] \in Seq(TargetType)
  BY LenProperties, ElementOfSeq
<1>3. ASSUME NEW t \in DOMAIN tasks
      PROVE  /\ Row(t) \in Seq(OutcomeType) /\ DOMAIN Row(t) = DOMAIN tasks[t]
             /\ \A r \in DOMAIN tasks[t] : Row(t)[r] = One(t, r)
  <2>1. PICK n \in Nat : DOMAIN tasks[t] = 1 .. n
    BY <1>2, LenProperties
  <2>2. \A r \in 1 .. n : One(t, r) \in OutcomeType
    <3>1. \A r \in 1 .. n : tasks[t][r] \in TargetType
      BY <1>2, <2>1, ElementOfSeq, LenProperties
    <3>2. \A r \in 1 .. n : tasks[t][r].probe_serial \in DOMAIN ProbeConfigs
      BY <3>1 DEF TargetType, Target
    <3> QED
      BY <1>2, <3>2 DEF OutcomeType
  <2>3. Row(t) \in [1 .. n -> OutcomeType]
    BY <2>1, <2>2
  <2> QED
    BY <2>1, <2>3
<1> HIDE DEF Row
<1>4. rows \in Seq(Seq(OutcomeType))
  <2>1. PICK n \in Nat : DOMAIN tasks = 1 .. n
    BY LenProperties
  <2>2. rows \in [1 .. n -> Seq(OutcomeType)]
    BY <1>3, <2>1
  <2> QED BY <2>2
<1>5. DOMAIN rows = DOMAIN tasks /\ \A t \in DOMAIN tasks : rows[t] = Row(t)
  OBVIOUS
<1> HIDE DEF rows
<1>6. PICK row, col : Located(rows, row, col)
  BY <1>4, FlattenLocates
<1>7. all \in Seq(OutcomeType)
  BY <1>4, FlattenLocates
<1>8. \A m \in DOMAIN all : /\ row[m] \in DOMAIN tasks /\ col[m] \in DOMAIN tasks[row[m]]
                            /\ all[m] = One(row[m], col[m])
  <2> HIDE DEF One
  <2>1. ASSUME NEW m \in DOMAIN all
        PROVE  row[m] \in DOMAIN rows /\ col[m] \in DOMAIN rows[row[m]]
               /\ all[m] = rows[row[m]][col[m]]
    BY <1>6 DEF Located
  <2> QED
    BY <1>3, <1>5, <2>1
<1>9. ASSUME NEW t \in DOMAIN tasks, NEW r \in DOMAIN tasks[t]
      PROVE  \E m \in DOMAIN all : row[m] = t /\ col[m] = r
  <2>1. t \in DOMAIN rows /\ r \in DOMAIN rows[t]
    BY <1>3, <1>5
  <2> QED
    BY <1>6, <2>1 DEF Located
<1> HIDE DEF all
<1>10. ASSUME NEW t \in DOMAIN tasks, NEW r \in DOMAIN tasks[t]
       PROVE  \E m \in DOMAIN all : all[m].outcome = <<t, r>>
  <2>1. PICK m \in DOMAIN all : row[m] = t /\ col[m] = r
    BY <1>9
  <2>2. all[m] = One(t, r)
    BY <1>8, <2>1
  <2>3. all[m].outcome = <<t, r>>
    BY <2>2
  <2> HIDE DEF One
  <2> QED
    BY <2>3
<1> QED
  BY <1>1, <1>7, <1>8, <1>10

SlotType == [target : TargetType, result : (Nat \X Nat) \cup {NeverSet}]

(* The slots of a result of which those of `done` have their outcome.      *)
Slots(tasks, result, done) ==
  /\ DOMAIN result = DOMAIN tasks
  /\ \A t \in DOMAIN tasks :
       /\ result[t] \in Seq(SlotType) /\ Len(result[t]) = Len(tasks[t])
       /\ \A r \in DOMAIN tasks[t] :
            /\ result[t][r].target = tasks[t][r]
            /\ <<t, r>> \in done => result[t][r].result = <<t, r>>

LEMMA EmptySlots ==
  ASSUME NEW tasks \in Seq(Seq(TargetType))
  PROVE  Slots(tasks, EmptyFromJob(tasks), {})
<1> DEFINE Empty(t) == [r \in DOMAIN tasks[t] |-> [target |-> tasks[t][r], result |-> NeverSet]]
<1>1. ASSUME NEW t \in DOMAIN tasks
      PROVE  /\ Empty(t) \in Seq(SlotType) /\ Len(Empty(t)) = Len(tasks[t])
             /\ \A r \in DOMAIN tasks[t] : Empty(t)[r].target = tasks[t][r]
  <2>1. tasks[t] \in Seq(TargetType)
    BY LenProperties, ElementOfSeq
  <2>2. PICK n \in Nat : DOMAIN tasks[t] = 1 .. n /\ Len(tasks[t]) = n
    BY <2>1, LenProperties
  <2>3. \A r \in 1 .. n : [target |-> tasks[t][r], result |-> NeverSet] \in SlotType
    BY <2>1, <2>2, ElementOfSeq DEF SlotType
  <2>4. Empty(t) \in [1 .. n -> SlotType]
    BY <2>2, <2>3
  <2> QED
    BY <2>2, <2>4
<1>2. EmptyFromJob(tasks) = [t \in DOMAIN tasks |-> Empty(t)]
  BY DEF EmptyFromJob
<1> HIDE DEF Empty
<1> QED
  BY <1>1, <1>2 DEF Slots

(* An outcome is stored in the slot of its run, and in no other: its serial *)
(* leads there since no other run has it.                                  *)
LEMMA StoredIs ==
  ASSUME NEW tasks \in Seq(Seq(TargetType)), Distinct(tasks), NEW result, NEW done,
         Slots(tasks, result, done), NEW t \in DOMAIN tasks, NEW r \in DOMAIN tasks[t],
         NEW o, o = [task_id |-> t, run_id |-> tasks[t][r].probe_serial, outcome |-> <<t, r>>]
  PROVE  Slots(tasks, Stored(result, o), done \cup {<<t, r>>})
<1>1. /\ tasks[t] \in Seq(TargetType) /\ t \in Nat
      /\ r \in Nat \ {0} /\ DOMAIN tasks[t] = 1 .. Len(tasks[t])
  BY LenProperties, ElementOfSeq
<1>2. /\ result[t] \in Seq(SlotType) /\ Len(result[t]) = Len(tasks[t])
      /\ DOMAIN result[t] = DOMAIN tasks[t]
      /\ \A i \in DOMAIN tasks[t] : result[t][i].target = tasks[t][i]
  BY <1>1, LenProperties DEF Slots
<1> DEFINE I == {i \in 1 .. Len(result[t]) : result[t][i].target.probe_serial = o.run_id}
<1>3. I = {r}
  <2>1. \A i \in DOMAIN tasks[t] : tasks[t][i].probe_serial = tasks[t][r].probe_serial => i = r
    BY DEF Distinct
  <2>2. o.run_id = tasks[t][r].probe_serial
    OBVIOUS
  <2> HIDE DEF I
  <2> QED
    BY <1>1, <1>2, <2>1, <2>2 DEF I
<1>4. RunByProbeSerial(result[t], o.run_id) = r
  <2>1. RunByProbeSerial(result[t], o.run_id) = IF I # {} THEN Min(I) ELSE 0
    BY DEF RunByProbeSerial, SelectInSeq
  <2>2. Min({r}) = r
    <3>1. {r} \in SUBSET Nat /\ {r} # {}
      BY <1>1
    <3>2. Min({r}) \in {r}
      BY <3>1, MinOf
    <3> QED BY <3>2
  <2> HIDE DEF I
  <2> QED
    BY <1>3, <2>1, <2>2
<1> DEFINE slot == [result[t][r] EXCEPT !.result = <<t, r>>]
           runs == [result[t] EXCEPT ![r] = slot]
<1>5. Stored(result, o) = [result EXCEPT ![t] = runs]
  <2>1. o.task_id = t /\ o.outcome = <<t, r>>
    OBVIOUS
  <2>2. r # 0
    BY <1>1
  <2> QED
    BY <1>4, <2>1, <2>2 DEF Stored
<1>6. slot \in SlotType /\ slot.target = tasks[t][r] /\ slot.result = <<t, r>>
  <2>1. result[t][r] \in SlotType /\ result[t][r].target = tasks[t][r]
    BY <1>1, <1>2, ElementOfSeq
  <2>2. <<t, r>> \in Nat \X Nat
    BY <1>1
  <2> QED
    BY <2>1, <2>2 DEF SlotType
<1> HIDE DEF slot
<1>7. /\ runs \in Seq(SlotType) /\ Len(runs) = Len(tasks[t])
      /\ runs[r] = slot /\ \A i \in DOMAIN tasks[t] : i # r => runs[i] = result[t][i]
  <2>1. runs \in Seq(SlotType) /\ Len(runs) = Len(result[t])
    BY <1>1, <1>2, <1>6, ExceptSeq
  <2> QED
    BY <1>2, <2>1
<1> HIDE DEF runs
<1> DEFINE next == [result EXCEPT ![t] = runs]
<1>8. DOMAIN result = DOMAIN tasks
  BY DEF Slots
<1>9. /\ DOMAIN next = DOMAIN tasks /\ next[t] = runs
      /\ \A u \in DOMAIN tasks : u # t => next[u] = result[u]
  BY <1>8
<1> HIDE DEF next
<1>10. ASSUME NEW u \in DOMAIN tasks
       PROVE  /\ next[u] \in Seq(SlotType) /\ Len(next[u]) = Len(tasks[u])
              /\ \A i \in DOMAIN tasks[u] :
                   /\ next[u][i].target = tasks[u][i]
                   /\ <<u, i>> \in done \cup {<<t, r>>} => next[u][i].result = <<u, i>>
  <2>1. CASE u = t
    <3>1. ASSUME NEW i \in DOMAIN tasks[t], i # r, <<t, i>> \in done \cup {<<t, r>>}
          PROVE  result[t][i].result = <<t, i>>
      <4>1. <<t, i>> \in done
        BY <3>1
      <4> QED BY <4>1 DEF Slots
    <3> QED
      BY <1>2, <1>6, <1>7, <1>9, <2>1, <3>1
  <2>2. CASE u # t
    <3>1. \A i \in DOMAIN tasks[u] : <<u, i>> # <<t, r>>
      BY <2>2
    <3> QED
      BY <1>9, <2>2, <3>1 DEF Slots
  <2> QED
    BY <2>1, <2>2
<1>11. Slots(tasks, next, done \cup {<<t, r>>})
  BY <1>9, <1>10 DEF Slots
<1> QED
  BY <1>5, <1>11 DEF next

(* So all outcomes are, by induction over the number of those stored.      *)
LEMMA OutcomesAreStored ==
  ASSUME NEW tasks \in Seq(Seq(TargetType)), Distinct(tasks)
  PROVE  \A t \in DOMAIN tasks : \A r \in DOMAIN tasks[t] :
           JobResult(tasks)[t][r].result = <<t, r>>
<1> DEFINE all == Outcomes(tasks)
<1>1. /\ all \in Seq(OutcomeType)
      /\ \A m \in DOMAIN all : \E t \in DOMAIN tasks : \E r \in DOMAIN tasks[t] :
           all[m] = [task_id |-> t, run_id |-> tasks[t][r].probe_serial, outcome |-> <<t, r>>]
      /\ \A t \in DOMAIN tasks : \A r \in DOMAIN tasks[t] :
           \E m \in DOMAIN all : all[m].outcome = <<t, r>>
  BY OutcomesAre
<1>2. Len(all) \in Nat /\ DOMAIN all = 1 .. Len(all)
  BY <1>1, LenProperties
<1>3. PICK f : Stores(tasks, all, Len(all), f) /\ JobResult(tasks) = f[Len(all)]
  BY <1>2, JobResultDefined
<1> HIDE DEF all
<1>4. f[0] = EmptyFromJob(tasks) /\ \A k \in 1 .. Len(all) : f[k] = Stored(f[k - 1], all[k])
  <2>1. StoredInTurn(tasks, all, Len(all), f)
    BY <1>2, <1>3, StoresIs
  <2> QED
    BY <2>1 DEF StoredInTurn
<1> DEFINE Upto(k) == {all[m].outcome : m \in 1 .. k}
           N == {k \in Nat : k <= Len(all) => Slots(tasks, f[k], Upto(k))}
<1>5. 0 \in N
  <2>1. Upto(0) = {}
    OBVIOUS
  <2> QED
    BY <1>4, <2>1, EmptySlots
<1>6. ASSUME NEW k \in Nat, k \in N PROVE k + 1 \in N
  <2> SUFFICES ASSUME k + 1 <= Len(all) PROVE Slots(tasks, f[k + 1], Upto(k + 1))
    OBVIOUS
  <2>1. Slots(tasks, f[k], Upto(k)) /\ k + 1 \in DOMAIN all
    BY <1>2, <1>6
  <2>2. f[k + 1] = Stored(f[k], all[k + 1])
    <3>1. k + 1 \in 1 .. Len(all) /\ (k + 1) - 1 = k
      BY <1>2
    <3> QED BY <1>4, <3>1
  <2>3. PICK t \in DOMAIN tasks : \E r \in DOMAIN tasks[t] :
          all[k + 1] = [task_id |-> t, run_id |-> tasks[t][r].probe_serial, outcome |-> <<t, r>>]
    BY <1>1, <2>1
  <2>4. PICK r \in DOMAIN tasks[t] :
          all[k + 1] = [task_id |-> t, run_id |-> tasks[t][r].probe_serial, outcome |-> <<t, r>>]
    BY <2>3
  <2>5. Upto(k + 1) = Upto(k) \cup {<<t, r>>}
    <3>1. all[k + 1].outcome = <<t, r>>
      BY <2>4
    <3>2. /\ \A m \in 1 .. k + 1 : m \in 1 .. k \/ m = k + 1
          /\ \A m \in 1 .. k : m \in 1 .. k + 1
          /\ k + 1 \in 1 .. k + 1
      OBVIOUS
    <3>3. PICK new : new = <<t, r>>
      OBVIOUS
    <3>4. all[k + 1].outcome = new
      BY <3>1, <3>3
    <3>5. Upto(k + 1) = Upto(k) \cup {new}
      BY <3>2, <3>4
    <3> QED BY <3>3, <3>5
  <2> HIDE DEF Upto
  <2> QED
    BY <2>1, <2>2, <2>4, <2>5, StoredIs
<1> HIDE DEF N, Upto
<1>7. Slots(tasks, JobResult(tasks), Upto(Len(all)))
  <2>1. Len(all) \in N
    BY <1>2, <1>5, <1>6, Induction
  <2> QED
    BY <1>2, <1>3, <2>1 DEF N
<1>8. \A t \in DOMAIN tasks : \A r \in DOMAIN tasks[t] : <<t, r>> \in Upto(Len(all))
  BY <1>1, <1>2 DEF Upto
<1> QED
  BY <1>7, <1>8 DEF Slots
-----------------------------------------------------------------------------
(* The part of the state the start-up works on.                            *)
StartupOK ==
  /\ listed \in Seq(Probes \cup {NoSerial})
  /\ targets \in Seq(TargetType)
  /\ server \in {"starting", "serving", "exited"}

(* What a descriptor is answered with, whoever posted it.                  *)
Answered(desc) ==
  [desc |-> desc, errors |-> Errors(desc),
   tasks |-> IF Errors(desc) = {} THEN Tasks(desc) ELSE <<>>]

AnswerOK ==
  \/ answer = NoAnswer
  \/ server = "serving" /\ \E desc \in Seq(TaskDescType) : answer = Answered(desc)

(* What the builder makes: tasks that decode and have lists to run on.     *)
TaskBuilt == {t \in TaskDescType : t.base64_ok /\ t.run_on # <<>>}

BuilderType ==
  [phase : {"idle", "job", "task", "built",
            "no_run_ons", "no_elf", "no_tasks", "no_timeout"},
   tasks : Seq(TaskBuilt),
   timeout : BOOLEAN, elf : BOOLEAN, run_ons : Seq(RunOnType)]

BuilderOK ==
  /\ builder \in BuilderType
  /\ builder.phase = "built" =>
       builder.tasks # <<>> /\ (answer # NoAnswer => answer.desc = builder.tasks)

(* The inductive invariant.                                                *)
IInv == StartupOK /\ TargetsUnique /\ AnswerOK /\ BuilderOK

LEMMA InitIInv == BuiltInit => IInv
<1> SUFFICES ASSUME BuiltInit PROVE IInv
  OBVIOUS
<1>1. StartupOK /\ TargetsUnique /\ AnswerOK
  BY ValidationAssumption DEF BuiltInit, Init, StartupOK, TargetsUnique, AnswerOK
<1>2. BuilderOK
  BY DEF BuiltInit, BuilderOK, BuilderType, Idle
<1> QED
  BY <1>1, <1>2 DEF IInv

(* Only `push` changes the targets, and it adds one with a serial that no  *)
(* target had.                                                             *)
LEMMA PushKeepsUnique ==
  ASSUME StartupOK, TargetsUnique, PushTarget
  PROVE  StartupOK' /\ TargetsUnique'
<1> DEFINE s == Head(listed)
<1>1. s \in DOMAIN ProbeConfigs /\ Tail(listed) \in Seq(Probes \cup {NoSerial})
  BY DEF StartupOK, PushTarget, Ignored
<1>2. targets' = Append(targets, Target(s)) /\ listed' = Tail(listed) /\ server' = server
  BY DEF PushTarget
<1>3. Target(s) \in TargetType
  BY <1>1 DEF TargetType
<1>4. StartupOK'
  <2>1. targets' \in Seq(TargetType)
    BY <1>2, <1>3 DEF StartupOK
  <2> QED BY <1>1, <1>2, <2>1 DEF StartupOK
<1>5. ASSUME NEW i \in DOMAIN targets PROVE targets[i].probe_serial # s
  BY DEF PushTarget, AlreadyPushed, ToSet
<1>6. Target(s).probe_serial = s
  BY DEF Target
<1>7. TargetsUnique'
  <2> SUFFICES ASSUME NEW i \in DOMAIN targets', NEW j \in DOMAIN targets',
                      targets'[i].probe_serial = targets'[j].probe_serial
               PROVE  i = j
    BY DEF TargetsUnique
  <2> DEFINE n == Len(targets) + 1
  <2>1. /\ DOMAIN targets' = 1 .. n /\ targets'[n] = Target(s)
        /\ \A k \in 1 .. n : k # n => k \in DOMAIN targets /\ targets'[k] = targets[k]
    BY <1>2 DEF StartupOK
  <2>2. CASE i # n /\ j # n
    BY <2>1, <2>2 DEF TargetsUnique
  <2>3. CASE i = n /\ j # n
    BY <2>1, <2>3, <1>5, <1>6
  <2>4. CASE i # n /\ j = n
    BY <2>1, <2>4, <1>5, <1>6
  <2>5. CASE i = n /\ j = n
    BY <2>5
  <2> QED BY <2>2, <2>3, <2>4, <2>5
<1> QED BY <1>4, <1>7

(* An answer depends on the descriptor and the targets alone.              *)
LEMMA SameTargetsSameAnswer ==
  ASSUME targets' = targets, NEW desc
  PROVE  Answered(desc)' = Answered(desc)
<1>1. ASSUME NEW entry PROVE Resolved(entry)' = Resolved(entry) /\ Found(entry)' = Found(entry)
  BY DEF Resolved, Found
<1>2. ASSUME NEW task, NEW t
      PROVE  MapOf(task, t)' = MapOf(task, t) /\ TargetsOf(task, t)' = TargetsOf(task, t)
  BY <1>1 DEF MapOf, TargetsOf
<1>3. Tasks(desc)' = Tasks(desc) /\ PositionTargetMap(desc)' = PositionTargetMap(desc)
  BY <1>2 DEF Tasks, PositionTargetMap
<1> QED
  BY <1>3 DEF Errors, Answered

(* A descriptor of the types of the wire is answered as `Answered` says.   *)
LEMMA PostAnswers ==
  ASSUME StartupOK, TargetsUnique, NEW desc \in Seq(TaskDescType), Post(desc)
  PROVE  /\ StartupOK' /\ TargetsUnique' /\ AnswerOK'
         /\ answer = NoAnswer /\ answer'.desc = desc
<1>1. /\ targets' = targets /\ listed' = listed /\ server' = "serving" /\ answer = NoAnswer
      /\ answer' = Answered(desc) /\ answer'.desc = desc
  BY DEF Post, Answered
<1>2. Answered(desc)' = Answered(desc)
  BY <1>1, SameTargetsSameAnswer
<1>3. AnswerOK'
  BY <1>1, <1>2 DEF AnswerOK
<1>4. StartupOK' /\ TargetsUnique'
  BY <1>1 DEF StartupOK, TargetsUnique
<1> QED
  BY <1>1, <1>3, <1>4

(* What the start-up does to the invariant; it is over before an answer.   *)
LEMMA StartupSteps ==
  ASSUME StartupOK, TargetsUnique, AnswerOK,
         SkipProbe \/ PushTarget \/ RefuseTarget \/ Serve
  PROVE  StartupOK' /\ TargetsUnique' /\ answer = NoAnswer /\ answer' = NoAnswer
<1>1. answer = NoAnswer /\ answer' = answer
  BY DEF AnswerOK, SkipProbe, PushTarget, RefuseTarget, Serve
<1>2. CASE SkipProbe
  BY <1>2, <1>1 DEF SkipProbe, StartupOK, TargetsUnique
<1>3. CASE PushTarget
  BY <1>3, <1>1, PushKeepsUnique
<1>4. CASE RefuseTarget
  BY <1>4, <1>1 DEF RefuseTarget, StartupOK, TargetsUnique
<1>5. CASE Serve
  BY <1>5, <1>1 DEF Serve, StartupOK, TargetsUnique
<1> QED
  BY <1>2, <1>3, <1>4, <1>5

LEMMA NothingAnswered ==
  ASSUME UNCHANGED vars, StartupOK, TargetsUnique, AnswerOK
  PROVE  StartupOK' /\ TargetsUnique' /\ AnswerOK'
<1>1. /\ targets' = targets /\ listed' = listed /\ server' = server /\ answer' = answer
  BY DEF vars
<1>2. \A desc : Answered(desc)' = Answered(desc)
  BY <1>1, SameTargetsSameAnswer
<1> QED
  BY <1>1, <1>2 DEF StartupOK, TargetsUnique, AnswerOK

LEMMA FailedIs ==
  ASSUME NEW e \in {"no_run_ons", "no_elf", "no_tasks", "no_timeout"}
  PROVE  Failed(e) \in BuilderType /\ Failed(e).phase = e
<1>1. Idle \in BuilderType
  BY DEF Idle, BuilderType
<1>2. Failed(e) = [Idle EXCEPT !.phase = e]
  BY DEF Failed
<1> QED
  BY <1>1, <1>2 DEF BuilderType

LEMMA DoneIs ==
  ASSUME NEW b \in BuilderType, b.phase = "task"
  PROVE  Done(b) \in BuilderType /\ Done(b).phase \in {"job", "no_run_ons", "no_elf"}
<1>1. \A e \in {"no_run_ons", "no_elf"} :
        Failed(e) \in BuilderType /\ Failed(e).phase = e
  BY FailedIs
<1>2. CASE b.run_ons # <<>> /\ b.elf
  <2> DEFINE task == [run_on |-> b.run_ons, base64_ok |-> TRUE]
  <2>1. task \in TaskBuilt
    BY <1>2 DEF BuilderType, TaskBuilt, TaskDescType
  <2>2. b.tasks \in Seq(TaskBuilt)
    BY DEF BuilderType, TaskBuilt
  <2>3. Append(b.tasks, task) \in Seq(TaskBuilt) /\ <<>> \in Seq(RunOnType)
    BY <2>1, <2>2
  <2>4. Done(b) = [b EXCEPT !.phase = "job", !.elf = FALSE, !.run_ons = <<>>,
                            !.tasks = Append(@, task)]
    BY <1>2 DEF Done
  <2> HIDE DEF task
  <2> QED
    BY <2>3, <2>4 DEF BuilderType, TaskBuilt
<1>3. CASE b.run_ons = <<>>
  BY <1>1, <1>3 DEF Done
<1>4. CASE b.run_ons # <<>> /\ ~ b.elf
  BY <1>1, <1>4 DEF Done
<1> QED
  BY <1>2, <1>3, <1>4

LEMMA BuildIs ==
  ASSUME NEW b \in BuilderType
  PROVE  /\ Build(b) \in BuilderType
         /\ Build(b).phase = "built" => b.phase = "built" \/ Build(b).tasks # <<>>
<1>1. \A e \in {"no_tasks", "no_timeout"} : Failed(e) \in BuilderType /\ Failed(e).phase = e
  BY FailedIs
<1> QED
  BY <1>1 DEF Build, BuilderType

(* The calls of the builder, between two answers.                          *)
LEMMA BuilderSteps ==
  ASSUME BuilderOK, Builder
  PROVE  BuilderOK' /\ UNCHANGED vars
<1>1. UNCHANGED vars /\ answer = NoAnswer /\ answer' = NoAnswer
  BY DEF Builder, New, AddTask, SetTimeout, ElfExecutable, RunOn, TaskDone, TaskBuild,
         JobBuild, GivesUp, Building, vars
<1>2. builder \in BuilderType
  BY DEF BuilderOK
<1>3. SUFFICES builder' \in BuilderType /\ (builder'.phase = "built" => builder'.tasks # <<>>)
  BY <1>1 DEF BuilderOK
<1>4. CASE New
  BY <1>2, <1>4 DEF New, BuilderType
<1>5. CASE AddTask
  BY <1>2, <1>5 DEF AddTask, BuilderType
<1>6. CASE SetTimeout
  BY <1>2, <1>6 DEF SetTimeout, BuilderType
<1>7. CASE ElfExecutable
  BY <1>2, <1>7 DEF ElfExecutable, BuilderType
<1>8. ASSUME NEW run_on \in RunOns, RunOn(run_on)
      PROVE  builder' \in BuilderType /\ (builder'.phase = "built" => builder'.tasks # <<>>)
  <2>1. run_on \in RunOnType /\ builder.run_ons \in Seq(RunOnType)
    BY <1>2, BuilderAssumption DEF BuilderType
  <2>2. Append(builder.run_ons, run_on) \in Seq(RunOnType)
    BY <2>1
  <2> QED
    BY <1>2, <1>8, <2>2 DEF RunOn, BuilderType
<1>9. CASE TaskDone
  BY <1>2, <1>9, DoneIs DEF TaskDone
<1>10. CASE TaskBuild
  <2>1. Done(builder) \in BuilderType /\ Done(builder).phase # "built"
    BY <1>2, <1>10, DoneIs DEF TaskBuild
  <2> QED
    BY <1>10, <2>1, BuildIs DEF TaskBuild
<1>11. CASE JobBuild
  BY <1>2, <1>11, BuildIs DEF JobBuild
<1>12. CASE GivesUp
  BY <1>12 DEF GivesUp, Idle, BuilderType
<1> QED
  BY <1>4, <1>5, <1>6, <1>7, <1>8, <1>9, <1>10, <1>11, <1>12 DEF Builder

LEMMA StepIInv ==
  ASSUME IInv, [BuiltNext]_builtVars
  PROVE  IInv'
<1>1. StartupOK /\ TargetsUnique /\ AnswerOK /\ BuilderOK
  BY DEF IInv
<1>2. CASE Builder
  BY <1>1, <1>2, BuilderSteps, NothingAnswered DEF IInv
<1>3. CASE PostBuilt
  <2>1. builder.tasks \in Seq(TaskDescType) /\ Post(builder.tasks) /\ builder' = builder
    <3>1. builder.tasks \in Seq(TaskBuilt)
      BY <1>1 DEF BuilderOK, BuilderType, TaskBuilt
    <3>2. TaskBuilt \subseteq TaskDescType
      BY DEF TaskBuilt
    <3>3. builder.tasks \in Seq(TaskDescType)
      BY <3>1, <3>2
    <3> QED BY <1>3, <3>3 DEF PostBuilt
  <2> QED
    BY <1>1, <2>1, PostAnswers DEF IInv, BuilderOK
<1>4. CASE RespondBuilt
  <2>1. /\ answer' = NoAnswer /\ builder' = Idle
        /\ targets' = targets /\ listed' = listed /\ server' = server
    BY <1>4 DEF RespondBuilt, Respond
  <2>2. BuilderOK'
    BY <2>1 DEF BuilderOK, BuilderType, Idle
  <2> QED
    BY <1>1, <2>1, <2>2 DEF IInv, StartupOK, TargetsUnique, AnswerOK
<1>5. CASE (SkipProbe \/ PushTarget \/ RefuseTarget \/ Serve) /\ UNCHANGED builder
  BY <1>1, <1>5, StartupSteps DEF IInv, AnswerOK, BuilderOK
<1>6. CASE Exited /\ UNCHANGED builder
  BY <1>1, <1>6, NothingAnswered DEF Exited, IInv, BuilderOK, vars
<1>7. ASSUME NEW desc \in JobDescs, Post(desc), builder.phase = "idle", UNCHANGED builder
      PROVE  IInv'
  <2>1. desc \in Seq(TaskDescType)
    BY ValidationAssumption
  <2> QED
    BY <1>1, <1>7, <2>1, PostAnswers DEF IInv, BuilderOK
<1>8. CASE UNCHANGED builtVars
  <2>1. UNCHANGED vars /\ UNCHANGED builder /\ answer' = answer
    BY <1>8 DEF builtVars, vars
  <2> QED
    BY <1>1, <2>1, NothingAnswered DEF IInv, BuilderOK
<1> QED
  BY <1>2, <1>3, <1>4, <1>5, <1>6, <1>7, <1>8 DEF BuiltNext, Others

LEMMA AlwaysIInv == BuiltSpec => []IInv
BY InitIInv, StepIInv, PTL DEF BuiltSpec
-----------------------------------------------------------------------------
LEMMA AnswerIs ==
  ASSUME IInv
  PROVE  /\ targets \in Seq(TargetType) /\ TargetsUnique
         /\ \/ answer = NoAnswer
            \/ \E desc \in Seq(TaskDescType) : answer = Answered(desc)
BY DEF IInv, StartupOK, AnswerOK

(* Faults point at what the descriptor has.                                *)
LEMMA FaultsType ==
  ASSUME targets \in Seq(TargetType), TargetsUnique, NEW desc \in Seq(TaskDescType)
  PROVE  Faults(desc) \subseteq FaultType(desc)
<1> DEFINE AskedFor(i) == {p \in Positions(desc) : i \in AskedAt(desc, p)}
<1>1. \A i \in DOMAIN targets :
        targets[i].probe_serial \in DOMAIN ProbeConfigs /\ AskedFor(i) \in SUBSET Positions(desc)
  <2>1. \A i \in DOMAIN targets : targets[i] \in TargetType
    BY ElementOfSeq, LenProperties
  <2> QED
    BY <2>1 DEF TargetType, Target
<1>2. {[kind |-> "no_target_chosen", task |-> t] :
          t \in {u \in DOMAIN desc : \A p \in Positions(desc) : p[1] # u}}
        \subseteq [kind : {"no_target_chosen", "base64_decoding_failed"}, task : DOMAIN desc]
  OBVIOUS
<1>3. {[kind |-> "base64_decoding_failed", task |-> t] :
          t \in {u \in DOMAIN desc : ~ desc[u].base64_ok}}
        \subseteq [kind : {"no_target_chosen", "base64_decoding_failed"}, task : DOMAIN desc]
  OBVIOUS
<1>4. {[kind |-> "target_not_available", entry |-> p] :
          p \in {q \in Positions(desc) : AskedAt(desc, q) = {}}}
        \subseteq [kind : {"target_not_available"}, entry : Positions(desc)]
  OBVIOUS
<1>5. {[kind |-> "target_is_not_unique",
        serial |-> targets[i].probe_serial, entries |-> AskedFor(i)] :
          i \in {j \in DOMAIN targets : \E p, q \in AskedFor(j) : p # q}}
        \subseteq [kind : {"target_is_not_unique"}, serial : DOMAIN ProbeConfigs,
                   entries : SUBSET Positions(desc)]
  <2> HIDE DEF AskedFor
  <2> QED BY <1>1
<1> QED
  BY <1>2, <1>3, <1>4, <1>5 DEF Faults, FaultType

LEMMA NothingIsRight ==
  ASSUME answer = NoAnswer
  PROVE  /\ answer.desc = <<>> /\ answer.tasks = <<>> /\ answer.errors = {}
         /\ DOMAIN answer.tasks = {} /\ Faults(answer.desc) = {}
<1>1. /\ answer.desc = <<>> /\ answer.tasks = <<>> /\ answer.errors = {}
      /\ DOMAIN answer.tasks = {}
  BY DEF NoAnswer
<1>2. Positions(<<>>) = {}
  BY DEF Positions
<1>3. Faults(<<>>) = {}
  BY <1>2 DEF Faults
<1> QED
  BY <1>1, <1>3

(* The types of the targets and of what a descriptor is answered with, for *)
(* every configuration and every descriptor: the runs of a task are among  *)
(* the targets, and an error points at an entry the descriptor has         *)
(* (job.rs:223-383).                                                       *)
THEOREM ValidationTypeCorrect == BuiltSpec => []TypeOK
<1>1. ASSUME IInv PROVE TypeOK
  <2>1. StartupOK /\ targets \in Seq(TargetType) /\ TargetsUnique
    BY <1>1, AnswerIs DEF IInv
  <2>2. CASE answer = NoAnswer
    <3>1. answer.desc = <<>> /\ answer.tasks = <<>> /\ answer.errors = {}
      BY <2>2, NothingIsRight
    <3>2. <<>> \in Seq(TaskDescType) /\ <<>> \in Seq(Seq(ToSet(targets)))
      OBVIOUS
    <3> QED
      BY <2>1, <3>1, <3>2 DEF TypeOK, StartupOK
  <2>3. ASSUME NEW desc \in Seq(TaskDescType), answer = Answered(desc) PROVE TypeOK
    <3>1. answer.desc = desc /\ answer.errors = Errors(desc)
          /\ answer.tasks = IF Errors(desc) = {} THEN Tasks(desc) ELSE <<>>
      BY <2>3 DEF Answered
    <3>2. answer.errors \subseteq FaultType(desc)
      BY <2>1, <3>1, ErrorsAreFaults, FaultsType
    <3>3. Tasks(desc) \in Seq(Seq(ToSet(targets)))
      <4>1. PICK n \in Nat : DOMAIN desc = 1 .. n
        BY LenProperties
      <4>2. Tasks(desc) = [t \in 1 .. n |-> Tasks(desc)[t]]
        BY <4>1 DEF Tasks
      <4>3. \A t \in 1 .. n : Tasks(desc)[t] \in Seq(ToSet(targets))
        BY <2>1, <4>1, TasksAre
      <4>4. Tasks(desc) \in [1 .. n -> Seq(ToSet(targets))]
        BY <4>2, <4>3
      <4> QED BY <4>4
    <3>4. answer.tasks \in Seq(Seq(ToSet(targets)))
      BY <3>1, <3>3
    <3> QED
      BY <2>1, <3>1, <3>2, <3>4 DEF TypeOK, StartupOK
  <2> QED
    BY <1>1, <2>2, <2>3, AnswerIs
<1> QED
  BY <1>1, AlwaysIInv, PTL

(* No two targets ever have the same probe serial (lib.rs:127-131), whatever*)
(* the probes report and however often: a serial stands for one target, as  *)
(* the backend assumes when it looks up the run of a result.                *)
THEOREM SerialsAreUnique == BuiltSpec => []TargetsUnique
<1>1. IInv => TargetsUnique
  BY DEF IInv
<1> QED
  BY <1>1, AlwaysIInv, PTL

(* A rejection names every fault of the descriptor and nothing else, and a *)
(* descriptor without a fault is accepted, however its entries overlap     *)
(* (job.rs:223-258, 379-383).                                              *)
THEOREM VerdictsAreExact == BuiltSpec => []VerdictIsExact
<1>1. ASSUME IInv PROVE VerdictIsExact
  <2>1. ASSUME NEW desc \in Seq(TaskDescType), answer = Answered(desc) PROVE VerdictIsExact
    <3>1. answer.desc = desc /\ answer.errors = Errors(desc)
      BY <2>1 DEF Answered
    <3> QED
      BY <1>1, <3>1, AnswerIs, ErrorsAreFaults DEF VerdictIsExact
  <2> QED
    BY <1>1, <2>1, AnswerIs, NothingIsRight DEF VerdictIsExact
<1> QED
  BY <1>1, AlwaysIInv, PTL

(* Two runs of an accepted job are on different probes, which the backend  *)
(* relies on: it starts them all at once (job.rs:357-377, app.rs:39-83).   *)
THEOREM RunsAreDistinct == BuiltSpec => []AcceptedRunsAreDistinct
<1>1. ASSUME IInv PROVE AcceptedRunsAreDistinct /\ Distinct(answer.tasks)
  <2>1. AcceptedRunsAreDistinct <=> Distinct(answer.tasks)
    BY DEF AcceptedRunsAreDistinct, Distinct
  <2>2. CASE DOMAIN answer.tasks = {}
    BY <2>1, <2>2 DEF Distinct
  <2>3. ASSUME NEW desc \in Seq(TaskDescType), answer = Answered(desc)
        PROVE  Distinct(answer.tasks)
    <3>1. answer.tasks = IF Errors(desc) = {} THEN Tasks(desc) ELSE <<>>
      BY <2>3 DEF Answered
    <3>2. CASE Errors(desc) = {}
      BY <1>1, <3>1, <3>2, AnswerIs, AcceptedAreDistinct
    <3>3. CASE Errors(desc) # {}
      BY <2>1, <2>2, <3>1, <3>3
    <3> QED BY <3>2, <3>3
  <2> QED
    BY <1>1, <2>1, <2>2, <2>3, AnswerIs, NothingIsRight
<1> QED
  BY <1>1, AlwaysIInv, PTL

(* A task of an accepted job runs on exactly the targets its entries ask   *)
(* for, at least one (job.rs:262-349).                                     *)
THEOREM RunsAreAsked == BuiltSpec => []AcceptedRunsAsAsked
<1>1. ASSUME IInv PROVE AcceptedRunsAsAsked
  <2>1. CASE DOMAIN answer.tasks = {}
    BY <2>1 DEF AcceptedRunsAsAsked
  <2>2. ASSUME NEW desc \in Seq(TaskDescType), answer = Answered(desc)
        PROVE  AcceptedRunsAsAsked
    <3>1. answer.desc = desc
          /\ answer.tasks = IF Errors(desc) = {} THEN Tasks(desc) ELSE <<>>
      BY <2>2 DEF Answered
    <3>2. CASE Errors(desc) = {}
      <4>1. answer.tasks = Tasks(desc) /\ DOMAIN answer.tasks = DOMAIN desc
        BY <1>1, <3>1, <3>2, AnswerIs, TasksAre
      <4> QED
        BY <1>1, <3>1, <3>2, <4>1, AnswerIs, AcceptedAreAsked DEF AcceptedRunsAsAsked
    <3>3. CASE Errors(desc) # {}
      BY <2>1, <3>1, <3>3
    <3> QED BY <3>2, <3>3
  <2> QED
    BY <1>1, <2>1, <2>2, AnswerIs, NothingIsRight
<1> QED
  BY <1>1, AlwaysIInv, PTL

(* Every outcome is stored in the slot of the run it comes from, whatever  *)
(* the order of the runs: no lookup by serial misses and no default result *)
(* is published (job.rs:82-131, app.rs:70-88).                             *)
THEOREM EveryRunGetsItsOutcome == BuiltSpec => []OutcomesReachTheirRuns
<1>1. ASSUME IInv PROVE OutcomesReachTheirRuns
  <2>1. CASE DOMAIN answer.tasks = {}
    BY <2>1 DEF OutcomesReachTheirRuns
  <2>2. ASSUME NEW desc \in Seq(TaskDescType), answer = Answered(desc)
        PROVE  OutcomesReachTheirRuns
    <3>1. answer.tasks = IF Errors(desc) = {} THEN Tasks(desc) ELSE <<>>
      BY <2>2 DEF Answered
    <3>2. CASE Errors(desc) = {}
      <4>1. answer.tasks \in Seq(Seq(TargetType)) /\ Distinct(answer.tasks)
        BY <1>1, <3>1, <3>2, AnswerIs, TasksAre, AcceptedAreDistinct
      <4> QED
        BY <4>1, OutcomesAreStored DEF OutcomesReachTheirRuns
    <3>3. CASE Errors(desc) # {}
      BY <2>1, <3>1, <3>3
    <3> QED BY <3>2, <3>3
  <2> QED
    BY <1>1, <2>1, <2>2, AnswerIs, NothingIsRight
<1> QED
  BY <1>1, AlwaysIInv, PTL

(* What the builder lets through fails on the targets of the server only,  *)
(* or because all lists of a task are empty (builder.rs:59-67, 99-106).    *)
THEOREM BuiltJobsFailOnTargetsOnly == BuiltSpec => []BuiltFailsOnTargetsOnly
<1>1. ASSUME IInv PROVE BuiltFailsOnTargetsOnly
  <2> DEFINE desc == builder.tasks
             Lists(t) == {desc[t].run_on[r].keys : r \in DOMAIN desc[t].run_on}
  <2> SUFFICES ASSUME builder.phase = "built", answer # NoAnswer
               PROVE  /\ \A e \in answer.errors :
                           \/ e.kind \in {"target_not_available", "target_is_not_unique"}
                           \/ e.kind = "no_target_chosen" /\ Lists(e.task) = {<<>>}
                      /\ answer.errors = {} =>
                           /\ Len(answer.tasks) = Len(desc)
                           /\ answer.tasks # <<>> /\ <<>> \notin ToSet(answer.tasks)
    BY DEF BuiltFailsOnTargetsOnly
  <2>1. /\ targets \in Seq(TargetType) /\ TargetsUnique
        /\ desc \in Seq(TaskBuilt) /\ desc # <<>> /\ answer.desc = desc
    BY <1>1 DEF IInv, StartupOK, BuilderOK, BuilderType
  <2> HIDE DEF desc
  <2>2. desc \in Seq(TaskDescType) /\ answer = Answered(desc)
    BY <1>1, <2>1, AnswerIs DEF Answered
  <2>3. /\ answer.errors = Errors(desc)
        /\ answer.tasks = IF Errors(desc) = {} THEN Tasks(desc) ELSE <<>>
    BY <2>2 DEF Answered
  <2>4. DOMAIN desc = 1 .. Len(desc) /\ \A t \in DOMAIN desc : desc[t] \in TaskBuilt
    BY <2>1, LenProperties, ElementOfSeq
  <2>5. ASSUME NEW t \in DOMAIN desc, \A p \in Positions(desc) : p[1] # t
        PROVE  Lists(t) = {<<>>}
    <3>1. desc[t].run_on \in Seq(RunOnType) /\ desc[t].run_on # <<>>
      BY <2>4 DEF TaskBuilt, TaskDescType
    <3>2. 1 \in DOMAIN desc[t].run_on
      BY <3>1, EmptySeq, LenProperties
    <3>3. ASSUME NEW r \in DOMAIN desc[t].run_on PROVE desc[t].run_on[r].keys = <<>>
      <4>1. desc[t].run_on[r].keys \in Seq(Keys)
        <5>1. desc[t].run_on[r] \in RunOnType
          BY <3>1, ElementOfSeq, LenProperties
        <5> QED BY <5>1 DEF RunOnType
      <4>2. \A k \in DOMAIN desc[t].run_on[r].keys : FALSE
        <5>1. ASSUME NEW k \in DOMAIN desc[t].run_on[r].keys PROVE FALSE
          <6>1. <<t, r, k>> \in Positions(desc)
            BY <2>2, PositionsAre
          <6> QED BY <2>5, <6>1
        <5> QED BY <5>1
      <4>3. PICK keys \in Seq(Keys) : keys = desc[t].run_on[r].keys
        BY <4>1
      <4>4. DOMAIN keys = 1 .. Len(keys) /\ Len(keys) \in Nat /\ 1 \notin DOMAIN keys
        BY <4>2, <4>3
      <4> QED
        BY <4>3, <4>4, EmptySeq
    <3> QED
      BY <3>2, <3>3
  <2>6. ASSUME NEW e \in answer.errors
        PROVE  \/ e.kind \in {"target_not_available", "target_is_not_unique"}
               \/ e.kind = "no_target_chosen" /\ Lists(e.task) = {<<>>}
    <3>1. e \in Faults(desc)
      BY <2>1, <2>2, <2>3, ErrorsAreFaults
    <3>2. \A t \in DOMAIN desc : desc[t].base64_ok
      BY <2>4 DEF TaskBuilt
    <3>3. \/ e.kind \in {"target_not_available", "target_is_not_unique"}
          \/ /\ e.kind = "no_target_chosen" /\ e.task \in DOMAIN desc
             /\ \A p \in Positions(desc) : p[1] # e.task
      BY <3>1, <3>2 DEF Faults
    <3> HIDE DEF Lists
    <3> QED
      BY <2>5, <3>3
  <2>7. ASSUME answer.errors = {}
        PROVE  /\ Len(answer.tasks) = Len(desc)
               /\ answer.tasks # <<>> /\ <<>> \notin ToSet(answer.tasks)
    <3>1. answer.tasks = Tasks(desc) /\ Errors(desc) = {}
      BY <2>3, <2>7
    <3>2. DOMAIN answer.tasks = DOMAIN desc /\ answer.tasks \in Seq(Seq(TargetType))
      BY <2>1, <2>2, <3>1, TasksAre
    <3>3. Len(answer.tasks) = Len(desc)
      BY <2>1, <3>2, LenProperties
    <3>4. ASSUME NEW t \in DOMAIN desc PROVE answer.tasks[t] # <<>>
      <4>1. ToSet(answer.tasks[t]) # {}
        <5> DEFINE asked == UNION {AskedAt(desc, p) :
                                     p \in {q \in Positions(desc) : q[1] = t}}
        <5>1. asked # {} /\ ToSet(Tasks(desc)[t]) = {targets[i] : i \in asked}
          BY <2>1, <2>2, <3>1, AcceptedAreAsked
        <5> HIDE DEF asked
        <5> QED
          BY <3>1, <5>1
      <4> QED
        BY <4>1 DEF ToSet
    <3>5. <<>> \notin ToSet(answer.tasks)
      BY <3>2, <3>4 DEF ToSet
    <3>6. answer.tasks # <<>>
      BY <2>1, <3>2, <3>3, EmptySeq
    <3> QED
      BY <3>3, <3>5, <3>6
  <2> QED
    BY <2>6, <2>7
<1> QED
  BY <1>1, AlwaysIInv, PTL
=============================================================================
