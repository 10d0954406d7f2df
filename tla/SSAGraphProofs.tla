--------------------------- MODULE SSAGraphProofs ---------------------------
(***************************************************************************)
(* The def-use graph stays consistent, for any number of ops, varnodes and  *)
(* input slots.                                                             *)
(*                                                                         *)
(* Every change of the reads is built from two: a slot is cleared, a clear  *)
(* slot is filled.  ReadInv says what holds of the input slots and the      *)
(* descend lists before and after each, WriteInv the same of the outputs.   *)
(***************************************************************************)
EXTENDS SSAGraph, SeqLemmas

Slot == Varnode \cup {Nil}
Banked == {"free", "input", "written"}
Status == {"new", "free", "input", "written", "gone"}
Shareless == Constant \ SpaceBase

\* The reads: types, mirror, constants, and no slot holds a varnode out of the bank.
ReadInv(ins, d, st) ==
    /\ ins \in [Op -> Seq(Slot)]
    /\ d \in [Varnode -> [Op -> Nat]]
    /\ \A v \in Varnode, o \in Op : d[v][o] = Cardinality(Occurs(ins[o], v))
    /\ \A o, p \in Op : \A i \in 1..Len(ins[o]), j \in 1..Len(ins[p]) :
          ins[o][i] \in Shareless /\ ins[o][i] = ins[p][j] => o = p /\ i = j
    /\ \A o \in Op : \A i \in 1..Len(ins[o]) : ins[o][i] # Nil => st[ins[o][i]] \in Banked

\* The writes, likewise.
WriteInv(out, df, st) ==
    /\ out \in [Op -> Slot]
    /\ df \in [Varnode -> Op \cup {Nil}]
    /\ \A o \in Op : out[o] # Nil => df[out[o]] = o
    /\ \A v \in Varnode : df[v] # Nil => out[df[v]] = v
    /\ \A v \in Varnode : st[v] = "written" <=> df[v] # Nil

\* The calls still to be made name slots that exist and varnodes in the bank.
TodoOK ==
    \A k \in DOMAIN todo :
        /\ todo[k].call = "set" => /\ todo[k].slot \in Slots(todo[k].op)
                                   /\ InBank(todo[k].vn)
        /\ todo[k].call = "replace" => InBank(todo[k].vn)

\* An op that was not created yet has no slots.
NewOpsBare == \A o \in Op : bank[o] = "new" => inputs[o] = <<>>

\* The inductive invariant.
IndInv ==
    /\ ReadInv(inputs, descend, status)
    /\ WriteInv(output, def, status)
    /\ status \in [Varnode -> Status]
    /\ bank \in [Op -> {"new", "dead", "alive", "gone"}]
    /\ inBlock \subseteq Op
    /\ todo \in Seq(Call)
    /\ BlockOpsAlive
    /\ NewOpsBare
    /\ TodoOK

\* What a slot holds.
LEMMA SlotFacts ==
    ASSUME NEW ins \in [Op -> Seq(Slot)], NEW o \in Op
    PROVE  /\ ins[o] \in Seq(Slot) /\ Len(ins[o]) \in Nat
           /\ DOMAIN ins[o] = 1..Len(ins[o])
           /\ \A i \in 1..Len(ins[o]) : ins[o][i] \in Slot
  BY LenProperties, ElementOfSeq

\* A varnode that no slot holds has no reader, and conversely.
LEMMA UnreadFacts ==
    ASSUME NEW ins, NEW d, NEW st, ReadInv(ins, d, st), NEW v \in Varnode, NEW o \in Op
    PROVE  /\ d[v][o] \in Nat
           /\ d[v][o] = 0 <=> \A i \in 1..Len(ins[o]) : ins[o][i] # v
<1>1. ins[o] \in Seq(Slot) /\ d[v][o] = Cardinality(Occurs(ins[o], v))
  BY DEF ReadInv
<1> QED BY <1>1, CountFacts

\* OpUnsetInput: the slot is cleared and one entry leaves the list.
LEMMA ClearSlot ==
    ASSUME NEW ins, NEW d, NEW st, ReadInv(ins, d, st),
           NEW o \in Op, NEW k \in 1..Len(ins[o])
    PROVE  ReadInv([ins EXCEPT ![o][k] = Nil], EraseDescend(d, ins[o][k], o), st)
<1> DEFINE w == ins[o][k]
           t == [ins[o] EXCEPT ![k] = Nil]
           ins1 == [ins EXCEPT ![o][k] = Nil]
           d1 == EraseDescend(d, w, o)
<1>0. /\ ins \in [Op -> Seq(Slot)] /\ d \in [Varnode -> [Op -> Nat]] /\ w \in Slot
      /\ ins[o] \in Seq(Slot) /\ Nil \in Slot
  BY SlotFacts DEF ReadInv, Slot
<1>1. /\ t \in Seq(Slot) /\ Len(t) = Len(ins[o])
      /\ \A i \in 1..Len(ins[o]) : t[i] = IF i = k THEN Nil ELSE ins[o][i]
      /\ \A v \in Varnode :
            /\ v = w => Cardinality(Occurs(t, v)) = Cardinality(Occurs(ins[o], v)) - 1
            /\ v # w => Cardinality(Occurs(t, v)) = Cardinality(Occurs(ins[o], v))
  <2>1. \A v \in Varnode : v # Nil
    BY SSAGraphAssumption
  <2>2. ASSUME NEW v \in Varnode
        PROVE  /\ v = w => Cardinality(Occurs(t, v)) = Cardinality(Occurs(ins[o], v)) - 1
               /\ v # w => Cardinality(Occurs(t, v)) = Cardinality(Occurs(ins[o], v))
    <3>1. /\ v # Nil /\ v = w => Cardinality(Occurs(t, v)) = Cardinality(Occurs(ins[o], v)) - 1
          /\ v # Nil /\ v # w => Cardinality(Occurs(t, v)) = Cardinality(Occurs(ins[o], v))
      <4> HIDE DEF w
      <4>1. ins[o][k] = w
        BY DEF w
      <4> QED BY <1>0, <4>1, CountSet
    <3> QED BY <2>1, <3>1
  <2>3. t \in Seq(Slot) /\ Len(t) = Len(ins[o])
      /\ \A i \in 1..Len(ins[o]) : t[i] = IF i = k THEN Nil ELSE ins[o][i]
    BY <1>0, CountSet
  <2> QED BY <2>2, <2>3
<1>2. ins1 = [ins EXCEPT ![o] = t] /\ \A p \in Op : ins1[p] = IF p = o THEN t ELSE ins[p]
  BY <1>0
<1>3. ins1 \in [Op -> Seq(Slot)]
  BY <1>0, <1>1, <1>2
<1>4. /\ d1 \in [Varnode -> [Op -> Nat]]
      /\ \A v \in Varnode, p \in Op :
            d1[v][p] = IF v = w /\ p = o THEN (IF d[v][p] = 0 THEN 0 ELSE d[v][p] - 1) ELSE d[v][p]
  <2>1. CASE w = Nil
    <3>1. d1 = d /\ w \notin Varnode
      BY <2>1, SSAGraphAssumption DEF EraseDescend
    <3> QED BY <1>0, <3>1
  <2>2. CASE w # Nil
    <3>1. w \in Varnode /\ d1 = [d EXCEPT ![w][o] = IF @ = 0 THEN 0 ELSE @ - 1]
      BY <1>0, <2>2 DEF Slot, EraseDescend
    <3>2. d[w] \in [Op -> Nat] /\ (IF d[w][o] = 0 THEN 0 ELSE d[w][o] - 1) \in Nat
      BY <1>0, <3>1
    <3> QED BY <1>0, <3>1, <3>2
  <2> QED BY <2>1, <2>2
<1> HIDE DEF ins1, d1, t
<1>5. ASSUME NEW v \in Varnode, NEW p \in Op
      PROVE  d1[v][p] = Cardinality(Occurs(ins1[p], v))
  <2>1. d[v][p] \in Nat /\ d[v][p] = Cardinality(Occurs(ins[p], v))
    BY UnreadFacts DEF ReadInv
  <2>2. CASE p = o /\ v = w
    <3>1. d[v][o] # 0
      BY <2>2, UnreadFacts
    <3> QED BY <1>1, <1>2, <1>4, <2>1, <2>2, <3>1
  <2>3. CASE p = o /\ v # w
    BY <1>1, <1>2, <1>4, <2>1, <2>3
  <2>4. CASE p # o
    BY <1>2, <1>4, <2>1, <2>4
  <2> QED BY <2>2, <2>3, <2>4
<1>6. \A p \in Op : Len(ins1[p]) = Len(ins[p]) /\
         \A i \in 1..Len(ins[p]) : ins1[p][i] = IF p = o /\ i = k THEN Nil ELSE ins[p][i]
  BY <1>1, <1>2
<1>7. ASSUME NEW p \in Op, NEW q \in Op, NEW i \in 1..Len(ins1[p]), NEW j \in 1..Len(ins1[q]),
             ins1[p][i] \in Shareless, ins1[p][i] = ins1[q][j]
      PROVE  p = q /\ i = j
  <2>1. ins1[p][i] # Nil
    BY <1>7, SSAGraphAssumption DEF Shareless
  <2> QED BY <1>6, <1>7, <2>1 DEF ReadInv
<1>8. \A p \in Op : \A i \in 1..Len(ins1[p]) : ins1[p][i] # Nil => st[ins1[p][i]] \in Banked
  BY <1>6 DEF ReadInv
<1>9. ReadInv(ins1, d1, st)
  BY <1>3, <1>4, <1>5, <1>7, <1>8 DEF ReadInv
<1> QED BY <1>9 DEF ins1, d1

\* A clear slot is filled with c: one entry joins the list.  A constant that may
\* not be shared comes in only when nothing reads it.
LEMMA FillSlot ==
    ASSUME NEW ins, NEW d, NEW st, NEW st2, ReadInv(ins, d, st),
           NEW o \in Op, NEW k \in 1..Len(ins[o]), ins[o][k] = Nil, NEW c \in Varnode,
           \A v \in Varnode : st[v] \in Banked => st2[v] \in Banked,
           st2[c] \in Banked,
           c \in Shareless => \A p \in Op : d[c][p] = 0
    PROVE  ReadInv([ins EXCEPT ![o][k] = c], AddDescend(d, c, o), st2)
<1> DEFINE t == [ins[o] EXCEPT ![k] = c]
           ins1 == [ins EXCEPT ![o][k] = c]
           d1 == AddDescend(d, c, o)
<1>0. /\ ins \in [Op -> Seq(Slot)] /\ d \in [Varnode -> [Op -> Nat]]
      /\ ins[o] \in Seq(Slot) /\ c \in Slot
  BY SlotFacts DEF ReadInv, Slot
<1>1. /\ t \in Seq(Slot) /\ Len(t) = Len(ins[o])
      /\ \A i \in 1..Len(ins[o]) : t[i] = IF i = k THEN c ELSE ins[o][i]
      /\ \A v \in Varnode :
            /\ v = c => Cardinality(Occurs(t, v)) = Cardinality(Occurs(ins[o], v)) + 1
            /\ v # c => Cardinality(Occurs(t, v)) = Cardinality(Occurs(ins[o], v))
  <2>1. \A v \in Varnode : v # Nil
    BY SSAGraphAssumption
  <2>2. ASSUME NEW v \in Varnode
        PROVE  /\ v = c => Cardinality(Occurs(t, v)) = Cardinality(Occurs(ins[o], v)) + 1
               /\ v # c => Cardinality(Occurs(t, v)) = Cardinality(Occurs(ins[o], v))
    <3>1. v # ins[o][k]
      BY <2>1
    <3>2. PICK s : s = ins[o]
      OBVIOUS
    <3>3. s \in Seq(Slot) /\ k \in 1..Len(s) /\ c \in Slot /\ v # s[k]
      BY <1>0, <3>1, <3>2
    <3>4. /\ v = c => Cardinality(Occurs([s EXCEPT ![k] = c], v)) = Cardinality(Occurs(s, v)) + 1
          /\ v # c => Cardinality(Occurs([s EXCEPT ![k] = c], v)) = Cardinality(Occurs(s, v))
      BY ONLY <3>3, CountFill
    <3> QED BY <3>2, <3>4
  <2>3. t \in Seq(Slot) /\ Len(t) = Len(ins[o])
      /\ \A i \in 1..Len(ins[o]) : t[i] = IF i = k THEN c ELSE ins[o][i]
    BY <1>0, CountSet
  <2> QED BY <2>2, <2>3
<1>2. ins1 = [ins EXCEPT ![o] = t] /\ \A p \in Op : ins1[p] = IF p = o THEN t ELSE ins[p]
  BY <1>0
<1>3. ins1 \in [Op -> Seq(Slot)]
  BY <1>0, <1>1, <1>2
<1>4. /\ d1 \in [Varnode -> [Op -> Nat]]
      /\ \A v \in Varnode, p \in Op :
            d1[v][p] = IF v = c /\ p = o THEN d[v][p] + 1 ELSE d[v][p]
  BY <1>0 DEF AddDescend
<1> HIDE DEF ins1, d1, t
<1>5. ASSUME NEW v \in Varnode, NEW p \in Op
      PROVE  d1[v][p] = Cardinality(Occurs(ins1[p], v))
  <2>1. d[v][p] \in Nat /\ d[v][p] = Cardinality(Occurs(ins[p], v))
    BY UnreadFacts DEF ReadInv
  <2> QED BY <1>1, <1>2, <1>4, <2>1
<1>6. \A p \in Op : Len(ins1[p]) = Len(ins[p]) /\
         \A i \in 1..Len(ins[p]) : ins1[p][i] = IF p = o /\ i = k THEN c ELSE ins[p][i]
  BY <1>1, <1>2
<1>7. ASSUME NEW p \in Op, NEW q \in Op, NEW i \in 1..Len(ins1[p]), NEW j \in 1..Len(ins1[q]),
             ins1[p][i] \in Shareless, ins1[p][i] = ins1[q][j]
      PROVE  p = q /\ i = j
  <2>1. c \in Shareless => \A r \in Op : \A m \in 1..Len(ins[r]) : ins[r][m] # c
    BY UnreadFacts
  <2>2. i \in 1..Len(ins[p]) /\ j \in 1..Len(ins[q])
    BY <1>6
  <2>3. CASE p = o /\ i = k
    BY <1>6, <1>7, <2>1, <2>2, <2>3
  <2>4. CASE q = o /\ j = k
    BY <1>6, <1>7, <2>1, <2>2, <2>4
  <2>5. CASE ~(p = o /\ i = k) /\ ~(q = o /\ j = k)
    <3>1. ins1[p][i] = ins[p][i] /\ ins1[q][j] = ins[q][j]
      BY <1>6, <2>2, <2>5
    <3>2. ins[p][i] \in Shareless /\ ins[p][i] = ins[q][j]
      BY <1>7, <3>1
    <3>3. \A x, y \in Op : \A m \in 1..Len(ins[x]), n \in 1..Len(ins[y]) :
             ins[x][m] \in Shareless /\ ins[x][m] = ins[y][n] => x = y /\ m = n
      BY DEF ReadInv
    <3> QED BY ONLY <2>2, <3>2, <3>3, p \in Op, q \in Op
  <2> QED BY <2>3, <2>4, <2>5
<1>8. ASSUME NEW p \in Op, NEW i \in 1..Len(ins1[p]), ins1[p][i] # Nil
      PROVE  st2[ins1[p][i]] \in Banked
  <2>1. CASE p = o /\ i = k
    BY <1>6, <2>1
  <2>2. CASE ~(p = o /\ i = k)
    <3>1. i \in 1..Len(ins[p]) /\ ins1[p][i] = ins[p][i]
      BY <1>6, <2>2
    <3>2. st[ins[p][i]] \in Banked /\ ins[p][i] \in Varnode
      BY <1>0, <1>8, <3>1, SlotFacts DEF ReadInv, Slot
    <3> QED BY <3>1, <3>2
  <2> QED BY <2>1, <2>2
<1>9. ReadInv(ins1, d1, st2)
  BY SMTT(60), <1>3, <1>4, <1>5, <1>7, <1>8 DEF ReadInv
<1> QED BY <1>9 DEF ins1, d1

\* OpSetInput: the old varnode is let go, then the new one is linked.
LEMMA ResetSlot ==
    ASSUME NEW ins, NEW d, NEW st, NEW st2, ReadInv(ins, d, st),
           NEW o \in Op, NEW k \in 1..Len(ins[o]), NEW c \in Varnode,
           \A v \in Varnode : st[v] \in Banked => st2[v] \in Banked,
           st2[c] \in Banked,
           c \in Shareless => \A p \in Op : EraseDescend(d, ins[o][k], o)[c][p] = 0
    PROVE  ReadInv([ins EXCEPT ![o][k] = c], AddDescend(EraseDescend(d, ins[o][k], o), c, o), st2)
<1> DEFINE ins1 == [ins EXCEPT ![o][k] = Nil]
           d1 == EraseDescend(d, ins[o][k], o)
<1>1. ReadInv(ins1, d1, st)
  BY ClearSlot
<1>2. ins \in [Op -> Seq(Slot)] /\ DOMAIN ins[o] = 1..Len(ins[o]) /\ ins[o] \in Seq(Slot)
  BY SlotFacts DEF ReadInv
<1>3. /\ ins1[o] = [ins[o] EXCEPT ![k] = Nil] /\ ins1[o][k] = Nil
      /\ ins1[o] \in Seq(Slot) /\ Len(ins1[o]) = Len(ins[o])
  <2>1. ins1[o] = [ins[o] EXCEPT ![k] = Nil] /\ Nil \in Slot
    BY <1>2 DEF Slot
  <2> QED BY <1>2, <2>1, CountSet
<1>4. [ins1 EXCEPT ![o][k] = c] = [ins EXCEPT ![o][k] = c]
  <2>1. [[ins[o] EXCEPT ![k] = Nil] EXCEPT ![k] = c] = [ins[o] EXCEPT ![k] = c]
    BY <1>2
  <2> QED BY <1>2, <1>3, <2>1
<1> HIDE DEF ins1, d1
<1>5. ReadInv([ins1 EXCEPT ![o][k] = c], AddDescend(d1, c, o), st2)
  <2>1. c \in Shareless => \A p \in Op : d1[c][p] = 0
    BY DEF d1
  <2>2. k \in 1..Len(ins1[o])
    BY <1>3
  <2> QED BY <1>1, <1>3, <2>1, <2>2, FillSlot
<1> QED BY <1>4, <1>5 DEF d1

\* The list of one op is exchanged for one with the same counts.
LEMMA Relist ==
    ASSUME NEW ins, NEW d, NEW st, ReadInv(ins, d, st), NEW o \in Op, NEW t \in Seq(Slot),
           \A v \in Varnode : Cardinality(Occurs(t, v)) = Cardinality(Occurs(ins[o], v)),
           NEW f, \A i \in 1..Len(t) : t[i] # Nil => f[i] \in 1..Len(ins[o]) /\ ins[o][f[i]] = t[i],
           \A i, j \in 1..Len(t) : t[i] # Nil /\ t[j] # Nil /\ f[i] = f[j] => i = j
    PROVE  ReadInv([ins EXCEPT ![o] = t], d, st)
<1> DEFINE ins1 == [ins EXCEPT ![o] = t]
<1>0. /\ ins \in [Op -> Seq(Slot)] /\ d \in [Varnode -> [Op -> Nat]]
      /\ \A v \in Varnode, p \in Op : d[v][p] = Cardinality(Occurs(ins[p], v))
      /\ \A p \in Op : \A i \in 1..Len(ins[p]) : ins[p][i] # Nil => st[ins[p][i]] \in Banked
  BY DEF ReadInv
<1>1. ins1 \in [Op -> Seq(Slot)] /\ \A p \in Op : ins1[p] = IF p = o THEN t ELSE ins[p]
  BY <1>0
<1>2. \A v \in Varnode, p \in Op : d[v][p] = Cardinality(Occurs(ins1[p], v))
  BY <1>0, <1>1
<1>3. \A x, y \in Op : \A m \in 1..Len(ins[x]), n \in 1..Len(ins[y]) :
         ins[x][m] \in Shareless /\ ins[x][m] = ins[y][n] => x = y /\ m = n
  BY DEF ReadInv
<1>4. Nil \notin Shareless
  BY SSAGraphAssumption DEF Shareless
<1> HIDE DEF ins1
<1>5. ASSUME NEW p \in Op, NEW q \in Op, NEW i \in 1..Len(ins1[p]), NEW j \in 1..Len(ins1[q]),
             ins1[p][i] \in Shareless, ins1[p][i] = ins1[q][j]
      PROVE  p = q /\ i = j
  <2> DEFINE a == IF p = o THEN f[i] ELSE i
             b == IF q = o THEN f[j] ELSE j
  <2>1. a \in 1..Len(ins[p]) /\ ins[p][a] = ins1[p][i]
    BY <1>1, <1>4, <1>5
  <2>2. b \in 1..Len(ins[q]) /\ ins[q][b] = ins1[q][j]
    BY <1>1, <1>4, <1>5
  <2>3. p = q /\ a = b
    <3> HIDE DEF a, b
    <3> QED BY <1>3, <1>5, <2>1, <2>2
  <2> QED BY <1>1, <1>4, <1>5, <2>3
<1>6. ASSUME NEW p \in Op, NEW i \in 1..Len(ins1[p]), ins1[p][i] # Nil
      PROVE  st[ins1[p][i]] \in Banked
  <2>1. CASE p = o
    <3>1. f[i] \in 1..Len(ins[o]) /\ ins[o][f[i]] = ins1[p][i]
      BY <1>1, <1>6, <2>1
    <3> QED BY <1>0, <1>6, <3>1
  <2>2. CASE p # o
    BY <1>0, <1>1, <1>6, <2>2
  <2> QED BY <2>1, <2>2
<1>7. ReadInv(ins1, d, st)
  BY <1>0, <1>1, <1>2, <1>5, <1>6 DEF ReadInv
<1> QED BY <1>7 DEF ins1

\* OpRemoveInput: the slot is cleared and leaves the list.
LEMMA RemoveSlot ==
    ASSUME NEW ins, NEW d, NEW st, ReadInv(ins, d, st),
           NEW o \in Op, NEW k \in 1..Len(ins[o])
    PROVE  ReadInv([ins EXCEPT ![o] = RemoveAt(ins[o], k)], EraseDescend(d, ins[o][k], o), st)
<1> DEFINE s == [ins[o] EXCEPT ![k] = Nil]
           ins1 == [ins EXCEPT ![o][k] = Nil]
           t == RemoveAt(ins[o], k)
           f == [i \in 1..Len(t) |-> IF i < k THEN i ELSE i + 1]
<1>0. /\ ins \in [Op -> Seq(Slot)] /\ ins[o] \in Seq(Slot) /\ Len(ins[o]) \in Nat /\ k \in Nat
      /\ k >= 1 /\ k <= Len(ins[o]) /\ Nil \in Slot
  BY SlotFacts DEF ReadInv, Slot
<1>1. ReadInv(ins1, EraseDescend(d, ins[o][k], o), st)
  BY ClearSlot
<1>2. /\ s \in Seq(Slot) /\ Len(s) = Len(ins[o])
      /\ \A i \in 1..Len(ins[o]) : s[i] = IF i = k THEN Nil ELSE ins[o][i]
  BY <1>0, CountSet
<1>3. ins1[o] = s /\ [ins1 EXCEPT ![o] = t] = [ins EXCEPT ![o] = t]
  BY <1>0
<1>4. /\ t \in Seq(Slot) /\ Len(t) = Len(ins[o]) - 1
      /\ \A i \in 1..(Len(ins[o]) - 1) : t[i] = IF i < k THEN ins[o][i] ELSE ins[o][i + 1]
  BY <1>0, RemoveAtFacts
<1> HIDE DEF s, t
<1>5. /\ RemoveAt(s, k) \in Seq(Slot) /\ Len(RemoveAt(s, k)) = Len(s) - 1
      /\ \A i \in 1..(Len(s) - 1) : RemoveAt(s, k)[i] = IF i < k THEN s[i] ELSE s[i + 1]
  <2>1. k \in 1..Len(s)
    BY <1>2
  <2> QED BY <1>2, <2>1, RemoveAtFacts
<1>6. t = RemoveAt(s, k)
  <2>1. \A i \in 1..Len(t) : t[i] = RemoveAt(s, k)[i]
    BY <1>0, <1>2, <1>4, <1>5
  <2>2. Len(t) = Len(RemoveAt(s, k))
    BY <1>2, <1>4, <1>5
  <2> QED BY <1>4, <1>5, <2>1, <2>2, SeqEqual
<1>7. \A v \in Varnode : Cardinality(Occurs(t, v)) = Cardinality(Occurs(s, v))
  <2>1. \A v \in Varnode : s[k] # v
    BY <1>2, SSAGraphAssumption
  <2> QED BY <1>0, <1>2, <1>6, <2>1, CountRemove
<1>8. \A i \in 1..Len(t) : f[i] \in 1..Len(s) /\ s[f[i]] = t[i]
  BY <1>0, <1>2, <1>4
<1>9. \A i, j \in 1..Len(t) : f[i] = f[j] => i = j
  BY <1>0, <1>4
<1> HIDE DEF f, ins1
<1>10. ReadInv([ins1 EXCEPT ![o] = t], EraseDescend(d, ins[o][k], o), st)
  <2>1. /\ \A v \in Varnode : Cardinality(Occurs(t, v)) = Cardinality(Occurs(ins1[o], v))
        /\ \A i \in 1..Len(t) : t[i] # Nil => f[i] \in 1..Len(ins1[o]) /\ ins1[o][f[i]] = t[i]
        /\ \A i, j \in 1..Len(t) : t[i] # Nil /\ t[j] # Nil /\ f[i] = f[j] => i = j
    BY <1>3, <1>7, <1>8, <1>9
  <2> QED BY <1>1, <1>4, <2>1, Relist
<1> QED BY <1>3, <1>10 DEF t

\* PcodeOp.InsertInput: an empty slot joins the list.
LEMMA InsertSlot ==
    ASSUME NEW ins, NEW d, NEW st, ReadInv(ins, d, st),
           NEW o \in Op, NEW k \in 1..(Len(ins[o]) + 1)
    PROVE  ReadInv([ins EXCEPT ![o] = InsertAt(ins[o], k, Nil)], d, st)
<1> DEFINE s == ins[o]
           t == InsertAt(s, k, Nil)
           f == [i \in 1..Len(t) |-> IF i < k THEN i ELSE i - 1]
<1>0. s \in Seq(Slot) /\ Len(s) \in Nat /\ k \in Nat /\ k >= 1 /\ k <= Len(s) + 1 /\ Nil \in Slot
  BY SlotFacts DEF ReadInv, Slot
<1> HIDE DEF s
<1>1. /\ t \in Seq(Slot) /\ Len(t) = Len(s) + 1
      /\ \A i \in 1..(Len(s) + 1) : t[i] = IF i < k THEN s[i] ELSE IF i = k THEN Nil ELSE s[i - 1]
  BY <1>0, InsertAtFacts
<1> HIDE DEF t
<1>2. /\ RemoveAt(t, k) \in Seq(Slot) /\ Len(RemoveAt(t, k)) = Len(t) - 1
      /\ \A i \in 1..(Len(t) - 1) : RemoveAt(t, k)[i] = IF i < k THEN t[i] ELSE t[i + 1]
  <2>1. k \in 1..Len(t)
    BY <1>0, <1>1
  <2> QED BY <1>1, <2>1, RemoveAtFacts
<1>3. s = RemoveAt(t, k)
  <2>1. ASSUME NEW i \in 1..Len(s) PROVE s[i] = RemoveAt(t, k)[i]
    <3>1. RemoveAt(t, k)[i] = IF i < k THEN t[i] ELSE t[i + 1]
      BY <1>0, <1>1, <1>2
    <3>2. i \in 1..(Len(s) + 1) /\ i + 1 \in 1..(Len(s) + 1) /\ (i + 1) - 1 = i
      BY <1>0
    <3>3. CASE i < k
      BY <1>1, <3>1, <3>2, <3>3
    <3>4. CASE ~(i < k)
      <4>1. ~(i + 1 < k) /\ i + 1 # k
        BY <1>0, <3>4
      <4> QED BY <1>1, <3>1, <3>2, <3>4, <4>1
    <3> QED BY <3>3, <3>4
  <2>2. Len(s) = Len(RemoveAt(t, k))
    BY <1>0, <1>1, <1>2
  <2> QED BY <1>0, <1>2, <2>1, <2>2, SeqEqual
<1>4. \A v \in Varnode : Cardinality(Occurs(t, v)) = Cardinality(Occurs(s, v))
  <2>1. k \in 1..Len(t) /\ \A v \in Varnode : t[k] # v
    BY <1>0, <1>1, SSAGraphAssumption
  <2> QED BY <1>1, <1>3, <2>1, CountRemove
<1>5. \A i \in 1..Len(t) : t[i] # Nil => f[i] \in 1..Len(s) /\ s[f[i]] = t[i]
  BY <1>0, <1>1
<1>6. \A i, j \in 1..Len(t) : t[i] # Nil /\ t[j] # Nil /\ f[i] = f[j] => i = j
  BY <1>0, <1>1
<1> HIDE DEF f
<1>7. ReadInv([ins EXCEPT ![o] = t], d, st)
  BY <1>1, <1>4, <1>5, <1>6, Relist DEF s
<1> QED BY <1>7 DEF t, s

\* All slots of an op are cleared, and their number may change.
LEMMA BlankOp ==
    ASSUME NEW ins, NEW d, NEW st, ReadInv(ins, d, st), NEW o \in Op,
           NEW t \in Seq(Slot), \A i \in 1..Len(t) : t[i] = Nil,
           NEW d1, d1 \in [Varnode -> [Op -> Nat]],
           \A v \in Varnode, p \in Op : d1[v][p] = IF p = o THEN 0 ELSE d[v][p]
    PROVE  ReadInv([ins EXCEPT ![o] = t], d1, st)
<1> DEFINE ins1 == [ins EXCEPT ![o] = t]
<1>1. t \in Seq(Slot) /\ \A i \in 1..Len(t) : t[i] = Nil
  OBVIOUS
<1>2. \A v \in Varnode : Cardinality(Occurs(t, v)) = 0
  BY <1>1, CountFacts, SSAGraphAssumption
<1>3. ins \in [Op -> Seq(Slot)]
  BY DEF ReadInv
<1>4. ins1 \in [Op -> Seq(Slot)] /\ \A p \in Op : ins1[p] = IF p = o THEN t ELSE ins[p]
  BY <1>1, <1>3
<1> HIDE DEF ins1
<1>5. \A v \in Varnode, p \in Op : d1[v][p] = Cardinality(Occurs(ins1[p], v))
  BY <1>2, <1>4 DEF ReadInv
<1>6. Nil \notin Shareless
  BY SSAGraphAssumption DEF Shareless
<1>7. \A x, y \in Op : \A m \in 1..Len(ins1[x]), j \in 1..Len(ins1[y]) :
         ins1[x][m] \in Shareless /\ ins1[x][m] = ins1[y][j] => x = y /\ m = j
  <2>1. \A p \in Op : \A m \in 1..Len(ins1[p]) : ins1[p][m] \in Shareless => p # o /\ ins1[p] = ins[p]
    BY <1>1, <1>4, <1>6
  <2>2. \A x, y \in Op : \A m \in 1..Len(ins[x]), j \in 1..Len(ins[y]) :
           ins[x][m] \in Shareless /\ ins[x][m] = ins[y][j] => x = y /\ m = j
    BY DEF ReadInv
  <2> SUFFICES ASSUME NEW x \in Op, NEW y \in Op,
                      NEW m \in 1..Len(ins1[x]), NEW j \in 1..Len(ins1[y]),
                      ins1[x][m] \in Shareless, ins1[x][m] = ins1[y][j]
               PROVE  x = y /\ m = j
    OBVIOUS
  <2>3. ins1[x] = ins[x] /\ ins1[y] = ins[y]
    BY <2>1
  <2> QED BY <2>2, <2>3
<1>8. \A p \in Op : \A i \in 1..Len(ins1[p]) : ins1[p][i] # Nil => st[ins1[p][i]] \in Banked
  BY ZenonT(60), <1>1, <1>4 DEF ReadInv
<1>9. ReadInv(ins1, d1, st)
  BY <1>4, <1>5, <1>7, <1>8 DEF ReadInv
<1> QED BY <1>9 DEF ins1

\* The list of n empty slots.
LEMMA BlankSlots ==
    ASSUME NEW n \in Nat, NEW t, t = [i \in 1..n |-> Nil]
    PROVE  t \in Seq(Slot) /\ Len(t) = n /\ \A i \in 1..Len(t) : t[i] = Nil
  BY RebuildFacts DEF Slot

\* Only unread varnodes may leave the bank.
LEMMA Restatus ==
    ASSUME NEW ins, NEW d, NEW st, NEW st2, ReadInv(ins, d, st),
           \A v \in Varnode : st[v] \in Banked /\ st2[v] \notin Banked => \A o \in Op : d[v][o] = 0
    PROVE  ReadInv(ins, d, st2)
<1>1. ASSUME NEW o \in Op, NEW i \in 1..Len(ins[o]), ins[o][i] # Nil
      PROVE  st2[ins[o][i]] \in Banked
  <2>1. ins[o][i] \in Varnode /\ st[ins[o][i]] \in Banked
    BY <1>1, SlotFacts DEF ReadInv, Slot
  <2>2. d[ins[o][i]][o] # 0
    BY <2>1, UnreadFacts
  <2> QED BY <2>1, <2>2
<1> QED BY <1>1 DEF ReadInv

-----------------------------------------------------------------------------
\* The steps.

LEMMA NothingToDo ==
    ASSUME todo' = <<>>
    PROVE  todo' \in Seq(Call) /\ TodoOK'
<1>1. todo' \in Seq(Call) /\ DOMAIN todo' = {}
  OBVIOUS
<1> QED BY <1>1 DEF TodoOK

\* Steps that change flags of varnodes only.
LEMMA StatusStep ==
    ASSUME IndInv, todo = <<>>, UNCHANGED <<opVars, readVars, writeVars, todo>>,
           status' \in [Varnode -> Status],
           \A v \in Varnode : status'[v] = "written" <=> status[v] = "written",
           \A v \in Varnode : status[v] \in Banked /\ status'[v] \notin Banked
                                => \A o \in Op : descend[v][o] = 0
    PROVE  IndInv'
<1>1. UNCHANGED <<bank, inBlock, inputs, descend, output, def, todo>>
  BY DEF opVars, readVars, writeVars
<1>2. ReadInv(inputs, descend, status')
  BY Restatus DEF IndInv
<1>3. WriteInv(output, def, status')
  BY DEF IndInv, WriteInv
<1>4. todo' \in Seq(Call) /\ TodoOK'
  BY <1>1, NothingToDo
<1> QED BY <1>1, <1>2, <1>3, <1>4 DEF IndInv, BlockOpsAlive, NewOpsBare

LEMMA FlagStep ==
    ASSUME IndInv, todo = <<>>, NEW v \in Varnode,
           NewVarnode(v) \/ SetInputVarnode(v) \/ DeleteVarnode(v)
    PROVE  IndInv'
<1>1. UNCHANGED <<opVars, readVars, writeVars, todo>>
  BY DEF NewVarnode, SetInputVarnode, DeleteVarnode
<1>2. status \in [Varnode -> Status]
  BY DEF IndInv
<1>3. CASE NewVarnode(v)
  <2>1. status' = [status EXCEPT ![v] = "free"] /\ status[v] = "new"
    BY <1>3 DEF NewVarnode
  <2> QED BY <1>1, <1>2, <2>1, StatusStep DEF Status, Banked
<1>4. CASE SetInputVarnode(v)
  <2>1. status' = [status EXCEPT ![v] = "input"] /\ status[v] = "free"
    BY <1>4 DEF SetInputVarnode
  <2> QED BY <1>1, <1>2, <2>1, StatusStep DEF Status, Banked
<1>5. CASE DeleteVarnode(v)
  <2>1. status' = [status EXCEPT ![v] = "gone"] /\ status[v] = "free"
        /\ \A o \in Op : descend[v][o] = 0
    BY <1>5 DEF DeleteVarnode, HasNoDescend
  <2> QED BY <1>1, <1>2, <2>1, StatusStep DEF Status, Banked
<1> QED BY <1>3, <1>4, <1>5

LEMMA ClearDeadVarnodesStep ==
    ASSUME IndInv, todo = <<>>, ClearDeadVarnodes
    PROVE  IndInv'
<1>1. UNCHANGED <<opVars, readVars, writeVars, todo>> /\ status \in [Varnode -> Status]
  BY DEF ClearDeadVarnodes, IndInv
<1>2. \A v \in Varnode :
         \/ status'[v] = status[v]
         \/ /\ status'[v] = "gone" /\ status[v] \in {"free", "input"}
            /\ \A o \in Op : descend[v][o] = 0
  BY DEF ClearDeadVarnodes, HasNoDescend
<1>3. status' \in [Varnode -> Status]
  BY <1>1 DEF ClearDeadVarnodes, Status
<1> QED BY <1>1, <1>2, <1>3, StatusStep DEF Banked

\* Steps that move ops between the lists and blocks only.
LEMMA BankStep ==
    ASSUME IndInv, todo = <<>>, NEW o \in Op, OpInsert(o) \/ OpUninsert(o) \/ ClearDeadOps
    PROVE  IndInv'
<1>1. UNCHANGED <<inputs, descend, output, def, status, todo>>
  BY DEF OpInsert, OpUninsert, ClearDeadOps, readVars, writeVars
<1>2. todo' \in Seq(Call) /\ TodoOK'
  BY <1>1, NothingToDo
<1>3. bank \in [Op -> {"new", "dead", "alive", "gone"}] /\ inBlock \subseteq Op
      /\ (\A p \in inBlock : bank[p] = "alive") /\ \A p \in Op : bank[p] = "new" => inputs[p] = <<>>
  BY DEF IndInv, BlockOpsAlive, NewOpsBare
<1>4. /\ bank' \in [Op -> {"new", "dead", "alive", "gone"}]
      /\ inBlock' \subseteq Op
      /\ \A p \in Op : bank'[p] = "new" => bank[p] = "new"
      /\ \A p \in inBlock' : bank'[p] = "alive"
  BY <1>3 DEF OpInsert, OpUninsert, ClearDeadOps
<1> QED BY <1>1, <1>2, <1>3, <1>4 DEF IndInv, BlockOpsAlive, NewOpsBare

LEMMA NewOpStep ==
    ASSUME IndInv, todo = <<>>, NEW o \in Op, NEW n \in 0..MaxInput, NewOp(o, n)
    PROVE  IndInv'
<1>1. /\ bank[o] = "new" /\ bank' = [bank EXCEPT ![o] = "dead"]
      /\ inputs' = [inputs EXCEPT ![o] = [i \in 1..n |-> Nil]]
      /\ UNCHANGED <<inBlock, output, def, status, descend, todo>>
  BY DEF NewOp
<1>2. inputs[o] = <<>> /\ inputs \in [Op -> Seq(Slot)] /\ n \in Nat
  BY <1>1, SSAGraphAssumption DEF IndInv, NewOpsBare, ReadInv
<1>3. ReadInv(inputs', descend, status)
  <2>1. \A v \in Varnode : descend[v][o] = 0
    BY <1>2, UnreadFacts DEF IndInv
  <2>2. descend \in [Varnode -> [Op -> Nat]]
    BY DEF IndInv, ReadInv
  <2>3. \A v \in Varnode, p \in Op : descend[v][p] = IF p = o THEN 0 ELSE descend[v][p]
    BY <2>1
  <2>4. PICK t : t = [i \in 1..n |-> Nil]
    OBVIOUS
  <2>5. t \in Seq(Slot) /\ \A i \in 1..Len(t) : t[i] = Nil
    BY <1>2, <2>4, BlankSlots
  <2>6. ReadInv([inputs EXCEPT ![o] = t], descend, status)
    BY <2>2, <2>3, <2>5, BlankOp DEF IndInv
  <2> QED BY <1>1, <2>4, <2>6
<1>4. todo' \in Seq(Call) /\ TodoOK'
  BY <1>1, NothingToDo
<1>5. bank' \in [Op -> {"new", "dead", "alive", "gone"}] /\ BlockOpsAlive' /\ NewOpsBare'
  BY <1>1, <1>2 DEF IndInv, BlockOpsAlive, NewOpsBare
<1> QED BY <1>1, <1>3, <1>4, <1>5 DEF IndInv

\* Steps that change the writes only.
LEMMA WriteStep ==
    ASSUME IndInv, todo = <<>>, UNCHANGED <<opVars, readVars, todo>>,
           WriteInv(output', def', status'),
           status' \in [Varnode -> Status],
           \A v \in Varnode : status[v] \in Banked => status'[v] \in Banked
    PROVE  IndInv'
<1>1. UNCHANGED <<bank, inBlock, inputs, descend, todo>>
  BY DEF opVars, readVars
<1>2. ReadInv(inputs, descend, status')
  BY Restatus DEF IndInv
<1>3. todo' \in Seq(Call) /\ TodoOK'
  BY <1>1, NothingToDo
<1> QED BY <1>1, <1>2, <1>3 DEF IndInv, BlockOpsAlive, NewOpsBare

LEMMA NewVarnodeOutStep ==
    ASSUME IndInv, todo = <<>>, NEW o \in Op, NEW v \in Varnode, NewVarnodeOut(o, v)
    PROVE  IndInv'
<1>1. /\ output[o] = Nil /\ status[v] = "new"
      /\ status' = [status EXCEPT ![v] = "written"]
      /\ def' = [def EXCEPT ![v] = o]
      /\ output' = [output EXCEPT ![o] = v]
      /\ UNCHANGED <<opVars, readVars, todo>>
  BY DEF NewVarnodeOut
<1>2. WriteInv(output, def, status) /\ status \in [Varnode -> Status]
  BY DEF IndInv
<1>3. /\ output \in [Op -> Slot] /\ def \in [Varnode -> Op \cup {Nil}]
      /\ \A p \in Op : output[p] # Nil => output[p] \in Varnode /\ def[output[p]] = p
      /\ \A x \in Varnode : def[x] # Nil => def[x] \in Op /\ output[def[x]] = x
      /\ \A x \in Varnode : status[x] = "written" <=> def[x] # Nil
      /\ v # Nil /\ v \in Slot /\ \A p \in Op : p # Nil
  BY <1>2, SSAGraphAssumption DEF WriteInv, Slot
<1>4. WriteInv(output', def', status')
  <2>1. output' \in [Op -> Slot] /\ def' \in [Varnode -> Op \cup {Nil}]
    BY <1>1, <1>3
  <2>2. ASSUME NEW p \in Op, output'[p] # Nil PROVE def'[output'[p]] = p
    BY <1>1, <1>3, <2>2
  <2>3. ASSUME NEW x \in Varnode, def'[x] # Nil PROVE output'[def'[x]] = x
    <3>1. CASE x = v
      BY <1>1, <1>3, <3>1
    <3>2. CASE x # v
      <4>1. def'[x] = def[x] /\ def[x] \in Op /\ output[def[x]] = x
        BY <1>1, <1>3, <2>3, <3>2
      <4>2. x # Nil /\ def[x] # o
        BY <1>1, <4>1, SSAGraphAssumption
      <4> QED BY <1>1, <1>3, <4>1, <4>2
    <3> QED BY <3>1, <3>2
  <2>4. ASSUME NEW x \in Varnode PROVE status'[x] = "written" <=> def'[x] # Nil
    BY <1>1, <1>2, <1>3
  <2> QED BY <2>1, <2>2, <2>3, <2>4 DEF WriteInv
<1>5. status' \in [Varnode -> Status] /\ \A x \in Varnode : status[x] \in Banked => status'[x] \in Banked
  BY <1>1, <1>2 DEF Status, Banked
<1> QED BY <1>1, <1>4, <1>5, WriteStep

LEMMA OpSetOutputStep ==
    ASSUME IndInv, todo = <<>>, NEW o \in Op, NEW v \in Varnode, OpSetOutput(o, v)
    PROVE  IndInv'
<1>1. /\ status[v] \in {"free", "written"} /\ output[o] # v
      /\ output' = [p \in Op |-> IF p = o THEN v ELSE IF p = def[v] THEN Nil ELSE output[p]]
      /\ def' = [x \in Varnode |-> IF x = v THEN o ELSE IF x = output[o] THEN Nil ELSE def[x]]
      /\ status' = [x \in Varnode |-> IF x = v THEN "written"
                                      ELSE IF x = output[o] THEN "free" ELSE status[x]]
      /\ UNCHANGED <<opVars, readVars, todo>>
  BY DEF OpSetOutput
<1>2. WriteInv(output, def, status) /\ status \in [Varnode -> Status]
  BY DEF IndInv
<1>3. /\ output \in [Op -> Slot] /\ def \in [Varnode -> Op \cup {Nil}]
      /\ \A p \in Op : output[p] # Nil => output[p] \in Varnode /\ def[output[p]] = p
      /\ \A x \in Varnode : def[x] # Nil => def[x] \in Op /\ output[def[x]] = x
      /\ \A x \in Varnode : status[x] = "written" <=> def[x] # Nil
      /\ v # Nil /\ \A p \in Op : p # Nil
  BY <1>2, SSAGraphAssumption DEF WriteInv, Slot
<1>4. output' \in [Op -> Slot] /\ def' \in [Varnode -> Op \cup {Nil}]
  BY <1>1, <1>3 DEF Slot
<1>5. ASSUME NEW p \in Op, output'[p] # Nil PROVE def'[output'[p]] = p
  BY <1>1, <1>3, <1>5
<1>6. ASSUME NEW x \in Varnode, def'[x] # Nil PROVE output'[def'[x]] = x
  BY <1>1, <1>3, <1>6
<1>7. ASSUME NEW x \in Varnode PROVE status'[x] = "written" <=> def'[x] # Nil
  BY <1>1, <1>3
<1>8. WriteInv(output', def', status')
  BY <1>4, <1>5, <1>6, <1>7 DEF WriteInv
<1>9. status' \in [Varnode -> Status] /\ \A x \in Varnode : status[x] \in Banked => status'[x] \in Banked
  BY <1>1, <1>2 DEF Status, Banked
<1> QED BY <1>1, <1>8, <1>9, WriteStep

\* What OpUnsetOutput leaves is consistent.
LEMMA UnwrittenFacts ==
    ASSUME IndInv, NEW o \in Op
    PROVE  LET u == Unwritten(o)
           IN  /\ WriteInv(u.output, u.def, u.status)
               /\ u.status \in [Varnode -> Status]
               /\ \A x \in Varnode : status[x] \in Banked => u.status[x] \in Banked
<1> DEFINE w == output[o]
           out1 == [output EXCEPT ![o] = Nil]
           def1 == IF w = Nil THEN def ELSE [def EXCEPT ![w] = Nil]
           st1 == IF w = Nil \/ status[w] # "written" THEN status ELSE [status EXCEPT ![w] = "free"]
<1>1. Unwritten(o).output = out1 /\ Unwritten(o).def = def1 /\ Unwritten(o).status = st1
  BY DEF Unwritten
<1>2. /\ output \in [Op -> Slot] /\ def \in [Varnode -> Op \cup {Nil}]
      /\ \A p \in Op : output[p] # Nil => output[p] \in Varnode /\ def[output[p]] = p
      /\ \A x \in Varnode : def[x] # Nil => def[x] \in Op /\ output[def[x]] = x
      /\ \A x \in Varnode : status[x] = "written" <=> def[x] # Nil
      /\ \A p \in Op : p # Nil
      /\ status \in [Varnode -> Status]
  BY SSAGraphAssumption DEF IndInv, WriteInv, Slot
<1>3. CASE w = Nil
  <2>1. out1 = output /\ def1 = def /\ st1 = status
    BY <1>2, <1>3
  <2>2. WriteInv(output, def, status)
    BY DEF IndInv
  <2> HIDE DEF out1, def1, st1
  <2> QED BY <1>1, <1>2, <2>1, <2>2
<1>4. CASE w # Nil
  <2>1. w \in Varnode /\ def[w] = o /\ status[w] = "written"
    BY <1>2, <1>4
  <2>2. def1 = [def EXCEPT ![w] = Nil] /\ st1 = [status EXCEPT ![w] = "free"]
    BY <1>4, <2>1
  <2>3. st1 \in [Varnode -> Status] /\ \A x \in Varnode : status[x] \in Banked => st1[x] \in Banked
    BY <1>2, <2>1, <2>2 DEF Status, Banked
  <2>4. WriteInv(out1, def1, st1)
    BY <1>2, <2>1, <2>2 DEF WriteInv, Slot
  <2> QED BY <1>1, <2>3, <2>4
<1> QED BY <1>3, <1>4

LEMMA OpUnsetOutputStep ==
    ASSUME IndInv, todo = <<>>, NEW o \in Op, OpUnsetOutput(o)
    PROVE  IndInv'
  BY UnwrittenFacts, WriteStep DEF OpUnsetOutput

\* The varnode OpSetInput stores is in the bank afterwards, and unread if it may
\* not be shared.
LEMMA StoredFacts ==
    ASSUME IndInv, NEW d \in [Varnode -> [Op -> Nat]],
           \A x \in Varnode : \A p \in Op : descend[x][p] = 0 => d[x][p] = 0,
           NEW v \in Varnode, InBank(v), NEW c \in Varnode, Stored(d, v, c),
           status' = IF c = v THEN status ELSE [status EXCEPT ![c] = "free"]
    PROVE  /\ status' \in [Varnode -> Status]
           /\ \A x \in Varnode : status[x] \in Banked => status'[x] \in Banked
           /\ \A x \in Varnode : status'[x] = "written" <=> status[x] = "written"
           /\ status'[c] \in Banked
           /\ c \in Shareless => \A p \in Op : d[c][p] = 0
<1>1. status \in [Varnode -> Status] /\ status[v] \in Banked
  BY DEF IndInv, InBank, Banked
<1>2. CASE c = v
  <2>1. status' = status
    BY <1>2
  <2>2. c \in Shareless => \A p \in Op : d[c][p] = 0
    <3>1. CASE v \in Constant \ SpaceBase /\ \E p \in Op : d[v][p] # 0
      BY <1>1, <1>2, <3>1 DEF Stored, Banked
    <3>2. CASE ~(v \in Constant \ SpaceBase /\ \E p \in Op : d[v][p] # 0)
      BY <1>2, <3>2 DEF Shareless
    <3> QED BY <3>1, <3>2
  <2> QED BY <1>1, <1>2, <2>1, <2>2
<1>3. CASE c # v
  <2>1. status[c] = "new" /\ status' = [status EXCEPT ![c] = "free"]
    BY <1>3 DEF Stored
  <2>2. ASSUME NEW p \in Op PROVE d[c][p] = 0
    <3>0. ReadInv(inputs, descend, status)
      BY DEF IndInv
    <3>1. \A i \in 1..Len(inputs[p]) : inputs[p][i] # c
      <4>1. c # Nil /\ status[c] \notin Banked
        BY <2>1, SSAGraphAssumption DEF Banked
      <4>2. \A i \in 1..Len(inputs[p]) : inputs[p][i] # Nil => status[inputs[p][i]] \in Banked
        BY <3>0 DEF ReadInv
      <4> QED BY <4>1, <4>2
    <3>2. descend[c][p] = 0
      BY <3>0, <3>1, UnreadFacts
    <3> QED BY <3>2
  <2>3. /\ status' \in [Varnode -> Status] /\ status'[c] \in Banked
        /\ \A x \in Varnode : status[x] \in Banked => status'[x] \in Banked
        /\ \A x \in Varnode : status'[x] = "written" <=> status[x] = "written"
    BY <1>1, <2>1 DEF Status, Banked
  <2> QED BY <2>2, <2>3
<1> QED BY <1>2, <1>3

\* The links of OpSetInput, in a slot holding w and with the lists after w let go.
LEMMA LinkStep ==
    ASSUME IndInv, NEW o \in Op, NEW k \in 1..Len(inputs[o]), NEW v \in Varnode, InBank(v),
           NEW d, d = descend \/ d = EraseDescend(descend, inputs[o][k], o),
           NEW c \in Varnode, Stored(d, v, c),
           inputs' = [inputs EXCEPT ![o][k] = c],
           descend' = AddDescend(EraseDescend(descend, inputs[o][k], o), c, o),
           status' = IF c = v THEN status ELSE [status EXCEPT ![c] = "free"]
    PROVE  /\ ReadInv(inputs', descend', status')
           /\ status' \in [Varnode -> Status]
           /\ \A x \in Varnode : status[x] \in Banked => status'[x] \in Banked
           /\ \A x \in Varnode : status'[x] = "written" <=> status[x] = "written"
           /\ \A p \in Op : Len(inputs'[p]) = Len(inputs[p])
<1> DEFINE d1 == EraseDescend(descend, inputs[o][k], o)
<1>1. /\ inputs \in [Op -> Seq(Slot)] /\ descend \in [Varnode -> [Op -> Nat]]
      /\ inputs[o] \in Seq(Slot) /\ inputs[o][k] \in Slot /\ c \in Slot
      /\ ReadInv(inputs, descend, status)
  BY SlotFacts DEF IndInv, ReadInv, Slot
<1>2. d1 \in [Varnode -> [Op -> Nat]]
  <2> HIDE DEF d1
  <2>1. ReadInv([inputs EXCEPT ![o][k] = Nil], d1, status)
    BY <1>1, ClearSlot DEF d1
  <2> QED BY <2>1 DEF ReadInv
<1>3. \A x \in Varnode, p \in Op : descend[x][p] = 0 => d1[x][p] = 0
  <2>1. CASE inputs[o][k] = Nil
    BY <1>1, <2>1 DEF EraseDescend
  <2>2. CASE inputs[o][k] # Nil
    <3>1. inputs[o][k] \in Varnode
      BY <1>1, <2>2 DEF Slot
    <3> QED BY <1>1, <2>2, <3>1 DEF EraseDescend
  <2> QED BY <2>1, <2>2
<1>4. d \in [Varnode -> [Op -> Nat]] /\ \A x \in Varnode, p \in Op : descend[x][p] = 0 => d[x][p] = 0
  BY <1>1, <1>2, <1>3
<1>5. /\ status' \in [Varnode -> Status]
      /\ \A x \in Varnode : status[x] \in Banked => status'[x] \in Banked
      /\ \A x \in Varnode : status'[x] = "written" <=> status[x] = "written"
      /\ status'[c] \in Banked
      /\ c \in Shareless => \A p \in Op : d[c][p] = 0
  BY <1>4, StoredFacts
<1>6. c \in Shareless => \A p \in Op : d1[c][p] = 0
  BY <1>3, <1>5
<1>7. ReadInv(inputs', descend', status')
  <2> HIDE DEF d1
  <2>1. d1 = EraseDescend(descend, inputs[o][k], o)
    BY DEF d1
  <2> QED BY <1>1, <1>5, <1>6, <2>1, ResetSlot
<1>8. \A p \in Op : Len(inputs'[p]) = Len(inputs[p])
  <2>1. inputs'[o] = [inputs[o] EXCEPT ![k] = c] /\ \A p \in Op \ {o} : inputs'[p] = inputs[p]
    BY <1>1
  <2>2. Len(inputs'[o]) = Len(inputs[o])
    BY <1>1, <2>1, CountSet
  <2> QED BY <2>1, <2>2
<1> QED BY <1>5, <1>7, <1>8

\* Steps that change the reads, and flags of constants that get created.
LEMMA ReadStep ==
    ASSUME IndInv, UNCHANGED <<opVars, writeVars>>,
           ReadInv(inputs', descend', status'),
           status' \in [Varnode -> Status],
           \A x \in Varnode : status'[x] = "written" <=> status[x] = "written",
           \A p \in Op : bank[p] = "new" => inputs'[p] = <<>>,
           todo' \in Seq(Call), TodoOK'
    PROVE  IndInv'
<1>1. UNCHANGED <<bank, inBlock, output, def>>
  BY DEF opVars, writeVars
<1>2. WriteInv(output, def, status')
  BY DEF IndInv, WriteInv
<1> QED BY <1>1, <1>2 DEF IndInv, BlockOpsAlive, NewOpsBare

\* Ops keep the number of their slots, so the ones not created yet have none.
LEMMA StillBare ==
    ASSUME IndInv, inputs' \in [Op -> Seq(Slot)],
           \A p \in Op : Len(inputs'[p]) = Len(inputs[p]), NEW p \in Op, bank[p] = "new"
    PROVE  inputs'[p] = <<>>
<1>1. inputs'[p] \in Seq(Slot) /\ Len(inputs'[p]) = 0
  BY DEF IndInv, NewOpsBare
<1> QED BY <1>1, EmptySeq

\* What the calls to be made hold.
LEMMA CallFacts ==
    ASSUME IndInv, NEW k \in 1..Len(todo)
    PROVE  /\ todo[k] \in Call /\ todo[k].call \in {"set", "replace", "destroy"}
           /\ todo[k].call = "set" =>
                 /\ todo[k].op \in Op /\ todo[k].vn \in Varnode /\ InBank(todo[k].vn)
                 /\ todo[k].slot \in 1..Len(inputs[todo[k].op])
           /\ todo[k].call = "replace" =>
                 /\ todo[k].old \in Varnode /\ todo[k].vn \in Varnode
                 /\ todo[k].left \in [Op -> Nat] /\ InBank(todo[k].vn)
           /\ todo[k].call = "destroy" => todo[k].op \in Op
<1>1. todo \in Seq(Call) /\ k \in DOMAIN todo /\ todo[k] \in Call
  BY LenProperties, ElementOfSeq DEF IndInv
<1>2. todo[k].call \in {"set", "replace", "destroy"}
  BY <1>1 DEF Call
<1>3. todo[k].call = "set" => todo[k].op \in Op /\ todo[k].vn \in Varnode
  BY <1>1 DEF Call
<1>4. todo[k].call = "replace" => /\ todo[k].old \in Varnode /\ todo[k].vn \in Varnode
                                  /\ todo[k].left \in [Op -> Nat]
  BY <1>1 DEF Call
<1>5. todo[k].call = "destroy" => todo[k].op \in Op
  BY <1>1 DEF Call
<1>6. /\ todo[k].call = "set" => todo[k].slot \in 1..Len(inputs[todo[k].op]) /\ InBank(todo[k].vn)
      /\ todo[k].call = "replace" => InBank(todo[k].vn)
  BY <1>1 DEF IndInv, TodoOK, Slots
<1> QED BY <1>1, <1>2, <1>3, <1>4, <1>5, <1>6

\* A call fits the slots ins and the flags st.
CallOK(t, ins, st) ==
    /\ t.call = "set" => t.slot \in 1..Len(ins[t.op]) /\ st[t.vn] \in Banked
    /\ t.call = "replace" => st[t.vn] \in Banked

LEMMA TodoIntro ==
    ASSUME todo' \in Seq(Call), \A k \in 1..Len(todo') : CallOK(todo'[k], inputs', status')
    PROVE  TodoOK'
<1>1. DOMAIN todo' = 1..Len(todo')
  BY LenProperties
<1> QED BY <1>1 DEF TodoOK, CallOK, Slots, InBank, Banked

\* The head of the list, and the rest of it after a step that keeps slots and bank.
LEMMA TailFacts ==
    ASSUME IndInv, todo # <<>>,
           \A x \in Varnode : status[x] \in Banked => status'[x] \in Banked,
           \A p \in Op : Len(inputs'[p]) = Len(inputs[p])
    PROVE  /\ Head(todo) = todo[1] /\ 1 \in 1..Len(todo)
           /\ Tail(todo) \in Seq(Call) /\ Len(Tail(todo)) \in Nat
           /\ \A k \in 1..Len(Tail(todo)) : CallOK(Tail(todo)[k], inputs', status')
<1>1. todo \in Seq(Call) /\ Len(todo) \in Nat
  BY LenProperties DEF IndInv
<1>2. /\ Head(todo) = todo[1] /\ Tail(todo) \in Seq(Call) /\ Len(Tail(todo)) = Len(todo) - 1
      /\ \A k \in 1..Len(Tail(todo)) : Tail(todo)[k] = todo[k + 1]
  BY <1>1, HeadTailProperties
<1>3. Len(todo) # 0
  BY <1>1, EmptySeq
<1>4. ASSUME NEW k \in 1..Len(Tail(todo)) PROVE CallOK(Tail(todo)[k], inputs', status')
  <2>1. k + 1 \in 1..Len(todo) /\ Tail(todo)[k] = todo[k + 1]
    BY <1>1, <1>2
  <2>2. CallOK(todo[k + 1], inputs', status')
    BY <2>1, CallFacts DEF CallOK, InBank, Banked
  <2> QED BY <2>1, <2>2
<1> QED BY <1>1, <1>2, <1>3, <1>4

LEMMA SetNextStep ==
    ASSUME IndInv, SetNext
    PROVE  IndInv'
<1> DEFINE t == todo[1]
<1>1. /\ todo # <<>> /\ Head(todo).call = "set" /\ todo' = Tail(todo)
      /\ UNCHANGED <<opVars, writeVars>>
  BY DEF SetNext
<1>2. Head(todo) = t /\ 1 \in 1..Len(todo)
  <2>1. todo \in Seq(Call) /\ Len(todo) \in Nat
    BY LenProperties DEF IndInv
  <2> QED BY <1>1, <2>1, HeadTailProperties, EmptySeq
<1>3. t.op \in Op /\ t.vn \in Varnode /\ InBank(t.vn) /\ t.slot \in 1..Len(inputs[t.op])
  BY <1>1, <1>2, CallFacts
<1>4. /\ ReadInv(inputs', descend', status')
      /\ status' \in [Varnode -> Status]
      /\ \A x \in Varnode : status[x] \in Banked => status'[x] \in Banked
      /\ \A x \in Varnode : status'[x] = "written" <=> status[x] = "written"
      /\ \A p \in Op : Len(inputs'[p]) = Len(inputs[p])
  <2>1. CASE inputs[t.op][t.slot] = t.vn
    <3>1. UNCHANGED <<inputs, descend, status>>
      BY <1>2, <2>1 DEF SetNext, readVars
    <3>2. ReadInv(inputs, descend, status) /\ status \in [Varnode -> Status]
      BY DEF IndInv
    <3> QED BY <3>1, <3>2
  <2>2. CASE inputs[t.op][t.slot] # t.vn
    <3>1. SetSlot(t.op, t.vn, t.slot)
      BY <1>2, <2>2 DEF SetNext
    <3>2. PICK c \in Varnode :
            /\ Stored(descend, t.vn, c)
            /\ inputs' = [inputs EXCEPT ![t.op][t.slot] = c]
            /\ descend' = AddDescend(EraseDescend(descend, inputs[t.op][t.slot], t.op), c, t.op)
            /\ status' = IF c = t.vn THEN status ELSE [status EXCEPT ![c] = "free"]
      BY <3>1 DEF SetSlot
    <3> HIDE DEF t
    <3> QED BY <1>3, <3>2, LinkStep
  <2> QED BY <2>1, <2>2
<1>5. todo' \in Seq(Call) /\ TodoOK'
  BY <1>1, <1>4, TailFacts, TodoIntro
<1>6. \A p \in Op : bank[p] = "new" => inputs'[p] = <<>>
  BY <1>4, StillBare DEF ReadInv
<1> QED BY <1>1, <1>4, <1>5, <1>6, ReadStep

LEMMA OpSetInputStep ==
    ASSUME IndInv, todo = <<>>, NEW o \in Op, NEW v \in Varnode, NEW k, OpSetInput(o, v, k)
    PROVE  IndInv'
<1>1. /\ InBank(v) /\ k \in 1..Len(inputs[o]) /\ UNCHANGED <<opVars, writeVars>> /\ todo' = <<>>
  BY DEF OpSetInput, Slots
<1>2. PICK c \in Varnode :
        /\ Stored(descend, v, c)
        /\ inputs' = [inputs EXCEPT ![o][k] = c]
        /\ descend' = AddDescend(EraseDescend(descend, inputs[o][k], o), c, o)
        /\ status' = IF c = v THEN status ELSE [status EXCEPT ![c] = "free"]
  BY DEF OpSetInput, SetSlot
<1>3. /\ ReadInv(inputs', descend', status')
      /\ status' \in [Varnode -> Status]
      /\ \A x \in Varnode : status'[x] = "written" <=> status[x] = "written"
      /\ \A p \in Op : Len(inputs'[p]) = Len(inputs[p])
  BY <1>1, <1>2, LinkStep
<1>4. \A p \in Op : bank[p] = "new" => inputs'[p] = <<>>
  BY <1>3, StillBare DEF ReadInv
<1> QED BY <1>1, <1>3, <1>4, NothingToDo, ReadStep

\* An operation on the slots of an op that exists leaves the new ones alone.
LEMMA OthersBare ==
    ASSUME IndInv, NEW o \in Op, Exists(o), NEW t, inputs' = [inputs EXCEPT ![o] = t],
           NEW p \in Op, bank[p] = "new"
    PROVE  inputs'[p] = <<>>
<1>1. inputs \in [Op -> Seq(Slot)] /\ inputs[p] = <<>> /\ p # o
  BY DEF IndInv, ReadInv, NewOpsBare, Exists
<1> QED BY <1>1

LEMMA OpUnsetInputStep ==
    ASSUME IndInv, todo = <<>>, NEW o \in Op, NEW k, OpUnsetInput(o, k) \/ OpRemoveInput(o, k)
    PROVE  IndInv'
<1>1. /\ Exists(o) /\ k \in 1..Len(inputs[o]) /\ UNCHANGED <<opVars, writeVars, status>>
      /\ todo' = <<>> /\ descend' = EraseDescend(descend, inputs[o][k], o)
  BY DEF OpUnsetInput, OpRemoveInput, Slots
<1>2. ReadInv(inputs, descend, status) /\ status \in [Varnode -> Status]
      /\ inputs \in [Op -> Seq(Slot)]
  BY DEF IndInv, ReadInv
<1>3. CASE OpUnsetInput(o, k)
  <2>1. inputs' = [inputs EXCEPT ![o][k] = Nil]
    BY <1>3 DEF OpUnsetInput
  <2>2. inputs' = [inputs EXCEPT ![o] = [inputs[o] EXCEPT ![k] = Nil]]
    BY <1>2, <2>1
  <2>3. ReadInv(inputs', descend', status)
    BY <1>1, <1>2, <2>1, ClearSlot
  <2> QED BY <1>1, <1>2, <2>2, <2>3, OthersBare, NothingToDo, ReadStep
<1>4. CASE OpRemoveInput(o, k)
  <2>1. inputs' = [inputs EXCEPT ![o] = RemoveAt(inputs[o], k)]
    BY <1>2, <1>4 DEF OpRemoveInput
  <2>2. ReadInv(inputs', descend', status)
    BY <1>1, <1>2, <2>1, RemoveSlot
  <2> QED BY <1>1, <1>2, <2>1, <2>2, OthersBare, NothingToDo, ReadStep
<1> QED BY <1>3, <1>4

\* A single call that is fit to be made.
LEMMA OneCall ==
    ASSUME NEW t \in Call, todo' = <<t>>, CallOK(t, inputs', status')
    PROVE  todo' \in Seq(Call) /\ TodoOK'
<1>1. todo' \in Seq(Call) /\ Len(todo') = 1 /\ todo'[1] = t
  OBVIOUS
<1>2. \A k \in 1..Len(todo') : CallOK(todo'[k], inputs', status')
  BY <1>1
<1> QED BY <1>1, <1>2, TodoIntro

LEMMA OpInsertInputStep ==
    ASSUME IndInv, todo = <<>>, NEW o \in Op, NEW v \in Varnode, NEW k \in 1..MaxInput,
           OpInsertInput(o, v, k)
    PROVE  IndInv'
<1> DEFINE t == [call |-> "set", op |-> o, vn |-> v, slot |-> k]
<1>1. /\ Exists(o) /\ InBank(v) /\ k \in 1..(Len(inputs[o]) + 1)
      /\ todo' = <<t>> /\ UNCHANGED <<opVars, writeVars, descend, status>>
  BY DEF OpInsertInput
<1>2. /\ ReadInv(inputs, descend, status) /\ status \in [Varnode -> Status]
      /\ inputs \in [Op -> Seq(Slot)] /\ inputs[o] \in Seq(Slot) /\ Nil \in Slot
  BY DEF IndInv, ReadInv, Slot
<1>3. inputs' = [inputs EXCEPT ![o] = InsertAt(inputs[o], k, Nil)]
  BY <1>2 DEF OpInsertInput
<1>4. ReadInv(inputs', descend', status')
  BY <1>1, <1>2, <1>3, InsertSlot
<1>5. Len(inputs'[o]) = Len(inputs[o]) + 1 /\ Len(inputs[o]) \in Nat
  <2>1. inputs'[o] = InsertAt(inputs[o], k, Nil) /\ Len(inputs[o]) \in Nat
    BY <1>2, <1>3, LenProperties
  <2> QED BY <1>1, <1>2, <2>1, InsertAtFacts
<1>6. todo' \in Seq(Call) /\ TodoOK'
  <2>1. t \in Call
    BY DEF Call
  <2>2. CallOK(t, inputs', status')
    BY <1>1, <1>5 DEF CallOK, InBank, Banked
  <2> HIDE DEF t
  <2> QED BY <1>1, <2>1, <2>2, OneCall
<1> QED BY <1>1, <1>2, <1>3, <1>4, <1>6, OthersBare, ReadStep

LEMMA OpSwapInputStep ==
    ASSUME IndInv, todo = <<>>, NEW o \in Op, NEW k \in 1..MaxInput, NEW m \in 1..MaxInput,
           OpSwapInput(o, k, m)
    PROVE  IndInv'
<1> DEFINE t == [call |-> "set", op |-> o, vn |-> inputs[o][m], slot |-> k]
           u == [call |-> "set", op |-> o, vn |-> inputs[o][k], slot |-> m]
<1>1. /\ k \in 1..Len(inputs[o]) /\ m \in 1..Len(inputs[o])
      /\ inputs[o][k] # Nil /\ inputs[o][m] # Nil
      /\ todo' = <<t, u>> /\ UNCHANGED <<opVars, readVars, writeVars, status>>
  BY DEF OpSwapInput, Slots
<1>2. /\ ReadInv(inputs, descend, status) /\ status \in [Varnode -> Status]
      /\ UNCHANGED <<inputs, descend>>
  BY <1>1 DEF IndInv, readVars
<1>3. /\ inputs[o][k] \in Varnode /\ inputs[o][m] \in Varnode
      /\ status[inputs[o][k]] \in Banked /\ status[inputs[o][m]] \in Banked
  BY <1>1, <1>2, SlotFacts DEF ReadInv, Slot
<1>4. t \in Call /\ u \in Call
  BY <1>3 DEF Call
<1>5. CallOK(t, inputs', status') /\ CallOK(u, inputs', status')
  BY <1>1, <1>2, <1>3 DEF CallOK
<1> HIDE DEF t, u
<1>6. /\ todo' \in Seq(Call) /\ Len(todo') = 2 /\ todo'[1] = t /\ todo'[2] = u
  BY <1>1, <1>4
<1>7. \A i \in 1..Len(todo') : CallOK(todo'[i], inputs', status')
  BY <1>5, <1>6
<1>8. TodoOK'
  BY <1>6, <1>7, TodoIntro
<1> QED BY <1>1, <1>2, <1>6, <1>8, ReadStep DEF IndInv, NewOpsBare

\* OpUnsetInput on every slot empties the lists of the op's entries.
LEMMA AllUnread ==
    ASSUME IndInv, NEW o \in Op
    PROVE  /\ Unread(o) \in [Varnode -> [Op -> Nat]]
           /\ \A v \in Varnode, p \in Op : Unread(o)[v][p] = IF p = o THEN 0 ELSE descend[v][p]
<1>1. ReadInv(inputs, descend, status) /\ descend \in [Varnode -> [Op -> Nat]]
  BY DEF IndInv, ReadInv
<1>2. ASSUME NEW v \in Varnode
      PROVE  Unread(o)[v] = [descend[v] EXCEPT ![o] = 0]
  <2>1. /\ descend[v][o] \in Nat
        /\ descend[v][o] = Cardinality({i \in Slots(o) : inputs[o][i] = v})
    BY <1>1, UnreadFacts DEF ReadInv, Occurs, Slots
  <2> DEFINE n == Cardinality({i \in Slots(o) : inputs[o][i] = v})
  <2>2. Unread(o)[v] = [descend[v] EXCEPT ![o] = IF descend[v][o] < n THEN 0 ELSE descend[v][o] - n]
    BY <1>1 DEF Unread
  <2> HIDE DEF n
  <2>3. (IF descend[v][o] < n THEN 0 ELSE descend[v][o] - n) = 0
    BY <2>1 DEF n
  <2> QED BY <2>2, <2>3
<1>3. DOMAIN Unread(o) = Varnode /\ Unread(o) = [v \in Varnode |-> Unread(o)[v]]
  BY DEF Unread
<1> QED BY <1>1, <1>2, <1>3

\* The slots of an op are all unset, and there are n of them afterwards.
LEMMA Emptied ==
    ASSUME IndInv, NEW o \in Op, NEW n \in Nat, descend' = Unread(o),
           inputs' = [inputs EXCEPT ![o] = [i \in 1..n |-> Nil]]
    PROVE  /\ ReadInv(inputs', descend', status) /\ Len(inputs'[o]) = n
           /\ \A p \in Op \ {o} : inputs'[p] = inputs[p]
<1>1. PICK t : t = [i \in 1..n |-> Nil]
  OBVIOUS
<1>2. t \in Seq(Slot) /\ Len(t) = n /\ \A i \in 1..Len(t) : t[i] = Nil
  BY <1>1, BlankSlots
<1>3. PICK d1 : d1 = descend'
  OBVIOUS
<1>4. /\ d1 \in [Varnode -> [Op -> Nat]]
      /\ \A v \in Varnode, p \in Op : d1[v][p] = IF p = o THEN 0 ELSE descend[v][p]
  BY <1>3, AllUnread
<1>5. ReadInv(inputs, descend, status) /\ inputs \in [Op -> Seq(Slot)]
  BY DEF IndInv, ReadInv
<1>6. ReadInv([inputs EXCEPT ![o] = t], d1, status)
  BY ONLY <1>2, <1>4, <1>5, o \in Op, BlankOp, ZenonT(120)
<1> QED BY <1>1, <1>2, <1>3, <1>5, <1>6

LEMMA OpSetAllInputStep ==
    ASSUME IndInv, todo = <<>>, NEW o \in Op, NEW vs \in BoundedSeq(Varnode, MaxInput),
           OpSetAllInput(o, vs)
    PROVE  IndInv'
<1>1. PICK n \in 0..MaxInput : vs \in [1..n -> Varnode]
  BY DEF BoundedSeq, SeqOf
<1>2. /\ Exists(o) /\ \A i \in 1..n : InBank(vs[i]) /\ vs[i] \in Varnode
      /\ inputs' = [inputs EXCEPT ![o] = [i \in 1..n |-> Nil]]
      /\ descend' = Unread(o)
      /\ todo' = [i \in 1..n |-> [call |-> "set", op |-> o, vn |-> vs[i], slot |-> i]]
      /\ UNCHANGED <<opVars, writeVars, status>>
  BY <1>1 DEF OpSetAllInput
<1>3. ReadInv(inputs, descend, status) /\ status \in [Varnode -> Status] /\ n \in Nat /\ n <= MaxInput
      /\ inputs \in [Op -> Seq(Slot)]
  BY SSAGraphAssumption DEF IndInv, ReadInv
<1>4. ReadInv(inputs', descend', status') /\ Len(inputs'[o]) = n
  BY <1>2, <1>3, Emptied
<1>6. todo' \in [1..n -> Call]
  <2>1. ASSUME NEW i \in 1..n
        PROVE  [call |-> "set", op |-> o, vn |-> vs[i], slot |-> i] \in Call
    <3>1. i \in 1..MaxInput /\ vs[i] \in Varnode
      BY <1>2, <1>3, SSAGraphAssumption
    <3> QED BY <3>1 DEF Call
  <2> QED BY <1>2, <2>1
<1>7. todo' \in Seq(Call) /\ Len(todo') = n
  BY <1>3, <1>6, RebuildFacts
<1>8. \A i \in 1..Len(todo') : CallOK(todo'[i], inputs', status')
  BY <1>2, <1>4, <1>7 DEF CallOK, InBank, Banked
<1>9. TodoOK'
  BY <1>7, <1>8, TodoIntro
<1> QED BY <1>2, <1>3, <1>4, <1>7, <1>9, OthersBare, ReadStep

\* Steps that only queue one call.
LEMMA QueueStep ==
    ASSUME IndInv, UNCHANGED <<opVars, readVars, writeVars, status>>,
           NEW t \in Call, todo' = <<t>>, CallOK(t, inputs, status)
    PROVE  IndInv'
<1>1. UNCHANGED <<inputs, descend>> /\ ReadInv(inputs, descend, status) /\ status \in [Varnode -> Status]
  BY DEF readVars, IndInv
<1>2. todo' \in Seq(Call) /\ TodoOK'
  BY <1>1, OneCall
<1> QED BY <1>1, <1>2, ReadStep DEF IndInv, NewOpsBare

LEMMA TotalReplaceStep ==
    ASSUME IndInv, todo = <<>>, NEW old \in Varnode, NEW v \in Varnode, TotalReplace(old, v)
    PROVE  IndInv'
<1> DEFINE t == [call |-> "replace", left |-> descend[old], old |-> old, vn |-> v]
<1>1. /\ InBank(v) /\ todo' = <<t>> /\ UNCHANGED <<opVars, readVars, writeVars, status>>
  BY DEF TotalReplace
<1>2. t \in Call
  BY DEF Call, IndInv, ReadInv
<1>3. CallOK(t, inputs, status)
  BY <1>1 DEF CallOK, InBank, Banked
<1> HIDE DEF t
<1> QED BY <1>1, <1>2, <1>3, QueueStep

LEMMA OpDestroyRecursiveStep ==
    ASSUME IndInv, todo = <<>>, NEW o \in Op, OpDestroyRecursive(o)
    PROVE  IndInv'
<1> DEFINE t == [call |-> "destroy", op |-> o, root |-> TRUE]
<1>1. todo' = <<t>> /\ UNCHANGED <<opVars, readVars, writeVars, status>>
  BY DEF OpDestroyRecursive
<1>2. t \in Call
  BY DEF Call
<1>3. CallOK(t, inputs, status)
  BY DEF CallOK
<1> HIDE DEF t
<1> QED BY <1>1, <1>2, <1>3, QueueStep

LEMMA DestroyVarnodeRecursiveStep ==
    ASSUME IndInv, todo = <<>>, NEW v \in Varnode, DestroyVarnodeRecursive(v)
    PROVE  IndInv'
<1>1. UNCHANGED <<opVars, readVars, writeVars>> /\ \A o \in Op : descend[v][o] = 0
  BY DEF DestroyVarnodeRecursive, HasNoDescend
<1>2. CASE status[v] = "written"
  <2> DEFINE t == [call |-> "destroy", op |-> def[v], root |-> TRUE]
  <2>1. todo' = <<t>> /\ UNCHANGED status
    BY <1>2 DEF DestroyVarnodeRecursive
  <2>2. def[v] \in Op
    BY <1>2 DEF IndInv, WriteInv
  <2>3. t \in Call
    BY <2>2 DEF Call
  <2>4. CallOK(t, inputs, status)
    BY DEF CallOK
  <2> HIDE DEF t
  <2> QED BY <1>1, <2>1, <2>3, <2>4, QueueStep
<1>3. CASE status[v] # "written"
  <2>1. status' = [status EXCEPT ![v] = "gone"] /\ UNCHANGED todo
    BY <1>3 DEF DestroyVarnodeRecursive
  <2>2. status \in [Varnode -> Status]
    BY DEF IndInv
  <2> QED BY <1>1, <1>3, <2>1, <2>2, StatusStep DEF Status
<1> QED BY <1>2, <1>3

\* The slot GetSlot finds holds the varnode.
LEMMA SlotOfFacts ==
    ASSUME IndInv, NEW o \in Op, NEW old \in Varnode, ~\A i \in Slots(o) : inputs[o][i] # old
    PROVE  SlotOf(o, old) \in 1..Len(inputs[o]) /\ inputs[o][SlotOf(o, old)] = old
<1> DEFINE S == Occurs(inputs[o], old)
<1>1. Len(inputs[o]) \in Nat
  BY SlotFacts DEF IndInv, ReadInv
<1>2. S \subseteq Nat /\ S # {}
  BY <1>1 DEF Occurs, Slots
<1>3. PICK m \in S : \A x \in S : m <= x
  <2> HIDE DEF S
  <2> QED BY <1>2, LeastNumber
<1>4. /\ m \in Slots(o) /\ inputs[o][m] = old
      /\ \A j \in 1..(m - 1) : inputs[o][j] # old
  <2>1. ASSUME NEW j \in 1..(m - 1), inputs[o][j] = old PROVE FALSE
    <3>1. m \in Nat /\ m <= Len(inputs[o])
      BY <1>1 DEF Occurs
    <3>2. j \in S /\ j < m
      BY <1>1, <2>1, <3>1 DEF Occurs
    <3> QED BY <1>2, <1>3, <3>1, <3>2
  <2> QED BY <2>1 DEF Occurs, Slots
<1>5. /\ SlotOf(o, old) \in Slots(o) /\ inputs[o][SlotOf(o, old)] = old
  BY <1>4 DEF SlotOf
<1> QED BY <1>5 DEF Slots

LEMMA ReplaceNextStep ==
    ASSUME IndInv, ReplaceNext
    PROVE  IndInv'
<1> DEFINE t == todo[1]
<1>1. todo # <<>> /\ Head(todo).call = "replace" /\ UNCHANGED <<opVars, writeVars>>
  BY DEF ReplaceNext
<1>2. Head(todo) = t /\ 1 \in 1..Len(todo)
  <2>1. todo \in Seq(Call) /\ Len(todo) \in Nat
    BY LenProperties DEF IndInv
  <2> QED BY <1>1, <2>1, HeadTailProperties, EmptySeq
<1>3. /\ t \in Call /\ t.call = "replace" /\ t.old \in Varnode /\ t.vn \in Varnode
      /\ t.left \in [Op -> Nat] /\ InBank(t.vn)
  BY <1>1, <1>2, CallFacts
<1>4. PICK o \in Op :
        /\ t.left[o] > 0
        /\ todo' = Visited(t, o)
        /\ IF \A i \in Slots(o) : inputs[o][i] # t.old
           THEN UNCHANGED <<readVars, status>>
           ELSE \E c \in Varnode :
                  /\ Stored(EraseDescend(descend, t.old, o), t.vn, c)
                  /\ inputs' = [inputs EXCEPT ![o][SlotOf(o, t.old)] = c]
                  /\ descend' = AddDescend(EraseDescend(descend, t.old, o), c, o)
                  /\ status' = IF c = t.vn THEN status ELSE [status EXCEPT ![c] = "free"]
  BY <1>2 DEF ReplaceNext
<1> HIDE DEF t
<1>5. /\ ReadInv(inputs', descend', status')
      /\ status' \in [Varnode -> Status]
      /\ \A x \in Varnode : status[x] \in Banked => status'[x] \in Banked
      /\ \A x \in Varnode : status'[x] = "written" <=> status[x] = "written"
      /\ \A p \in Op : Len(inputs'[p]) = Len(inputs[p])
  <2>1. CASE \A i \in Slots(o) : inputs[o][i] # t.old
    <3>1. UNCHANGED <<inputs, descend, status>>
      BY <1>4, <2>1 DEF readVars
    <3>2. ReadInv(inputs, descend, status) /\ status \in [Varnode -> Status]
      BY DEF IndInv
    <3> QED BY <3>1, <3>2
  <2>2. CASE ~\A i \in Slots(o) : inputs[o][i] # t.old
    <3>1. PICK k : k = SlotOf(o, t.old)
      OBVIOUS
    <3>2. k \in 1..Len(inputs[o]) /\ inputs[o][k] = t.old
      BY <1>3, <2>2, <3>1, SlotOfFacts
    <3>3. PICK c \in Varnode :
            /\ Stored(EraseDescend(descend, inputs[o][k], o), t.vn, c)
            /\ inputs' = [inputs EXCEPT ![o][k] = c]
            /\ descend' = AddDescend(EraseDescend(descend, inputs[o][k], o), c, o)
            /\ status' = IF c = t.vn THEN status ELSE [status EXCEPT ![c] = "free"]
      BY <1>4, <2>2, <3>1, <3>2
    <3> QED BY <1>3, <3>2, <3>3, LinkStep
  <2> QED BY <2>1, <2>2
<1>6. todo' \in Seq(Call) /\ TodoOK'
  <2> DEFINE left == [t.left EXCEPT ![o] = @ - 1]
             u == [t EXCEPT !.left = left]
  <2>1. left \in [Op -> Nat]
    BY <1>3, <1>4
  <2>2. todo' = <<>> \/ todo' = <<u>>
    BY <1>4 DEF Visited
  <2> HIDE DEF left
  <2>3. t \in [call : {"replace"}, left : [Op -> Nat], old : Varnode, vn : Varnode]
    BY <1>3 DEF Call
  <2>4. u \in Call /\ u.call = "replace" /\ u.vn = t.vn
    BY <2>1, <2>3 DEF Call
  <2>5. CallOK(u, inputs', status')
    BY <1>3, <1>5, <2>4 DEF CallOK, InBank, Banked
  <2> HIDE DEF u
  <2> QED BY <2>2, <2>4, <2>5, OneCall, NothingToDo
<1>7. \A p \in Op : bank[p] = "new" => inputs'[p] = <<>>
  BY <1>5, StillBare DEF ReadInv
<1> QED BY <1>1, <1>5, <1>6, <1>7, ReadStep

\* Funcdata.OpDestroy, the calls still to be made apart.
LEMMA DestroyFacts ==
    ASSUME IndInv, NEW o \in Op, Destroy(o)
    PROVE  /\ ReadInv(inputs', descend', status') /\ WriteInv(output', def', status')
           /\ status' \in [Varnode -> Status]
           /\ bank' \in [Op -> {"new", "dead", "alive", "gone"}]
           /\ inBlock' \subseteq Op /\ BlockOpsAlive' /\ NewOpsBare'
           /\ \A x \in Varnode : status[x] \in Banked => status'[x] \in Banked
           /\ \A p \in Op : Len(inputs'[p]) = Len(inputs[p])
<1>1. /\ inBlock' = inBlock \ {o} /\ bank' = [bank EXCEPT ![o] = "gone"]
      /\ output' = Unwritten(o).output /\ def' = Unwritten(o).def /\ status' = Unwritten(o).status
      /\ inputs' = [inputs EXCEPT ![o] = [i \in 1..Len(inputs[o]) |-> Nil]]
      /\ descend' = Unread(o)
  BY DEF Destroy, Slots
<1>2. /\ WriteInv(output', def', status') /\ status' \in [Varnode -> Status]
      /\ \A x \in Varnode : status[x] \in Banked => status'[x] \in Banked
  BY <1>1, UnwrittenFacts
<1>3. Len(inputs[o]) \in Nat
  BY SlotFacts DEF IndInv, ReadInv
<1>4. /\ ReadInv(inputs', descend', status) /\ Len(inputs'[o]) = Len(inputs[o])
      /\ \A p \in Op \ {o} : inputs'[p] = inputs[p]
  BY <1>1, <1>3, Emptied
<1>5. ReadInv(inputs', descend', status')
  <2>1. PICK ins, d, st2 : ins = inputs' /\ d = descend' /\ st2 = status'
    OBVIOUS
  <2>2. ReadInv(ins, d, status) /\ \A x \in Varnode : status[x] \in Banked => st2[x] \in Banked
    BY <1>2, <1>4, <2>1
  <2>3. ReadInv(ins, d, st2)
    BY <2>2, Restatus
  <2> QED BY <2>1, <2>3
<1>6. /\ bank' \in [Op -> {"new", "dead", "alive", "gone"}]
      /\ inBlock' \subseteq Op /\ BlockOpsAlive' /\ NewOpsBare'
  BY <1>1, <1>4 DEF IndInv, BlockOpsAlive, NewOpsBare
<1> QED BY <1>2, <1>4, <1>5, <1>6

LEMMA OpDestroyStep ==
    ASSUME IndInv, todo = <<>>, NEW o \in Op, OpDestroy(o)
    PROVE  IndInv'
<1>1. Destroy(o) /\ todo' = <<>>
  BY DEF OpDestroy
<1> QED BY <1>1, DestroyFacts, NothingToDo DEF IndInv

LEMMA DestroyNextStep ==
    ASSUME IndInv, DestroyNext
    PROVE  IndInv'
<1> DEFINE o == todo[1].op
<1>1. todo # <<>> /\ Head(todo).call = "destroy"
  BY DEF DestroyNext
<1>2. Head(todo) = todo[1] /\ 1 \in 1..Len(todo)
  <2>1. todo \in Seq(Call) /\ Len(todo) \in Nat
    BY LenProperties DEF IndInv
  <2> QED BY <1>1, <2>1, HeadTailProperties, EmptySeq
<1>3. o \in Op
  BY <1>1, <1>2, CallFacts
<1>4. Destroy(o)
  BY <1>2 DEF DestroyNext
<1>5. PICK fed \in BoundedSeq(1..MaxInput, MaxInput) :
        /\ Range(fed) = {i \in Slots(o) : Followed(inputs[o][i])}
        /\ todo' = Tail(todo) \o [k \in DOMAIN fed |->
              [call |-> "destroy", op |-> def[inputs[o][fed[k]]], root |-> FALSE]]
  BY <1>2 DEF DestroyNext
<1> HIDE DEF o
<1>6. PICK n \in 0..MaxInput : fed \in [1..n -> 1..MaxInput]
  BY SMTT(60) DEF BoundedSeq, SeqOf
<1> DEFINE pushed == [k \in 1..n |->
                         [call |-> "destroy", op |-> def[inputs[o][fed[k]]], root |-> FALSE]]
<1>7. n \in Nat /\ todo' = Tail(todo) \o pushed
  BY <1>5, <1>6, SSAGraphAssumption
<1>8. ASSUME NEW k \in 1..n PROVE def[inputs[o][fed[k]]] \in Op
  <2>1. fed[k] \in Range(fed)
    BY <1>6 DEF Range
  <2>2. fed[k] \in 1..Len(inputs[o]) /\ Followed(inputs[o][fed[k]])
    BY <1>5, <2>1 DEF Slots
  <2>3. inputs[o][fed[k]] \in Varnode /\ status[inputs[o][fed[k]]] = "written"
    BY <1>3, <2>2, SlotFacts DEF IndInv, ReadInv, Followed, Slot
  <2> QED BY <2>3 DEF IndInv, WriteInv
<1>9. pushed \in [1..n -> Call] /\ \A k \in 1..n : pushed[k].call = "destroy"
  BY <1>8 DEF Call
<1> HIDE DEF pushed
<1>10. pushed \in Seq(Call) /\ Len(pushed) = n
  BY <1>7, <1>9, RebuildFacts
<1>11. /\ Tail(todo) \in Seq(Call) /\ Len(Tail(todo)) \in Nat
       /\ \A k \in 1..Len(Tail(todo)) : CallOK(Tail(todo)[k], inputs', status')
  BY <1>1, <1>3, <1>4, DestroyFacts, TailFacts
<1>12. /\ todo' \in Seq(Call) /\ Len(todo') = Len(Tail(todo)) + n
       /\ \A k \in 1..Len(todo') :
             todo'[k] = IF k <= Len(Tail(todo)) THEN Tail(todo)[k] ELSE pushed[k - Len(Tail(todo))]
  <2>1. PICK s1, s2 : s1 = Tail(todo) /\ s2 = pushed
    OBVIOUS
  <2>2. s1 \in Seq(Call) /\ s2 \in Seq(Call) /\ Len(s1) \in Nat /\ Len(s2) = n /\ n \in Nat
    BY <1>7, <1>10, <1>11, <2>1
  <2>3. /\ s1 \o s2 \in Seq(Call) /\ Len(s1 \o s2) = Len(s1) + n
        /\ \A k \in 1..Len(s1 \o s2) :
              (s1 \o s2)[k] = IF k <= Len(s1) THEN s1[k] ELSE s2[k - Len(s1)]
    BY ONLY ZenonT(60), <2>2, ConcatProperties
  <2> QED BY <1>7, <2>1, <2>3
<1>13. ASSUME NEW k \in 1..Len(todo') PROVE CallOK(todo'[k], inputs', status')
  <2>1. CASE k <= Len(Tail(todo))
    BY <1>11, <1>12, <2>1
  <2>2. CASE ~(k <= Len(Tail(todo)))
    <3>1. k - Len(Tail(todo)) \in 1..n /\ todo'[k] = pushed[k - Len(Tail(todo))]
      BY <1>7, <1>11, <1>12, <2>2
    <3>2. todo'[k].call = "destroy"
      BY <1>9, <3>1
    <3> QED BY <3>2 DEF CallOK
  <2> QED BY <2>1, <2>2
<1>14. TodoOK'
  BY <1>12, <1>13, TodoIntro
<1> QED BY <1>3, <1>4, <1>12, <1>14, DestroyFacts DEF IndInv

LEMMA InitInv == Init => IndInv
<1> SUFFICES ASSUME Init PROVE IndInv
  OBVIOUS
<1>1. ReadInv(inputs, descend, status)
  <2>1. inputs \in [Op -> Seq(Slot)] /\ \A o \in Op : inputs[o] = <<>> /\ Len(inputs[o]) = 0
    BY DEF Init
  <2>2. descend \in [Varnode -> [Op -> Nat]] /\ \A v \in Varnode, o \in Op : descend[v][o] = 0
    BY DEF Init
  <2>3. \A v \in Varnode, o \in Op : Cardinality(Occurs(inputs[o], v)) = 0
    BY <2>1, CountFacts
  <2> QED BY <2>1, <2>2, <2>3 DEF ReadInv
<1>2. WriteInv(output, def, status)
  BY DEF Init, WriteInv, Slot
<1>3. /\ status \in [Varnode -> Status]
      /\ bank \in [Op -> {"new", "dead", "alive", "gone"}]
      /\ inBlock \subseteq Op /\ BlockOpsAlive /\ NewOpsBare
  BY DEF Init, Status, BlockOpsAlive, NewOpsBare
<1>4. todo \in Seq(Call) /\ TodoOK
  BY DEF Init, TodoOK
<1> QED BY <1>1, <1>2, <1>3, <1>4 DEF IndInv

LEMMA NextInv ==
    ASSUME IndInv, [Next]_vars
    PROVE  IndInv'
<1>1. CASE todo = <<>> /\ Create
  BY <1>1, FlagStep, NewVarnodeOutStep, NewOpStep DEF Create
<1>2. CASE todo = <<>> /\ Write
  BY <1>2, OpUnsetOutputStep, OpSetOutputStep DEF Write
<1>3. CASE todo = <<>> /\ Read
  BY <1>3, OpUnsetInputStep, OpSetInputStep, OpInsertInputStep, OpSwapInputStep,
     OpSetAllInputStep, TotalReplaceStep DEF Read
<1>4. CASE todo = <<>> /\ Removal
  <2>1. CASE ClearDeadOps
    <3>1. CASE \E o \in Op : TRUE
      BY <1>4, <2>1, <3>1, BankStep
    <3>2. CASE Op = {}
      BY <1>4, <2>1, <3>2, NothingToDo
         DEF ClearDeadOps, IndInv, readVars, writeVars, BlockOpsAlive, NewOpsBare
    <3> QED BY <3>1, <3>2
  <2>2. CASE ~ClearDeadOps
    BY <1>4, <2>2, BankStep, OpDestroyStep, OpDestroyRecursiveStep, DestroyVarnodeRecursiveStep,
       FlagStep, ClearDeadVarnodesStep DEF Removal
  <2> QED BY <2>1, <2>2
<1>5. CASE SetNext
  BY <1>5, SetNextStep
<1>6. CASE ReplaceNext
  BY <1>6, ReplaceNextStep
<1>7. CASE DestroyNext
  BY <1>7, DestroyNextStep
<1>8. CASE UNCHANGED vars
  <2>1. UNCHANGED <<bank, inBlock, inputs, output, status, def, descend, todo>>
    BY <1>8 DEF vars
  <2> QED BY <2>1 DEF IndInv, BlockOpsAlive, NewOpsBare, TodoOK, Slots, InBank
<1> QED BY <1>1, <1>2, <1>3, <1>4, <1>5, <1>6, <1>7, <1>8 DEF Next

\* The inductive invariant holds in every reachable state.
LEMMA Invariance == Spec => []IndInv
  BY InitInv, NextInv, PTL DEF Spec

-----------------------------------------------------------------------------
\* TypeOK: the lists of readers never go negative and the calls an operation still
\* has to make name ops and varnodes that exist.
THEOREM SSATypeCorrect == Spec => []TypeOK
<1>1. IndInv => TypeOK
  BY DEF IndInv, TypeOK, ReadInv, WriteInv, Slot, Status
<1> QED BY <1>1, Invariance, PTL

\* DescendMirrorsInputs: whatever sequence of OpSetInput, OpSwapInput, TotalReplace,
\* replaceInputs and OpDestroy ran, a varnode's list of readers has one entry for every slot
\* that reads it.
THEOREM ReadsMirrored == Spec => []DescendMirrorsInputs
<1>1. IndInv => DescendMirrorsInputs
  BY DEF IndInv, ReadInv, DescendMirrorsInputs, Occurs, Slots
<1> QED BY <1>1, Invariance, PTL

\* DefMirrorsOutput: OpSetOutput, OpUnsetOutput and OpDestroy leave output, def and
\* the written flag in agreement.
THEOREM WritesMirrored == Spec => []DefMirrorsOutput
<1>1. IndInv => DefMirrorsOutput
  BY DEF IndInv, WriteInv, DefMirrorsOutput
<1> QED BY <1>1, Invariance, PTL

\* LinksMirrored: both together.
THEOREM Mirrored == Spec => []LinksMirrored
<1>1. DescendMirrorsInputs /\ DefMirrorsOutput => LinksMirrored
  BY DEF LinksMirrored
<1> QED BY <1>1, ReadsMirrored, WritesMirrored, PTL

\* ConstantReadOnce: OpSetInput's copying keeps every constant but a spacebase to a
\* single slot, also half-way through a swap or a replacement.
THEOREM ConstantsUnshared == Spec => []ConstantReadOnce
<1>1. IndInv => ConstantReadOnce
  BY DEF IndInv, ReadInv, ConstantReadOnce, Slots, Shareless
<1> QED BY <1>1, Invariance, PTL

\* LinksInBank: no clean-up destroys a varnode that an op still reads or writes.
THEOREM LinksStayInBank == Spec => []LinksInBank
<1>1. IndInv => LinksInBank
  <2> SUFFICES ASSUME IndInv, NEW o \in Op
               PROVE  /\ \A i \in Slots(o) : inputs[o][i] # Nil => InBank(inputs[o][i])
                      /\ output[o] # Nil => InBank(output[o])
    BY DEF LinksInBank
  <2>1. \A i \in Slots(o) : inputs[o][i] # Nil => InBank(inputs[o][i])
    BY DEF IndInv, ReadInv, Slots, InBank, Banked
  <2>2. ASSUME output[o] # Nil PROVE InBank(output[o])
    <3>1. output[o] \in Varnode /\ def[output[o]] = o /\ o # Nil
      BY <2>2, SSAGraphAssumption DEF IndInv, WriteInv, Slot
    <3> QED BY <3>1 DEF IndInv, WriteInv, InBank
  <2> QED BY <2>1, <2>2
<1> QED BY <1>1, Invariance, PTL

\* BlockOpsAlive: a destroyed or uninserted op is never left in a block.
THEOREM BlocksHoldAliveOps == Spec => []BlockOpsAlive
<1>1. IndInv => BlockOpsAlive
  BY DEF IndInv
<1> QED BY <1>1, Invariance, PTL

\* NothingLinkedDies: both together.
THEOREM LinkedLive == Spec => []NothingLinkedDies
<1>1. LinksInBank /\ BlockOpsAlive => NothingLinkedDies
  BY DEF NothingLinkedDies
<1> QED BY <1>1, LinksStayInBank, BlocksHoldAliveOps, PTL

-----------------------------------------------------------------------------
(***************************************************************************)
(* What the operations that make several calls promise once the last call   *)
(* is made: TotalReplace leaves no reader behind, OpDestroyRecursive never   *)
(* destroys an op that is still read.  CallsInv says how far each of them    *)
(* has come; it leans on the mirrored links proved above.                    *)
(***************************************************************************)
\* The calls under way are all of one operation; TotalReplace is one call.
OneOperation ==
    \A k \in 1..Len(todo) : /\ todo[k].call = todo[1].call
                            /\ todo[k].call = "replace" => Len(todo) = 1

\* The snapshot TotalReplace has left to visit is what still reads the old varnode.
SnapshotInv ==
    todo # <<>> /\ todo[1].call = "replace" =>
        /\ InBank(todo[1].old)
        /\ todo[1].old # todo[1].vn =>
              \A o \in Op : todo[1].left[o] = descend[todo[1].old][o]

CallsInv == OneOperation /\ SnapshotInv /\ QueuedUnread

-----------------------------------------------------------------------------

\* The list of calls, unless it is empty
LEMMA CallList ==
    ASSUME IndInv
    PROVE  /\ todo \in Seq(Call) /\ Len(todo) \in Nat /\ DOMAIN todo = 1..Len(todo)
           /\ todo # <<>> => 1 \in 1..Len(todo) /\ Head(todo) = todo[1]
                             /\ Tail(todo) \in Seq(Call) /\ Len(Tail(todo)) = Len(todo) - 1
                             /\ \A k \in 1..(Len(todo) - 1) : Tail(todo)[k] = todo[k + 1]
<1>1. todo \in Seq(Call) /\ Len(todo) \in Nat /\ DOMAIN todo = 1..Len(todo)
  BY LenProperties DEF IndInv
<1>2. ASSUME todo # <<>>
      PROVE  /\ 1 \in 1..Len(todo) /\ Head(todo) = todo[1]
             /\ Tail(todo) \in Seq(Call) /\ Len(Tail(todo)) = Len(todo) - 1
             /\ \A k \in 1..(Len(todo) - 1) : Tail(todo)[k] = todo[k + 1]
  <2>1. Len(todo) # 0
    BY <1>1, <1>2, EmptySeq
  <2>2. Tail(todo) \in Seq(Call) /\ Len(Tail(todo)) = Len(todo) - 1
        /\ \A k \in 1..Len(Tail(todo)) : Tail(todo)[k] = todo[k + 1]
    BY <1>1, <1>2, HeadTailProperties
  <2>3. Head(todo) = todo[1]
    BY <1>1, <1>2, HeadTailProperties
  <2> QED BY <1>1, <2>1, <2>2, <2>3
<1> QED BY <1>1, <1>2

\* Nothing is promised of an empty list, of calls of OpSetInput only, or of roots.
LEMMA PlainCalls ==
    ASSUME IndInv', NEW c \in {"set", "destroy"},
           \A k \in 1..Len(todo') : todo'[k].call = c /\ (c = "destroy" => todo'[k].root)
    PROVE  CallsInv'
<1>1. todo' \in Seq(Call) /\ Len(todo') \in Nat /\ DOMAIN todo' = 1..Len(todo')
  BY LenProperties DEF IndInv
<1>2. todo' # <<>> => 1 \in 1..Len(todo')
  BY <1>1, EmptySeq
<1>3. \A k \in 1..Len(todo') : 1 \in 1..Len(todo')
  BY <1>1
<1>4. OneOperation'
  BY <1>3 DEF OneOperation
<1>5. SnapshotInv'
  BY <1>2 DEF SnapshotInv
<1>6. QueuedUnread'
  BY <1>1 DEF QueuedUnread
<1> QED BY <1>4, <1>5, <1>6 DEF CallsInv

LEMMA ReplaceNextCalls ==
    ASSUME IndInv, IndInv', CallsInv, ReplaceNext
    PROVE  /\ CallsInv'
           /\ todo' = <<>> /\ todo[1].old # todo[1].vn => \A p \in Op : descend'[todo[1].old][p] = 0
<1> DEFINE t == todo[1]
<1>1. todo # <<>> /\ Head(todo) = t /\ t.call = "replace" /\ 1 \in 1..Len(todo)
  BY CallList DEF ReplaceNext
<1>2. /\ t \in Call /\ t.old \in Varnode /\ t.vn \in Varnode /\ t.left \in [Op -> Nat] /\ InBank(t.vn)
  BY <1>1, CallFacts
<1>3. PICK o \in Op :
        /\ t.left[o] > 0
        /\ todo' = Visited(t, o)
        /\ IF \A i \in Slots(o) : inputs[o][i] # t.old
           THEN UNCHANGED <<readVars, status>>
           ELSE \E c \in Varnode :
                  /\ Stored(EraseDescend(descend, t.old, o), t.vn, c)
                  /\ inputs' = [inputs EXCEPT ![o][SlotOf(o, t.old)] = c]
                  /\ descend' = AddDescend(EraseDescend(descend, t.old, o), c, o)
                  /\ status' = IF c = t.vn THEN status ELSE [status EXCEPT ![c] = "free"]
  BY <1>1 DEF ReplaceNext
<1>4. InBank(t.old) /\ (t.old # t.vn => \A p \in Op : t.left[p] = descend[t.old][p])
  BY <1>1 DEF CallsInv, SnapshotInv
<1> DEFINE left == [t.left EXCEPT ![o] = @ - 1]
           u == [t EXCEPT !.left = left]
<1>5. t \in [call : {"replace"}, left : [Op -> Nat], old : Varnode, vn : Varnode]
  BY <1>1, <1>2 DEF Call
<1> HIDE DEF t
<1>6. left \in [Op -> Nat] /\ \A p \in Op : left[p] = IF p = o THEN t.left[p] - 1 ELSE t.left[p]
  BY <1>2, <1>3
<1>7. todo' = IF \A p \in Op : left[p] = 0 THEN <<>> ELSE <<u>>
  BY <1>3 DEF Visited
<1> HIDE DEF left
<1>8. u \in Call /\ u.call = "replace" /\ u.old = t.old /\ u.vn = t.vn /\ u.left = left
  BY <1>5, <1>6 DEF Call
<1> HIDE DEF u
<1>9. /\ status'[t.old] \in Banked
      /\ t.old # t.vn => \A p \in Op : left[p] = descend'[t.old][p]
  <2>0. /\ descend \in [Varnode -> [Op -> Nat]] /\ status \in [Varnode -> Status]
        /\ ReadInv(inputs, descend, status)
    BY DEF IndInv, ReadInv
  <2>1. CASE \A i \in Slots(o) : inputs[o][i] # t.old
    <3>1. UNCHANGED <<descend, status>>
      BY <1>3, <2>1 DEF readVars
    <3>2. descend[t.old][o] = 0
      BY <1>2, <2>0, <2>1, UnreadFacts DEF Slots
    <3>3. t.old = t.vn
      BY <1>3, <1>4, <3>2
    <3> QED BY <1>4, <3>1, <3>3 DEF InBank, Banked
  <2>2. CASE ~\A i \in Slots(o) : inputs[o][i] # t.old
    <3>1. PICK c \in Varnode :
            /\ Stored(EraseDescend(descend, t.old, o), t.vn, c)
            /\ descend' = AddDescend(EraseDescend(descend, t.old, o), c, o)
            /\ status' = IF c = t.vn THEN status ELSE [status EXCEPT ![c] = "free"]
      BY <1>3, <2>2
    <3>2. c = t.vn \/ status[c] = "new"
      BY <3>1 DEF Stored
    <3>3. t.old # t.vn => c # t.old
      BY <1>4, <3>2 DEF InBank
    <3>4. status'[t.old] \in Banked
      BY <1>2, <1>4, <2>0, <3>1 DEF InBank, Banked
    <3>5. t.old # Nil /\ descend[t.old][o] \in Nat /\ descend[t.old][o] # 0
      <4>1. PICK v \in Varnode : v = t.old
        BY <1>2
      <4>2. v # Nil /\ descend[v][o] \in Nat
        BY <2>0, SSAGraphAssumption
      <4>3. PICK i \in 1..Len(inputs[o]) : inputs[o][i] = v
        BY <2>2, <4>1 DEF Slots
      <4>4. descend[v][o] # 0
        BY <2>0, <4>3, UnreadFacts
      <4> QED BY <4>1, <4>2, <4>4
    <3>6. ASSUME t.old # t.vn, NEW p \in Op PROVE left[p] = descend'[t.old][p]
      <4> DEFINE e == EraseDescend(descend, t.old, o)
      <4>1. e = [descend EXCEPT ![t.old][o] = IF @ = 0 THEN 0 ELSE @ - 1]
        BY <3>5 DEF EraseDescend
      <4>2. e \in [Varnode -> [Op -> Nat]]
            /\ e[t.old][p] = IF p = o THEN descend[t.old][p] - 1 ELSE descend[t.old][p]
        <5>1. descend[t.old] \in [Op -> Nat]
          BY <1>2, <2>0
        <5>2. PICK m \in Nat : m = descend[t.old][o] - 1
          BY <3>5
        <5>3. e = [descend EXCEPT ![t.old] = [descend[t.old] EXCEPT ![o] = m]]
          BY <1>2, <2>0, <3>5, <4>1, <5>2
        <5>4. [descend[t.old] EXCEPT ![o] = m] \in [Op -> Nat]
          BY <5>1
        <5> HIDE DEF e
        <5>5. e \in [Varnode -> [Op -> Nat]] /\ e[t.old] = [descend[t.old] EXCEPT ![o] = m]
          BY <1>2, <2>0, <5>3, <5>4
        <5> QED BY <5>1, <5>2, <5>5
      <4>3. descend' = [e EXCEPT ![c][o] = @ + 1]
        BY <3>1 DEF AddDescend
      <4> HIDE DEF e
      <4>4. descend'[t.old][p] = e[t.old][p]
        BY <1>2, <3>3, <3>6, <4>2, <4>3
      <4> QED BY <1>4, <1>6, <3>6, <4>2, <4>4
    <3> QED BY <3>4, <3>6
  <2> QED BY <2>1, <2>2
<1>10. CASE \A p \in Op : left[p] = 0
  <2>1. todo' = <<>> /\ Len(todo') = 0
    BY <1>7, <1>10
  <2>2. CallsInv'
    <3>1. OneOperation' /\ SnapshotInv'
      BY <2>1 DEF OneOperation, SnapshotInv
    <3>2. DOMAIN todo' = {}
      BY <2>1
    <3> QED BY <3>1, <3>2 DEF CallsInv, QueuedUnread
  <2> QED BY <1>9, <1>10, <2>2 DEF t
<1>11. CASE ~\A p \in Op : left[p] = 0
  <2>1. todo' = <<u>>
    BY <1>7, <1>11
  <2>2. todo' # <<>> /\ Len(todo') = 1 /\ DOMAIN todo' = {1} /\ todo'[1] = u
    BY <1>8, <2>1
  <2>3. OneOperation'
    BY <1>8, <2>2 DEF OneOperation
  <2>4. SnapshotInv'
    BY <1>8, <1>9, <2>2 DEF SnapshotInv, InBank, Banked
  <2>5. QueuedUnread'
    BY <1>8, <2>2 DEF QueuedUnread
  <2> QED BY <2>2, <2>3, <2>4, <2>5 DEF CallsInv
<1> QED BY <1>10, <1>11

\* An op that alone feeds o: its output has no reader left once o is destroyed.
LEMMA FedFacts ==
    ASSUME IndInv, NEW o \in Op, NEW i \in 1..Len(inputs[o]), Followed(inputs[o][i])
    PROVE  /\ inputs[o][i] \in Varnode /\ def[inputs[o][i]] \in Op
           /\ output[def[inputs[o][i]]] = inputs[o][i] /\ inputs[o][i] \notin AutoLive
           /\ \A p \in Op : p # o => descend[inputs[o][i]][p] = 0
<1> DEFINE v == inputs[o][i]
<1>1. v \in Varnode /\ status[v] = "written" /\ v \notin AutoLive /\ LoneDescend(v)
  BY SlotFacts DEF IndInv, ReadInv, Followed, Slot
<1>2. inputs[o][i] = v
  OBVIOUS
<1> HIDE DEF v
<1>3. def[v] \in Op /\ output[def[v]] = v
  BY <1>1 DEF IndInv, WriteInv
<1>4. descend[v][o] # 0
  BY <1>1, <1>2, UnreadFacts DEF IndInv
<1>5. PICK q \in Op : descend[v] = [p \in Op |-> IF p = q THEN 1 ELSE 0]
  BY <1>1 DEF LoneDescend
<1>6. \A p \in Op : p # o => descend[v][p] = 0
  BY <1>4, <1>5
<1> QED BY <1>1, <1>3, <1>6 DEF v

LEMMA DestroyNextCalls ==
    ASSUME IndInv, IndInv', CallsInv, DestroyNext
    PROVE  CallsInv' /\ todo[1].call = "destroy"
<1> DEFINE o == todo[1].op
           L == Len(todo) - 1
<1>1. /\ todo # <<>> /\ Head(todo) = todo[1] /\ todo[1].call = "destroy" /\ 1 \in 1..Len(todo)
      /\ L \in Nat /\ Tail(todo) \in Seq(Call) /\ Len(Tail(todo)) = L
      /\ \A k \in 1..L : Tail(todo)[k] = todo[k + 1] /\ k + 1 \in 1..Len(todo)
  BY CallList DEF DestroyNext
<1>2. o \in Op /\ Destroy(o)
  BY <1>1, CallFacts DEF DestroyNext
<1>3. PICK fed \in BoundedSeq(1..MaxInput, MaxInput) :
        /\ Range(fed) = {i \in Slots(o) : Followed(inputs[o][i])}
        /\ todo' = Tail(todo) \o [k \in DOMAIN fed |->
              [call |-> "destroy", op |-> def[inputs[o][fed[k]]], root |-> FALSE]]
  BY <1>1 DEF DestroyNext
<1>4. PICK n \in 0..MaxInput : fed \in [1..n -> 1..MaxInput]
  BY SMTT(60) DEF BoundedSeq, SeqOf
<1>5. PICK O : O = o
  OBVIOUS
<1> HIDE DEF o
<1> DEFINE pushed == [k \in 1..n |->
                         [call |-> "destroy", op |-> def[inputs[O][fed[k]]], root |-> FALSE]]
<1>6. n \in Nat /\ todo' = Tail(todo) \o pushed
  BY <1>3, <1>4, <1>5, SSAGraphAssumption
<1>7. ASSUME NEW k \in 1..n
      PROVE  fed[k] \in 1..Len(inputs[O]) /\ Followed(inputs[O][fed[k]])
  <2>1. fed[k] \in Range(fed)
    BY <1>4 DEF Range
  <2> QED BY <1>3, <1>5, <2>1 DEF Slots
<1>8. ASSUME NEW k \in 1..n
      PROVE  LET v == inputs[O][fed[k]]
             IN  /\ pushed[k] \in Call /\ pushed[k].call = "destroy" /\ pushed[k].op = def[v]
                 /\ v \in Varnode /\ def[v] \in Op /\ output[def[v]] = v /\ v \notin AutoLive
                 /\ \A p \in Op : p # O => descend[v][p] = 0
  <2>1. O \in Op
    BY <1>2, <1>5
  <2>2. LET v == inputs[O][fed[k]]
        IN  /\ v \in Varnode /\ def[v] \in Op /\ output[def[v]] = v /\ v \notin AutoLive
            /\ \A p \in Op : p # O => descend[v][p] = 0
    BY <1>7, <2>1, FedFacts
  <2> QED BY <2>2 DEF Call
<1>9. pushed \in Seq(Call) /\ Len(pushed) = n
  <2>1. pushed \in [1..n -> Call]
    BY <1>8
  <2> HIDE DEF pushed
  <2> QED BY <1>6, <2>1, RebuildFacts
<1> HIDE DEF pushed
<1>10. /\ Len(todo') = L + n
       /\ \A k \in 1..Len(todo') : todo'[k] = IF k <= L THEN Tail(todo)[k] ELSE pushed[k - L]
  <2>1. PICK s1, s2, m : s1 = Tail(todo) /\ s2 = pushed /\ m = L
    OBVIOUS
  <2>2. s1 \in Seq(Call) /\ s2 \in Seq(Call) /\ Len(s1) = m /\ m \in Nat /\ Len(s2) = n /\ n \in Nat
    BY <1>1, <1>6, <1>9, <2>1
  <2>3. /\ Len(s1 \o s2) = m + n
        /\ \A k \in 1..Len(s1 \o s2) : (s1 \o s2)[k] = IF k <= m THEN s1[k] ELSE s2[k - m]
    BY ONLY ZenonT(60), <2>2, ConcatProperties
  <2> QED BY <1>6, <2>1, <2>3
<1>11. PICK m \in Nat : m = L
  BY <1>1
<1> HIDE DEF L
<1>12. ASSUME NEW k \in 1..Len(todo')
       PROVE  \/ k <= m /\ k + 1 \in 1..Len(todo) /\ todo'[k] = todo[k + 1]
              \/ ~(k <= m) /\ k - m \in 1..n /\ todo'[k] = pushed[k - m]
  BY <1>1, <1>6, <1>10, <1>11
<1>13. \A k \in 1..Len(todo) : todo[k].call = "destroy"
  BY <1>1 DEF CallsInv, OneOperation
<1>14. \A k \in 1..Len(todo') : todo'[k].call = "destroy"
  BY <1>8, <1>12, <1>13
<1>15. OneOperation' /\ SnapshotInv'
  <2>1. todo' # <<>> => 1 \in 1..Len(todo')
    BY LenProperties, EmptySeq DEF IndInv
  <2>2. \A k \in 1..Len(todo') : 1 \in 1..Len(todo')
    <3>1. Len(todo') \in Nat
      BY LenProperties DEF IndInv
    <3> QED BY <3>1
  <2> QED BY <1>14, <2>1, <2>2 DEF OneOperation, SnapshotInv
<1>16. /\ \A q \in Op : output'[q] = IF q = O THEN Nil ELSE output[q]
       /\ \A v \in Varnode, q \in Op : descend'[v][q] = IF q = O THEN 0 ELSE descend[v][q]
  <2>1. output' = Unwritten(O).output /\ descend' = Unread(O) /\ O \in Op
    BY <1>2, <1>5 DEF Destroy
  <2>2. output' = [output EXCEPT ![O] = Nil]
    BY <2>1 DEF Unwritten
  <2>3. \A q \in Op : output'[q] = IF q = O THEN Nil ELSE output[q]
    BY <2>2 DEF IndInv, WriteInv
  <2>4. \A v \in Varnode, q \in Op : descend'[v][q] = IF q = O THEN 0 ELSE descend[v][q]
    BY <2>1, AllUnread
  <2> QED BY <2>3, <2>4
<1>17. ASSUME NEW k \in 1..Len(todo'), ~todo'[k].root, output'[todo'[k].op] # Nil
       PROVE  /\ \A q \in Op : descend'[output'[todo'[k].op]][q] > 0
                                 => \E j \in 1..(k - 1) : todo'[j].op = q
              /\ output'[todo'[k].op] \notin AutoLive
  <2>1. CASE k <= m /\ k + 1 \in 1..Len(todo) /\ todo'[k] = todo[k + 1]
    <3>1. PICK q \in Op : q = todo'[k].op
      BY <1>13, <2>1, CallFacts
    <3>2. q # O /\ output'[q] = output[q] /\ output[q] # Nil
      BY <1>16, <1>17, <3>1
    <3>3. k + 1 \in DOMAIN todo /\ todo[k + 1].call = "destroy" /\ ~todo[k + 1].root
          /\ todo[k + 1].op = q
      BY <1>13, <1>17, <2>1, <3>1, CallList
    <3>4. /\ \A p \in Op : descend[output[q]][p] > 0
                             => \E j \in 1..(k + 1 - 1) : todo[j].op = p
          /\ output[q] \notin AutoLive
      BY <3>2, <3>3 DEF CallsInv, QueuedUnread
    <3>5. ASSUME NEW p \in Op, descend'[output[q]][p] > 0
          PROVE  \E j \in 1..(k - 1) : todo'[j].op = p
      <4>1. output[q] \in Varnode
        BY <3>2 DEF IndInv, WriteInv, Slot
      <4>2. p # O /\ descend[output[q]][p] > 0
        BY <1>16, <3>5, <4>1
      <4>3. PICK j \in 1..(k + 1 - 1) : todo[j].op = p
        BY <3>4, <4>2
      <4>4. j # 1
        BY <1>5, <4>2, <4>3 DEF o
      <4>5. k \in Nat /\ Len(todo') \in Nat
        BY LenProperties DEF IndInv
      <4>6. j - 1 \in 1..(k - 1) /\ j - 1 \in 1..Len(todo') /\ j - 1 <= m /\ j - 1 + 1 = j
        BY <2>1, <4>3, <4>4, <4>5
      <4>7. todo'[j - 1] = todo[j]
        BY <1>12, <4>6
      <4> QED BY <4>3, <4>6, <4>7
    <3> QED BY <3>1, <3>2, <3>4, <3>5
  <2>2. CASE ~(k <= m) /\ k - m \in 1..n /\ todo'[k] = pushed[k - m]
    <3>1. PICK v \in Varnode : /\ todo'[k].op = def[v] /\ def[v] \in Op /\ output[def[v]] = v
                               /\ v \notin AutoLive
                               /\ \A p \in Op : p # O => descend[v][p] = 0
      BY <1>8, <2>2
    <3>2. output'[todo'[k].op] = v
      BY <1>16, <1>17, <3>1
    <3>3. \A p \in Op : ~(descend'[v][p] > 0)
      BY <1>16, <3>1
    <3> QED BY <3>1, <3>2, <3>3
  <2> QED BY <1>12, <2>1, <2>2
<1>18. QueuedUnread'
  <2>1. DOMAIN todo' = 1..Len(todo')
    BY LenProperties DEF IndInv
  <2> QED BY <1>17, <2>1 DEF QueuedUnread
<1> QED BY <1>1, <1>15, <1>18 DEF CallsInv

LEMMA SetNextCalls ==
    ASSUME IndInv, IndInv', CallsInv, SetNext
    PROVE  CallsInv' /\ todo[1].call = "set"
<1>1. todo # <<>> /\ todo[1].call = "set" /\ 1 \in 1..Len(todo) /\ todo' = Tail(todo)
  BY CallList DEF SetNext
<1>2. \A k \in 1..Len(todo) : todo[k].call = "set"
  BY <1>1 DEF CallsInv, OneOperation
<1>3. \A k \in 1..Len(todo') : todo'[k].call = "set"
  <2>1. /\ Len(todo) \in Nat /\ Len(Tail(todo)) = Len(todo) - 1
        /\ \A k \in 1..(Len(todo) - 1) : Tail(todo)[k] = todo[k + 1]
    BY <1>1, CallList
  <2> QED BY <1>1, <1>2, <2>1
<1>4. CallsInv'
  BY <1>3, PlainCalls
<1> QED BY <1>1, <1>4

\* What an operation starts with: calls of OpSetInput, one root to destroy, one
\* replacement whose snapshot is the list of readers, or nothing.
LEMMA StartCalls ==
    ASSUME IndInv, IndInv', todo = <<>>, Create \/ Write \/ Read \/ Removal
    PROVE  CallsInv'
<1>1. ASSUME todo' = <<>> PROVE CallsInv'
  <2>1. \A k \in 1..Len(todo') : todo'[k].call = "set"
    BY <1>1
  <2> QED BY <2>1, PlainCalls
<1>2. ASSUME NEW t, t.call = "destroy", t.root, todo' = <<t>> PROVE CallsInv'
  <2>1. \A k \in 1..Len(todo') : todo'[k].call = "destroy" /\ todo'[k].root
    BY <1>2
  <2> QED BY <2>1, PlainCalls
<1>3. ASSUME NEW o \in Op, NEW v \in Varnode, NEW i \in 1..MaxInput, OpInsertInput(o, v, i)
      PROVE  CallsInv'
  <2>1. todo' = <<[call |-> "set", op |-> o, vn |-> v, slot |-> i]>>
    BY <1>3 DEF OpInsertInput
  <2>2. \A k \in 1..Len(todo') : todo'[k].call = "set"
    BY <2>1
  <2> QED BY <2>2, PlainCalls
<1>4. ASSUME NEW o \in Op, NEW i \in 1..MaxInput, NEW j \in 1..MaxInput, OpSwapInput(o, i, j)
      PROVE  CallsInv'
  <2>1. todo' = <<[call |-> "set", op |-> o, vn |-> inputs[o][j], slot |-> i],
                  [call |-> "set", op |-> o, vn |-> inputs[o][i], slot |-> j]>>
    BY <1>4 DEF OpSwapInput
  <2>2. \A k \in 1..Len(todo') : todo'[k].call = "set"
    BY <2>1
  <2> QED BY <2>2, PlainCalls
<1>5. ASSUME NEW o \in Op, NEW vs \in BoundedSeq(Varnode, MaxInput), OpSetAllInput(o, vs)
      PROVE  CallsInv'
  <2>1. todo' = [i \in DOMAIN vs |-> [call |-> "set", op |-> o, vn |-> vs[i], slot |-> i]]
    BY <1>5 DEF OpSetAllInput
  <2>2. DOMAIN todo' = 1..Len(todo')
    BY LenProperties DEF IndInv
  <2>3. \A k \in 1..Len(todo') : todo'[k].call = "set"
    BY <2>1, <2>2
  <2> QED BY <2>3, PlainCalls
<1>6. ASSUME NEW old \in Varnode, NEW v \in Varnode, TotalReplace(old, v) PROVE CallsInv'
  <2>1. PICK t : t = [call |-> "replace", left |-> descend[old], old |-> old, vn |-> v]
    OBVIOUS
  <2>2. todo' = <<t>> /\ InBank(old) /\ UNCHANGED <<descend, status>>
    BY <1>6, <2>1 DEF TotalReplace, readVars
  <2>3. todo' # <<>> /\ Len(todo') = 1 /\ DOMAIN todo' = {1} /\ todo'[1] = t
    BY <2>2
  <2>4. t.call = "replace" /\ t.left = descend[old] /\ t.old = old
    BY <2>1
  <2>5. OneOperation'
    BY <2>3, <2>4 DEF OneOperation
  <2>6. SnapshotInv'
    BY <2>2, <2>3, <2>4 DEF SnapshotInv, InBank
  <2>7. QueuedUnread'
    BY <2>3, <2>4 DEF QueuedUnread
  <2> QED BY <2>5, <2>6, <2>7 DEF CallsInv
<1>7. CASE Create
  <2>1. todo' = <<>>
    BY <1>7 DEF Create, NewVarnode, SetInputVarnode, NewVarnodeOut, NewOp
  <2> QED BY <1>1, <2>1
<1>8. CASE Write
  <2>1. todo' = <<>>
    BY <1>8 DEF Write, OpUnsetOutput, OpSetOutput
  <2> QED BY <1>1, <2>1
<1>9. CASE Read
  <2>1. ASSUME NEW o \in Op, NEW i \in 1..MaxInput, OpUnsetInput(o, i) \/ OpRemoveInput(o, i)
        PROVE  todo' = <<>>
    BY <2>1 DEF OpUnsetInput, OpRemoveInput
  <2>2. ASSUME NEW o \in Op, NEW i \in 1..MaxInput, NEW v \in Varnode, OpSetInput(o, v, i)
        PROVE  todo' = <<>>
    BY <2>2 DEF OpSetInput
  <2> QED BY <1>1, <1>3, <1>4, <1>5, <1>6, <1>9, <2>1, <2>2 DEF Read
<1>10. CASE Removal
  <2>1. ASSUME NEW o \in Op, OpInsert(o) \/ OpUninsert(o) \/ OpDestroy(o) PROVE todo' = <<>>
    BY <2>1 DEF OpInsert, OpUninsert, OpDestroy
  <2>2. ASSUME NEW o \in Op, OpDestroyRecursive(o) PROVE CallsInv'
    <3>1. PICK t : t = [call |-> "destroy", op |-> o, root |-> TRUE]
      OBVIOUS
    <3>2. t.call = "destroy" /\ t.root /\ todo' = <<t>>
      BY <2>2, <3>1 DEF OpDestroyRecursive
    <3> QED BY <1>2, <3>2
  <2>3. ASSUME NEW v \in Varnode, DestroyVarnodeRecursive(v) PROVE CallsInv'
    <3>1. PICK t : t = [call |-> "destroy", op |-> def[v], root |-> TRUE]
      OBVIOUS
    <3>2. t.call = "destroy" /\ t.root /\ (todo' = <<t>> \/ todo' = <<>>)
      BY <2>3, <3>1 DEF DestroyVarnodeRecursive
    <3> QED BY <1>1, <1>2, <3>2
  <2>4. ASSUME NEW v \in Varnode, DeleteVarnode(v) PROVE todo' = <<>>
    BY <2>4 DEF DeleteVarnode
  <2>5. ASSUME ClearDeadVarnodes \/ ClearDeadOps PROVE todo' = <<>>
    BY <2>5 DEF ClearDeadVarnodes, ClearDeadOps
  <2> QED BY <1>1, <1>10, <2>1, <2>2, <2>3, <2>4, <2>5 DEF Removal
<1> QED BY <1>7, <1>8, <1>9, <1>10

LEMMA InitCalls == Init => CallsInv
<1> SUFFICES ASSUME Init PROVE CallsInv
  OBVIOUS
<1>1. todo = <<>> /\ Len(todo) = 0 /\ DOMAIN todo = {}
  BY DEF Init
<1> QED BY <1>1 DEF CallsInv, OneOperation, SnapshotInv, QueuedUnread

LEMMA NextCalls ==
    ASSUME IndInv, CallsInv, [Next]_vars
    PROVE  CallsInv'
<1>1. IndInv'
  BY NextInv
<1>2. CASE todo = <<>> /\ (Create \/ Write \/ Read \/ Removal)
  BY <1>1, <1>2, StartCalls
<1>3. CASE SetNext
  BY <1>1, <1>3, SetNextCalls
<1>4. CASE ReplaceNext
  BY <1>1, <1>4, ReplaceNextCalls
<1>5. CASE DestroyNext
  BY <1>1, <1>5, DestroyNextCalls
<1>6. CASE UNCHANGED vars
  BY <1>6 DEF vars, CallsInv, OneOperation, SnapshotInv, QueuedUnread, InBank
<1> QED BY <1>2, <1>3, <1>4, <1>5, <1>6 DEF Next

\* Both inductive invariants hold in every reachable state.
LEMMA CallsInvariance == Spec => [](IndInv /\ CallsInv)
<1>1. Init => IndInv /\ CallsInv
  BY InitInv, InitCalls
<1>2. IndInv /\ CallsInv /\ [Next]_vars => (IndInv /\ CallsInv)'
  BY NextInv, NextCalls
<1> QED BY <1>1, <1>2, PTL DEF Spec

-----------------------------------------------------------------------------
\* QueuedUnread: OpDestroyRecursive's worklist follows an input only to an op that is
\* its lone reader's, so what it destroys is read by nothing but ops destroyed earlier.
THEOREM QueueHoldsUnread == Spec => []QueuedUnread
<1>1. IndInv /\ CallsInv => QueuedUnread
  BY DEF CallsInv
<1> QED BY <1>1, CallsInvariance, PTL

\* ReplacesAll: TotalReplace visits the readers from a snapshot while OpSetInput edits
\* the list it was taken from; after the last visit nobody reads the old varnode.
THEOREM ReplaceLeavesNoReader == Spec => ReplacesAll
<1> DEFINE Done == todo # <<>> /\ todo' = <<>> =>
                     LET t == Head(todo)
                     IN  t.call = "replace" /\ t.old # t.vn => \A o \in Op : descend'[t.old][o] = 0
<1>1. ASSUME IndInv, CallsInv, [Next]_vars PROVE [Done]_vars
  <2>1. IndInv'
    BY <1>1, NextInv
  <2>2. todo # <<>> => Head(todo) = todo[1]
    BY <1>1, CallList
  <2>3. CASE todo = <<>>
    BY <2>3
  <2>4. CASE SetNext
    BY <1>1, <2>1, <2>2, <2>4, SetNextCalls
  <2>5. CASE ReplaceNext
    BY <1>1, <2>1, <2>2, <2>5, ReplaceNextCalls
  <2>6. CASE DestroyNext
    BY <1>1, <2>1, <2>2, <2>6, DestroyNextCalls
  <2>7. CASE UNCHANGED vars
    BY <2>7
  <2> QED BY <1>1, <2>3, <2>4, <2>5, <2>6, <2>7 DEF Next
<1> QED BY <1>1, CallsInvariance, PTL DEF Spec, ReplacesAll

=============================================================================
