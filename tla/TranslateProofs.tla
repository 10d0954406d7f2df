-------------------------- MODULE TranslateProofs --------------------------
(***************************************************************************)
(* Proofs about Translate, for a pool of any size above one, a hash table  *)
(* of any size and any code: contexts hold the decode of their own address  *)
(* and their exact next address, the pinned context survives its build and  *)
(* staged ops view the current pool of varnodes.                            *)
(***************************************************************************)
EXTENDS Translate, SeqLemmas

-----------------------------------------------------------------------------
(* The pool of contexts *)

CacheType ==
    [list : [Slots -> ParserContext \cup {None}],
     hash : [0 .. Window - 1 -> Slots \cup {None}],
     next : Slots,
     pin  : Slots \cup {None}]

\* What a context has to do with the code at its address.
Decoded(ctx) ==
    ctx.state >= Disassembly =>
       /\ ctx.addr \in DOMAIN code
       /\ ctx.len = code[ctx.addr].len
       /\ ctx.delay = code[ctx.addr].delay
       /\ ctx.naddr \in Nat /\ NextExact(ctx.addr, ctx.naddr)
       /\ ctx.state = Pcode => code[ctx.addr].handles

ContextOK(ctx) == Decoded(ctx) /\ (ctx.lazy => ctx.state = Pcode)

CacheOK(c) ==
    /\ c \in CacheType
    /\ \A h \in 0 .. Window - 1 : c.hash[h] # None => c.list[c.hash[h]] # None
    /\ \A s \in Slots : c.list[s] # None => ContextOK(c.list[s])

\* The code table, instruction by instruction
LEMMA CodeFacts ==
    ASSUME code \in Programs
    PROVE  /\ DOMAIN code \subseteq Nat
           /\ \A a \in DOMAIN code : code[a].len \in Nat /\ code[a].delay \in Nat /\ code[a].handles \in BOOLEAN
  BY ProgramAssumption

\* An instruction without length has no delay slots to end anywhere else.
LEMMA NextOfNothing ==
    ASSUME code \in Programs, NEW a \in DOMAIN code, NEW e, NextExact(a, e), code[a].len = 0
    PROVE  e = a
<1>1. a \in Nat /\ a + 0 = a
  BY CodeFacts
<1>2. ~DelaySlotsEnd(a, e)
  BY <1>1 DEF DelaySlotsEnd
<1> QED BY <1>1, <1>2 DEF NextExact

LEMMA SlotFacts ==
    /\ Reuse \in Nat /\ Reuse >= 2 /\ Window \in Nat /\ Window >= 1
    /\ None \notin Slots /\ None \notin Nat /\ None \notin ParserContext /\ Slots \subseteq Nat
    /\ \A a \in Nat : hashIndex(a) \in 0 .. Window - 1
    /\ \A s \in Slots : slotAfter(s) \in Slots /\ s % Reuse = s /\ slotAfter(s) # s
<1>1. Reuse \in Nat /\ Reuse >= 2 /\ Window \in Nat /\ Window >= 1 /\ None \notin Nat /\ None \notin ParserContext
  BY PoolAssumption
<1>2. \A a \in Nat : a % Window \in 0 .. Window - 1
  BY <1>1, SMT
<1>3. \A s \in 0 .. Reuse - 1 : (s + 1) % Reuse \in 0 .. Reuse - 1 /\ s % Reuse = s /\ (s + 1) % Reuse # s
  BY <1>1, SMT
<1> QED BY <1>1, <1>2, <1>3 DEF Slots, hashIndex, slotAfter

\* The slot that is recycled is not the pinned one.
LEMMA ReuseSlot ==
    ASSUME NEW c \in CacheType
    PROVE  nextReuseSlot(c) \in Slots /\ nextReuseSlot(c) # c.pin
<1>1. PICK n \in Slots : n = c.next
  BY DEF CacheType
<1>2. n \in Nat /\ n + 0 = n /\ n % Reuse = n /\ (n + 1) % Reuse \in Slots /\ (n + 1) % Reuse # n
  BY SlotFacts DEF slotAfter
<1>3. nextReuseSlot(c) = (n + (IF n = c.pin THEN 1 ELSE 0)) % Reuse
  BY <1>1 DEF nextReuseSlot
<1>4. CASE n = c.pin
  BY <1>2, <1>3, <1>4
<1>5. CASE n # c.pin
  BY <1>2, <1>3, <1>5
<1> QED BY <1>4, <1>5

\* The context in a slot that is recycled for a
Renewed(old, a) ==
    IF old = None THEN NewParserContext(a)
    ELSE [old EXCEPT !.addr = a, !.state = Uninitialized, !.len = 0, !.n2 = None, !.lazy = FALSE]

Blank(x, a) == x \in ParserContext /\ x.addr = a /\ x.state = Uninitialized /\ ~x.lazy /\ x.n2 = None

LEMMA RenewedBlank ==
    ASSUME NEW old \in ParserContext \cup {None}, NEW a \in Nat
    PROVE  Blank(Renewed(old, a), a)
<1>1. CASE old = None
  BY <1>1 DEF Renewed, Blank, NewParserContext, ParserContext, Uninitialized
<1>2. CASE old # None
  <2>1. old \in ParserContext
    BY <1>2
  <2>2. Blank([old EXCEPT !.addr = a, !.state = Uninitialized, !.len = 0, !.n2 = None, !.lazy = FALSE], a)
    BY <2>1 DEF Blank, ParserContext, Uninitialized
  <2> QED BY <1>2, <2>2 DEF Renewed
<1> QED BY <1>1, <1>2

\* Pool r is pool c with context x in slot s and hash table t.
Put(r, c, s, x, t) ==
    r \in CacheType /\ r.list = [c.list EXCEPT ![s] = x] /\ r.hash = t /\ r.pin = c.pin

LEMMA PutOne ==
    ASSUME NEW c \in CacheType, NEW s \in Slots, NEW x \in ParserContext \cup {None}
    PROVE  Put([c EXCEPT !.list[s] = x], c, s, x, c.hash)
  BY DEF CacheType, Put

LEMMA PutNew ==
    ASSUME NEW c \in CacheType, NEW s \in Slots, NEW x \in ParserContext \cup {None},
           NEW h \in 0 .. Window - 1, NEW n \in Slots
    PROVE  Put([c EXCEPT !.next = n, !.hash[h] = s, !.list[s] = x], c, s, x, [c.hash EXCEPT ![h] = s])
  BY DEF CacheType, Put

\* Recycling keeps the pool in order and every other context where it is.
LEMMA RecycleOK ==
    ASSUME NEW c, CacheOK(c), NEW a \in Nat
    PROVE  LET s == nextReuseSlot(c)
               r == Recycle(c, a)
           IN  /\ CacheOK(r)
               /\ r.hash[hashIndex(a)] = s
               /\ r.list[s] \in ParserContext /\ r.list[s].addr = a /\ r.list[s].state = Uninitialized
               /\ r.list[s].n2 = None
               /\ \A t \in Slots \ {s} : r.list[t] = c.list[t]
               /\ r.pin = c.pin
<1>1. c \in CacheType
  BY DEF CacheOK
<1>2. PICK s \in Slots : s = nextReuseSlot(c) /\ slotAfter(s) \in Slots
  BY <1>1, ReuseSlot, SlotFacts
<1>3. PICK h \in 0 .. Window - 1 : h = hashIndex(a)
  BY SlotFacts
<1>4. PICK old \in ParserContext \cup {None} : old = c.list[s]
  BY <1>1 DEF CacheType
<1>5. PICK x \in ParserContext : x = Renewed(old, a) /\ Blank(x, a)
  BY RenewedBlank DEF Blank
<1>6. PICK r : r = Recycle(c, a)
  OBVIOUS
<1>7. r = [c EXCEPT !.next = slotAfter(s), !.hash[h] = s, !.list[s] = x]
  BY <1>2, <1>3, <1>4, <1>5, <1>6 DEF Recycle, Renewed
<1>8. r \in CacheType /\ r.list = [c.list EXCEPT ![s] = x] /\ r.hash = [c.hash EXCEPT ![h] = s] /\ r.pin = c.pin
  <2>1. Put(r, c, s, x, [c.hash EXCEPT ![h] = s])
    BY <1>1, <1>2, <1>7, PutNew
  <2> QED BY <2>1 DEF Put
<1>9. r.list[s] = x /\ (\A t \in Slots \ {s} : r.list[t] = c.list[t])
      /\ r.hash[h] = s /\ (\A k \in (0 .. Window - 1) \ {h} : r.hash[k] = c.hash[k])
  BY <1>1, <1>8 DEF CacheType
<1>10. x # None
  BY <1>5, SlotFacts
<1>11. \A k \in 0 .. Window - 1 : r.hash[k] # None => r.list[r.hash[k]] # None
  <2> SUFFICES ASSUME NEW k \in 0 .. Window - 1, r.hash[k] # None PROVE r.list[r.hash[k]] # None
    OBVIOUS
  <2>1. r.hash[k] \in Slots
    BY <1>8 DEF CacheType
  <2>2. CASE r.hash[k] = s
    BY <1>9, <1>10, <2>2
  <2>3. CASE r.hash[k] # s
    BY <1>9, <2>1, <2>3 DEF CacheOK
  <2> QED BY <2>2, <2>3
<1>12. ContextOK(x)
  BY <1>5 DEF Blank, ContextOK, Decoded, Uninitialized, Disassembly
<1>13. \A t \in Slots : r.list[t] # None => ContextOK(r.list[t])
  BY <1>9, <1>12 DEF CacheOK
<1>14. CacheOK(r)
  BY <1>8, <1>11, <1>13 DEF CacheOK
<1> QED BY <1>2, <1>3, <1>5, <1>6, <1>8, <1>9, <1>14 DEF Blank

\* What promotion leaves of a context: its address, and everything once it has p-code.
LEMMA ResolvedOK ==
    ASSUME code \in Programs, NEW x \in ParserContext, x.addr \in DOMAIN code, ~x.lazy
    PROVE  LET y == Resolved(x, code[x.addr])
           IN  y \in ParserContext /\ ContextOK(y) /\ y.addr = x.addr /\ y.state = Disassembly /\ y.n2 = x.n2
<1>1. PICK l \in Nat, d \in Nat : l = code[x.addr].len /\ d = code[x.addr].delay
  BY CodeFacts
<1>2. x.addr \in Nat /\ x.addr + l \in Nat
  BY DEF ParserContext
<1>3. PICK y : y = [x EXCEPT !.state = Disassembly, !.len = l, !.naddr = x.addr + l, !.delay = d]
  OBVIOUS
<1>4. y \in ParserContext /\ y.addr = x.addr /\ y.state = Disassembly /\ y.len = l
      /\ y.naddr = x.addr + l /\ y.delay = d /\ ~y.lazy /\ y.n2 = x.n2
  BY <1>2, <1>3 DEF ParserContext, Disassembly
<1>5. ContextOK(y)
  BY <1>1, <1>2, <1>4 DEF ContextOK, Decoded, NextExact, Disassembly, Pcode
<1> QED BY <1>1, <1>3, <1>4, <1>5 DEF Resolved

LEMMA PromotedOK ==
    ASSUME code \in Programs, NEW x \in ParserContext, ContextOK(x), NEW target \in {Disassembly, Pcode}
    PROVE  LET y == Promoted(x, target, code)
           IN  /\ y \in ParserContext /\ ContextOK(y) /\ y.addr = x.addr
               /\ x.state = Pcode => y = x
               /\ y.n2 \in {None, x.n2}
<1>1. x.state \in {0, 1, 2} /\ target \in {1, 2}
  BY DEF ParserContext, Uninitialized, Disassembly, Pcode
<1>2. PICK fresh : fresh = IF x.state = Uninitialized THEN [x EXCEPT !.n2 = None, !.lazy = FALSE] ELSE x
  OBVIOUS
<1>3. fresh \in ParserContext /\ ContextOK(fresh) /\ fresh.addr = x.addr /\ fresh.state = x.state
      /\ (x.state # Uninitialized => fresh = x) /\ (x.state = Uninitialized => ~fresh.lazy)
      /\ fresh.n2 \in {None, x.n2}
  <2>1. CASE x.state = Uninitialized
    <3>1. fresh \in ParserContext /\ fresh.addr = x.addr /\ fresh.state = x.state /\ ~fresh.lazy /\ fresh.n2 = None
      BY <1>2, <2>1 DEF ParserContext
    <3> QED BY <2>1, <3>1 DEF ContextOK, Decoded, Uninitialized, Disassembly
  <2>2. CASE x.state # Uninitialized
    BY <1>2, <2>2
  <2> QED BY <2>1, <2>2
<1>4. PICK dis : dis = IF fresh.state < target /\ fresh.state < Disassembly /\ fresh.addr \in DOMAIN code
                       THEN Resolved(fresh, code[fresh.addr]) ELSE fresh
  OBVIOUS
<1>5. dis \in ParserContext /\ ContextOK(dis) /\ dis.addr = x.addr
      /\ (x.state # Uninitialized => dis = x) /\ dis.n2 \in {None, x.n2}
      /\ (dis.state = Disassembly => dis.addr \in DOMAIN code)
  <2>1. CASE fresh.state < target /\ fresh.state < Disassembly /\ fresh.addr \in DOMAIN code
    <3>1. x.state = Uninitialized
      BY <1>1, <1>3, <2>1 DEF Uninitialized, Disassembly
    <3> QED BY <1>3, <1>4, <2>1, <3>1, ResolvedOK
  <2>2. CASE ~(fresh.state < target /\ fresh.state < Disassembly /\ fresh.addr \in DOMAIN code)
    <3>1. dis = fresh
      BY <1>4, <2>2
    <3> QED BY <1>3, <3>1 DEF ContextOK, Decoded, Disassembly
  <2> QED BY <2>1, <2>2
<1>6. Promoted(x, target, code) = IF dis.state < target /\ dis.state = Disassembly /\ code[dis.addr].handles
                                  THEN [dis EXCEPT !.state = Pcode] ELSE dis
  BY <1>2, <1>4 DEF Promoted
<1>7. CASE dis.state < target /\ dis.state = Disassembly /\ code[dis.addr].handles
  <2>1. PICK y : y = [dis EXCEPT !.state = Pcode]
    OBVIOUS
  <2>2. y \in ParserContext /\ y.addr = dis.addr /\ y.state = Pcode /\ y.len = dis.len
        /\ y.naddr = dis.naddr /\ y.delay = dis.delay /\ y.n2 = dis.n2
    BY <1>5, <2>1 DEF ParserContext, Pcode
  <2>3. ContextOK(y)
    BY <1>5, <1>7, <2>2 DEF ContextOK, Decoded, Disassembly, Pcode
  <2>4. x.state # Pcode
    BY <1>5, <1>7 DEF Pcode, Uninitialized, Disassembly
  <2> QED BY <1>5, <1>6, <1>7, <2>1, <2>2, <2>3, <2>4
<1>8. CASE ~(dis.state < target /\ dis.state = Disassembly /\ code[dis.addr].handles)
  <2>1. Promoted(x, target, code) = dis
    BY <1>6, <1>8
  <2> QED BY <1>5, <2>1 DEF Pcode, Uninitialized
<1> QED BY <1>7, <1>8

\* y has the decode of x.
SameDecode(x, y) ==
    y.addr = x.addr /\ y.state = x.state /\ y.len = x.len /\ y.naddr = x.naddr /\ y.delay = x.delay

\* The address after next is exact in y if it is in x.
KeepsAfter(x, y) == AfterNextExact(x.addr, x.n2) => AfterNextExact(y.addr, y.n2)

\* r is what look-ups, promotions and lazy addresses may make of pool c.
Moved(c, r) ==
    /\ CacheOK(r)
    /\ r.pin = c.pin
    /\ \A t \in Slots : c.list[t] # None => r.list[t] # None
    /\ c.pin # None /\ c.list[c.pin] # None /\ c.list[c.pin].state = Pcode =>
         SameDecode(c.list[c.pin], r.list[c.pin]) /\ KeepsAfter(c.list[c.pin], r.list[c.pin])

\* The context of slot s in pool r was obtained for a.
Obtained(c, r, a, s) ==
    /\ s \in Slots /\ r.list[s] \in ParserContext /\ r.list[s].addr = a
    /\ r.hash[hashIndex(a)] = s
    /\ s = c.pin => Cached(c, a)
    /\ Cached(c, a) => s = c.hash[hashIndex(a)] /\ c.list[s].addr = a
    /\ r.list[s].n2 = None \/ (Cached(c, a) /\ r.list[s].n2 = c.list[s].n2)
    /\ \A t \in Slots \ {s} : r.list[t] = c.list[t]

LEMMA ParserContextObtained ==
    ASSUME NEW c, CacheOK(c), NEW a \in Nat
    PROVE  LET r == ObtainParserContext(c, a)
           IN  Moved(c, r) /\ Obtained(c, r, a, r.hash[hashIndex(a)])
<1>1. c \in CacheType /\ hashIndex(a) \in 0 .. Window - 1
  BY SlotFacts DEF CacheOK
<1>2. CASE Cached(c, a)
  <2>1. PICK s \in Slots : s = c.hash[hashIndex(a)] /\ c.list[s].addr = a /\ c.list[s] # None
    BY <1>1, <1>2 DEF Cached, CacheType, CacheOK
  <2>2. c.list[s] \in ParserContext
    BY <1>1, <2>1 DEF CacheType
  <2> QED BY <1>2, <2>1, <2>2 DEF ObtainParserContext, Moved, Obtained, SameDecode, KeepsAfter
<1>3. CASE ~Cached(c, a)
  <2>0. PICK r : r = Recycle(c, a)
    OBVIOUS
  <2>1. PICK s \in Slots : s = nextReuseSlot(c) /\ r = Recycle(c, a) /\ s # c.pin
    BY <1>1, <2>0, ReuseSlot
  <2>2. /\ CacheOK(r) /\ r.hash[hashIndex(a)] = s
        /\ r.list[s] \in ParserContext /\ r.list[s].addr = a /\ r.list[s].n2 = None
        /\ \A t \in Slots \ {s} : r.list[t] = c.list[t]
        /\ r.pin = c.pin
    BY <2>1, RecycleOK
  <2>3. c.pin \in Slots \cup {None} /\ r.list[s] # None
    BY <1>1, <2>2, SlotFacts DEF CacheType
  <2>4. Moved(c, r)
    BY <2>1, <2>2, <2>3 DEF Moved, SameDecode, KeepsAfter
  <2> QED BY <1>3, <2>1, <2>2, <2>4 DEF ObtainParserContext, Obtained
<1> QED BY <1>2, <1>3

\* Another context in slot s
LEMMA PutOK ==
    ASSUME NEW c, CacheOK(c), NEW s \in Slots, NEW y \in ParserContext, ContextOK(y)
    PROVE  LET r == [c EXCEPT !.list[s] = y]
           IN  /\ CacheOK(r) /\ r.list[s] = y /\ r.hash = c.hash /\ r.pin = c.pin
               /\ \A t \in Slots \ {s} : r.list[t] = c.list[t]
               /\ \A t \in Slots : c.list[t] # None => r.list[t] # None
<1>1. c \in CacheType
  BY DEF CacheOK
<1>2. PICK r : r = [c EXCEPT !.list[s] = y]
  OBVIOUS
<1>3. r \in CacheType /\ r.list = [c.list EXCEPT ![s] = y] /\ r.hash = c.hash /\ r.pin = c.pin
  <2>1. Put(r, c, s, y, c.hash)
    BY <1>1, <1>2, PutOne
  <2> QED BY <2>1 DEF Put
<1>4. r.list[s] = y /\ (\A t \in Slots \ {s} : r.list[t] = c.list[t]) /\ y # None
  BY <1>1, <1>3, SlotFacts DEF CacheType
<1>5. \A t \in Slots : c.list[t] # None => r.list[t] # None
  BY <1>4
<1>6. \A h \in 0 .. Window - 1 : r.hash[h] # None => r.list[r.hash[h]] # None
  BY <1>1, <1>3, <1>5 DEF CacheOK, CacheType
<1>7. \A t \in Slots : r.list[t] # None => ContextOK(r.list[t])
  BY <1>4 DEF CacheOK
<1>8. CacheOK(r)
  BY <1>3, <1>6, <1>7 DEF CacheOK
<1> QED BY <1>2, <1>3, <1>4, <1>5, <1>8

\* Another context in slot s, with the same decode if it is the pinned one
LEMMA PutMoved ==
    ASSUME NEW c, CacheOK(c), NEW s \in Slots, NEW y \in ParserContext, ContextOK(y),
           s = c.pin /\ c.list[s] # None /\ c.list[s].state = Pcode => SameDecode(c.list[s], y) /\ KeepsAfter(c.list[s], y)
    PROVE  LET r == [c EXCEPT !.list[s] = y]
           IN  /\ Moved(c, r) /\ r.list[s] = y /\ r.hash = c.hash
               /\ \A t \in Slots \ {s} : r.list[t] = c.list[t]
<1>1. PICK r : r = [c EXCEPT !.list[s] = y]
  OBVIOUS
<1>2. /\ CacheOK(r) /\ r.list[s] = y /\ r.hash = c.hash /\ r.pin = c.pin
      /\ \A t \in Slots \ {s} : r.list[t] = c.list[t]
      /\ \A t \in Slots : c.list[t] # None => r.list[t] # None
  BY <1>1, PutOK
<1>3. c.pin # None /\ c.list[c.pin] # None /\ c.list[c.pin].state = Pcode =>
         SameDecode(c.list[c.pin], r.list[c.pin]) /\ KeepsAfter(c.list[c.pin], r.list[c.pin])
  <2>1. c.pin \in Slots \cup {None}
    BY DEF CacheOK, CacheType
  <2>2. CASE c.pin = s
    BY <1>2, <2>2
  <2>3. CASE c.pin # s
    BY <1>2, <2>1, <2>3 DEF SameDecode, KeepsAfter
  <2> QED BY <2>2, <2>3
<1> QED BY <1>1, <1>2, <1>3 DEF Moved

LEMMA MovedTwice ==
    ASSUME NEW c, NEW d, NEW e, CacheOK(c), Moved(c, d), Moved(d, e)
    PROVE  Moved(c, e)
<1>1. c.pin \in Slots \cup {None} /\ d.pin = c.pin /\ e.pin = c.pin /\ CacheOK(e)
  BY DEF CacheOK, CacheType, Moved
<1>2. \A t \in Slots : c.list[t] # None => d.list[t] # None /\ e.list[t] # None
  BY DEF Moved
<1>3. ASSUME c.pin # None, c.list[c.pin] # None, c.list[c.pin].state = Pcode
      PROVE  SameDecode(c.list[c.pin], e.list[c.pin]) /\ KeepsAfter(c.list[c.pin], e.list[c.pin])
  <2>1. SameDecode(c.list[c.pin], d.list[c.pin]) /\ KeepsAfter(c.list[c.pin], d.list[c.pin])
    BY <1>3 DEF Moved
  <2>2. d.pin # None /\ d.list[d.pin] # None /\ d.list[d.pin].state = Pcode
    BY <1>1, <1>2, <1>3, <2>1 DEF SameDecode
  <2>3. SameDecode(d.list[c.pin], e.list[c.pin]) /\ KeepsAfter(d.list[c.pin], e.list[c.pin])
    BY <1>1, <2>2 DEF Moved
  <2> QED BY <2>1, <2>3 DEF SameDecode, KeepsAfter
<1> QED BY <1>1, <1>2, <1>3 DEF Moved

\* The answer r of a request for the context of a
Gets(c, r, a) == Moved(c, r.cache) /\ Obtained(c, r.cache, a, r.slot)

LEMMA ContextObtained ==
    ASSUME code \in Programs, NEW c, CacheOK(c), NEW a \in Nat, NEW target \in {Disassembly, Pcode}
    PROVE  LET r == ObtainContext(c, a, target, code)
           IN  /\ Gets(c, r, a)
               /\ r.ok => r.cache.list[r.slot].state >= target
<1>1. PICK c1, s : c1 = ObtainParserContext(c, a) /\ s = c1.hash[hashIndex(a)]
  OBVIOUS
<1>2. Moved(c, c1) /\ Obtained(c, c1, a, s)
  BY <1>1, ParserContextObtained
<1>3. s \in Slots /\ CacheOK(c1) /\ c1.list[s] \in ParserContext /\ c1.list[s] # None
  BY <1>2, SlotFacts DEF Moved, Obtained
<1>4. ContextOK(c1.list[s])
  BY <1>3 DEF CacheOK
<1>5. PICK y \in ParserContext : y = Promoted(c1.list[s], target, code) /\ ContextOK(y) /\ y.addr = c1.list[s].addr
                                 /\ (c1.list[s].state = Pcode => y = c1.list[s]) /\ y.n2 \in {None, c1.list[s].n2}
  BY <1>3, <1>4, PromotedOK
<1>6. s = c1.pin /\ c1.list[s] # None /\ c1.list[s].state = Pcode => SameDecode(c1.list[s], y) /\ KeepsAfter(c1.list[s], y)
  BY <1>5 DEF SameDecode, KeepsAfter
<1>7. PICK c2 : c2 = [c1 EXCEPT !.list[s] = y]
  OBVIOUS
<1>8. Moved(c1, c2) /\ c2.list[s] = y /\ c2.hash = c1.hash /\ \A t \in Slots \ {s} : c2.list[t] = c1.list[t]
  BY <1>3, <1>5, <1>6, <1>7, PutMoved
<1>9. Moved(c, c2)
  BY <1>2, <1>8, MovedTwice
<1>10. Obtained(c, c2, a, s)
  BY <1>2, <1>5, <1>8 DEF Obtained
<1>11. PICK r : r = ObtainContext(c, a, target, code)
  BY SMTT(30)
<1>12. r = [cache |-> c2, slot |-> s, ok |-> c2.list[s].state >= target]
  BY <1>1, <1>5, <1>7, <1>11 DEF ObtainContext
<1>13. r.cache = c2 /\ r.slot = s /\ r.ok = (c2.list[s].state >= target)
  BY <1>12
<1> QED BY <1>9, <1>10, <1>11, <1>13 DEF Gets

LEMMA PcodeContextObtained ==
    ASSUME code \in Programs, NEW c, CacheOK(c), NEW a \in Nat
    PROVE  LET r == ObtainPcodeContext(c, a, code)
           IN  /\ Gets(c, r, a)
               /\ r.ok => r.cache.list[r.slot].state = Pcode /\ r.cache.list[r.slot].n2 = None
<1>1. PICK q : q = ObtainContext(c, a, Pcode, code)
  OBVIOUS
<1>2. Gets(c, q, a) /\ (q.ok => q.cache.list[q.slot].state >= Pcode)
  BY <1>1, ContextObtained
<1>3. PICK s \in Slots : s = q.slot
  BY <1>2 DEF Gets, Obtained
<1>4. CASE ~q.ok
  BY <1>1, <1>2, <1>4 DEF ObtainPcodeContext
<1>5. CASE q.ok
  <2>1. PICK x \in ParserContext : x = q.cache.list[s]
    BY <1>2, <1>3 DEF Gets, Obtained
  <2>2. x.state = Pcode /\ CacheOK(q.cache)
    BY <1>2, <1>3, <1>5, <2>1 DEF Gets, Moved, ParserContext, Uninitialized, Disassembly, Pcode
  <2>3. ContextOK(x)
    BY <2>1, <2>2, <1>3, SlotFacts DEF CacheOK
  <2>4. PICK y : y = [x EXCEPT !.n2 = None, !.lazy = TRUE]
    OBVIOUS
  <2>5. y \in ParserContext /\ SameDecode(x, y) /\ KeepsAfter(x, y) /\ y.n2 = None
    BY <2>1, <2>4 DEF ParserContext, SameDecode, KeepsAfter, AfterNextExact
  <2>6. ContextOK(y)
    BY <2>2, <2>3, <2>5 DEF ContextOK, Decoded, SameDecode
  <2>7. PICK c2 : c2 = [q.cache EXCEPT !.list[s] = y]
    OBVIOUS
  <2>8. Moved(q.cache, c2) /\ c2.list[s] = y /\ c2.hash = q.cache.hash
        /\ \A t \in Slots \ {s} : c2.list[t] = q.cache.list[t]
    BY SMTT(30), <1>3, <2>1, <2>2, <2>5, <2>6, <2>7, PutMoved
  <2>9. Moved(c, c2)
    BY <1>2, <2>8, MovedTwice DEF Gets
  <2>10. Obtained(c, c2, a, s)
    BY <1>2, <1>3, <2>1, <2>5, <2>8 DEF Gets, Obtained, SameDecode
  <2>11. PICK r : r = ObtainPcodeContext(c, a, code)
    OBVIOUS
  <2>12. r = [q EXCEPT !.cache.list[s] = [@ EXCEPT !.n2 = None, !.lazy = TRUE]]
    BY <1>1, <1>3, <1>5, <2>11 DEF ObtainPcodeContext
  <2>13. q = [cache |-> q.cache, slot |-> q.slot, ok |-> q.ok]
    BY <1>1 DEF ObtainContext
  <2>14. r.cache = c2 /\ r.slot = s
    BY <1>3, <2>1, <2>4, <2>7, <2>12, <2>13
  <2> QED BY <2>2, <2>5, <2>8, <2>9, <2>10, <2>11, <2>14 DEF Gets, SameDecode
<1> QED BY <1>4, <1>5

\* The address after next, asked for by the context in slot s: a context that
\* waits for it knows where its own instruction ends.
LEMMA FallthroughKnown ==
    ASSUME code \in Programs, NEW x \in ParserContext, ContextOK(x), x.state >= Disassembly
    PROVE  /\ pcodeFallthroughAddr(x) \in Nat /\ next2addrFromContext(x) \in Nat
           /\ x.addr \in DOMAIN code
           /\ pcodeFallthroughAddr(x) = x.addr + code[x.addr].len
           /\ next2addrFromContext(x) = x.addr + code[x.addr].len
<1>1. PICK a \in Nat, l \in Nat : a = x.addr /\ l = x.len /\ a + l \in Nat
  BY DEF ParserContext
<1>2. a \in DOMAIN code /\ code[a].len = l /\ x.naddr \in Nat /\ NextExact(a, x.naddr)
  BY <1>1 DEF ContextOK, Decoded
<1>3. l = 0 => x.naddr = a + l
  BY <1>1, <1>2, NextOfNothing
<1> QED BY <1>1, <1>2, <1>3 DEF pcodeFallthroughAddr, next2addrFromContext

\* What asking for it makes of the pool
Asked(c, r, s) ==
    LET x == c.list[s]
        a == pcodeFallthroughAddr(x)
        q == ObtainContext(c, a, Disassembly, code)
    IN  IF x.n2 # None \/ ~x.lazy THEN r = c
        ELSE /\ a \in Nat /\ Gets(c, q, a)
             /\ r.hash = q.cache.hash
             /\ r.list[s].addr = q.cache.list[s].addr
             /\ \A t \in Slots \ {s} : r.list[t] = q.cache.list[t]

LEMMA N2addrAsked ==
    ASSUME code \in Programs, NEW c, CacheOK(c), NEW s \in Slots, c.list[s] # None
    PROVE  Moved(c, WithN2addr(c, s, code)) /\ Asked(c, WithN2addr(c, s, code), s)
<1>1. PICK x \in ParserContext : x = c.list[s] /\ ContextOK(x)
  BY DEF CacheOK, CacheType
<1>2. PICK r : r = WithN2addr(c, s, code)
  OBVIOUS
<1>3. CASE x.n2 # None \/ ~x.lazy
  <2>1. r = c
    BY <1>1, <1>2, <1>3 DEF WithN2addr
  <2>2. Moved(c, c)
    BY DEF Moved, SameDecode, KeepsAfter
  <2>3. Asked(c, c, s)
    BY <1>1, <1>3 DEF Asked
  <2> QED BY SMTT(30), <1>2, <2>1, <2>2, <2>3
<1>4. CASE ~(x.n2 # None \/ ~x.lazy)
  <2>1. x.state >= Disassembly
    BY <1>1, <1>4 DEF ContextOK, Disassembly, Pcode
  <2>2. PICK a \in Nat : a = pcodeFallthroughAddr(x) /\ a = x.addr + code[x.addr].len
    BY <1>1, <2>1, FallthroughKnown
  <2>3. PICK q : q = ObtainContext(c, a, Disassembly, code)
    OBVIOUS
  <2>4. Gets(c, q, a) /\ (q.ok => q.cache.list[q.slot].state >= Disassembly)
    BY <2>3, ContextObtained
  <2>5. CASE ~q.ok
    <3>1. r = q.cache
      BY SMTT(30), <1>1, <1>2, <1>4, <2>2, <2>3, <2>5 DEF WithN2addr
    <3>2. Asked(c, q.cache, s)
      BY <1>1, <1>4, <2>2, <2>3, <2>4 DEF Asked
    <3> QED BY SMTT(30), <1>2, <2>4, <3>1, <3>2 DEF Gets
  <2>6. CASE q.ok
    <3>1. CacheOK(q.cache) /\ q.slot \in Slots /\ q.cache.list[q.slot] \in ParserContext
          /\ q.cache.list[s] # None /\ q.cache.list[q.slot].addr = a
      BY <2>4 DEF Gets, Moved, Obtained
    <3>2. ContextOK(q.cache.list[q.slot])
      BY <3>1, SlotFacts DEF CacheOK
    <3>3. PICK n \in Nat : n = next2addrFromContext(q.cache.list[q.slot]) /\ a \in DOMAIN code /\ n = a + code[a].len
      BY <2>4, <2>6, <3>1, <3>2, FallthroughKnown
    <3>4. PICK z \in ParserContext : z = q.cache.list[s] /\ ContextOK(z)
      BY <3>1 DEF CacheOK, CacheType
    <3>5. PICK y : y = [z EXCEPT !.n2 = n, !.lazy = FALSE]
      OBVIOUS
    <3>6. y \in ParserContext /\ SameDecode(z, y) /\ ~y.lazy /\ y.n2 = n
      BY <3>5 DEF ParserContext, SameDecode
    <3>6a. s = q.cache.pin /\ z.state = Pcode => KeepsAfter(z, y)
      <4> SUFFICES ASSUME s = q.cache.pin PROVE AfterNextExact(y.addr, y.n2)
        BY SMTT(30) DEF KeepsAfter
      <4>1. z.addr = x.addr
        <5>1. c.pin = s /\ c.pin # None /\ x.state = Pcode
          BY SMTT(30), <1>1, <1>4, <2>4, SlotFacts DEF Gets, Moved, ContextOK
        <5> QED BY <1>1, <2>4, <3>4, <5>1 DEF Gets, Moved, SameDecode
      <4> QED BY <2>2, <3>3, <3>6, <4>1 DEF SameDecode, AfterNextExact
    <3>7. ContextOK(y)
      BY <3>4, <3>6 DEF ContextOK, Decoded, SameDecode
    <3>8. PICK e : e = [q.cache EXCEPT !.list[s] = y]
      OBVIOUS
    <3>9. Moved(q.cache, e) /\ e.list[s] = y /\ e.hash = q.cache.hash
          /\ \A t \in Slots \ {s} : e.list[t] = q.cache.list[t]
      BY SMTT(30), <3>1, <3>4, <3>6, <3>6a, <3>7, <3>8, PutMoved
    <3>10. r = e
      BY <1>1, <1>2, <1>4, <2>2, <2>3, <2>6, <3>3, <3>4, <3>5, <3>8 DEF WithN2addr
    <3>11. Moved(c, e)
      BY SMTT(30), <2>4, <3>9, MovedTwice DEF Gets
    <3>12. Asked(c, e, s)
      <4>1. e.list[s].addr = q.cache.list[s].addr
        BY <3>4, <3>6, <3>9 DEF SameDecode
      <4>2. a = pcodeFallthroughAddr(x)
        BY <2>2
      <4> QED BY <1>1, <1>4, <2>3, <2>4, <3>9, <4>1, <4>2 DEF Asked
    <3> QED BY <1>2, <3>10, <3>11, <3>12
  <2> QED BY <2>5, <2>6
<1> QED BY <1>3, <1>4

-----------------------------------------------------------------------------
(* The translation *)

\* The loop of a delay slot, or none
Loops == {NoLoop} \cup [start : Nat, fall : Nat, need : Nat]

FrameOK(f, c) ==
    /\ f \in [slot : Slots, ops : {f.ops}, base : {f.base}, loop : Loops]
    /\ c.list[f.slot] # None

StackOK(st, c) == \E S : st \in Seq(S) /\ \A f \in S : FrameOK(f, c)

\* The instruction being translated keeps its pinned context.
Held(j, c) ==
    /\ j \in [phase : {"delays", "build"}, addr : Nat, slot : Slots, fall : Nat, bytes : Nat,
              stack : {j.stack}, base : {j.base}, count : {j.count}, got : {j.got}]
    /\ c.pin = j.slot
    /\ c.list[j.slot] # None
    /\ c.list[j.slot].addr = j.addr
    /\ c.list[j.slot].state = Pcode
    /\ AfterNextExact(j.addr, c.list[j.slot].n2)

\* The next address of the instruction is behind its delay slots.
PastDelays(ctx) ==
    code[ctx.addr].delay > 0 => DelaySlotsEnd(ctx.addr, ctx.naddr)

\* The delay slots of the instruction at a prepared so far end at e.
DelaySlotsLead(a, e) ==
    LET first == a + code[a].len
    IN  \E T \in SUBSET DOMAIN code :
           /\ first \in T \cup {e}
           /\ \A t \in T : /\ t < first + code[a].delay
                          /\ code[t].len > 0
                          /\ t + code[t].len \in T \cup {e}

Preparing(j, c) ==
    /\ Held(j, c)
    /\ j.phase = "delays"
    /\ j.fall = c.list[j.slot].len + j.bytes
    /\ DelaySlotsLead(j.addr, j.addr + j.fall)
    /\ j.stack = <<>>

Building(j, c) ==
    /\ Held(j, c)
    /\ j.phase = "build"
    /\ PastDelays(c.list[j.slot])
    /\ StackOK(j.stack, c)

JobOK(j, c) == Preparing(j, c) \/ (Building(j, c) /\ j.stack # <<>>)

\* A translation that succeeded goes on behind its delay slots.
Answered(d) ==
    d # None /\ d.ok =>
       LET insn == code[d.addr]
       IN  IF insn.delay = 0 THEN d.next = d.addr + insn.len
           ELSE DelaySlotsEnd(d.addr, d.next)

BuildOK(c, j, d) == CacheOK(c) /\ (j # Idle => JobOK(j, c)) /\ Answered(d)

BuildInv == code \in Programs /\ BuildOK(cache, job, done)

LEMMA BuildKept ==
    ASSUME code' = code, BuildInv, BuildOK(cache', job', done')
    PROVE  BuildInv'
<1>1. CacheOK(cache)'
  BY SMTT(30) DEF BuildOK, CacheOK, ContextOK, Decoded, CacheType, Slots, NextExact, DelaySlotsEnd
<1>2. Answered(done)'
  BY DEF BuildOK, Answered, DelaySlotsEnd
<1>3. job' # Idle => JobOK(job, cache)'
  <2>1. Preparing(job', cache') => Preparing(job, cache)'
    BY DEF Preparing, Held, Slots, AfterNextExact, DelaySlotsLead
  <2>2. Building(job', cache') => Building(job, cache)'
    BY DEF Building, Held, Slots, PastDelays, StackOK, FrameOK, Loops, AfterNextExact, DelaySlotsEnd
  <2>3. JobOK(job', cache') => JobOK(job, cache)'
    BY <2>1, <2>2 DEF JobOK
  <2> QED BY <2>3 DEF BuildOK
<1>4. Idle' = Idle /\ (code \in Programs)'
  BY DEF Idle, BuildInv
<1> QED BY SMTT(30), <1>1, <1>2, <1>3, <1>4 DEF BuildInv, BuildOK

\* What the pool may go through below a translation
LEMMA HeldMoved ==
    ASSUME NEW j, NEW c, NEW r, CacheOK(c), Held(j, c), Moved(c, r)
    PROVE  Held(j, r) /\ SameDecode(c.list[j.slot], r.list[j.slot])
<1>1. PICK s \in Slots : s = j.slot
  BY DEF Held
<1>2. c.pin = s /\ c.list[s] # None /\ c.list[s].state = Pcode /\ c.pin # None
  BY <1>1, SlotFacts DEF Held
<1>3. SameDecode(c.list[s], r.list[s]) /\ KeepsAfter(c.list[s], r.list[s]) /\ r.list[s] # None /\ r.pin = s
  BY <1>2 DEF Moved
<1>4. AfterNextExact(j.addr, r.list[s].n2)
  BY <1>1, <1>3 DEF Held, SameDecode, KeepsAfter
<1> QED BY <1>1, <1>3, <1>4 DEF Held, SameDecode

LEMMA StackMoved ==
    ASSUME NEW st, NEW c, NEW r, StackOK(st, c), Moved(c, r)
    PROVE  StackOK(st, r)
<1>1. PICK S : st \in Seq(S) /\ \A f \in S : FrameOK(f, c)
  BY DEF StackOK
<1>2. ASSUME NEW f \in S PROVE FrameOK(f, r)
  <2>1. FrameOK(f, c)
    BY <1>1
  <2>2. f.slot \in Slots
    BY <2>1 DEF FrameOK
  <2> QED BY <2>1, <2>2 DEF FrameOK, Moved
<1> QED BY <1>1, <1>2 DEF StackOK

LEMMA BuildingMoved ==
    ASSUME NEW j, NEW c, NEW r, CacheOK(c), Building(j, c), Moved(c, r)
    PROVE  Building(j, r)
<1>1. Held(j, c) /\ StackOK(j.stack, c)
  BY DEF Building
<1>2. Held(j, r) /\ SameDecode(c.list[j.slot], r.list[j.slot]) /\ StackOK(j.stack, r)
  BY <1>1, HeldMoved, StackMoved
<1>3. PastDelays(r.list[j.slot])
  BY <1>2 DEF Building, PastDelays, SameDecode
<1> QED BY <1>2, <1>3 DEF Building

LEMMA PreparingMoved ==
    ASSUME NEW j, NEW c, NEW r, CacheOK(c), Preparing(j, c), Moved(c, r)
    PROVE  Preparing(j, r)
<1>1. Held(j, r) /\ SameDecode(c.list[j.slot], r.list[j.slot])
  BY HeldMoved DEF Preparing
<1> QED BY <1>1 DEF Preparing, SameDecode

\* The record of what was obtained says nothing about the pool.
LEMMA GotKept ==
    ASSUME NEW j, NEW c, NEW s, NEW a
    PROVE  /\ Held(j, c) => Held(Got(j, s, a), c)
           /\ Building(j, c) => Building(Got(j, s, a), c)
           /\ Preparing(j, c) => Preparing(Got(j, s, a), c)
<1> SUFFICES ASSUME Held(j, c)
             PROVE  /\ Held(Got(j, s, a), c)
                    /\ Building(j, c) => Building(Got(j, s, a), c)
                    /\ Preparing(j, c) => Preparing(Got(j, s, a), c)
  BY DEF Building, Preparing
<1>1. PICK k : k = Got(j, s, a)
  OBVIOUS
<1>2. /\ k.phase = j.phase /\ k.addr = j.addr /\ k.slot = j.slot /\ k.fall = j.fall /\ k.bytes = j.bytes /\ k.stack = j.stack
      /\ k \in [phase : {"delays", "build"}, addr : Nat, slot : Slots, fall : Nat, bytes : Nat,
                stack : {k.stack}, base : {k.base}, count : {k.count}, got : {k.got}]
  BY <1>1 DEF Got, Held
<1>3. Held(k, c)
  BY <1>2 DEF Held
<1> QED BY <1>1, <1>2, <1>3 DEF Building, Preparing

LEMMA GotN2Kept ==
    ASSUME NEW j, NEW c, NEW d, NEW s
    PROVE  /\ Building(j, c) => Building(GotN2(j, d, s), c) /\ GotN2(j, d, s).stack = j.stack
           /\ Preparing(j, c) => Preparing(GotN2(j, d, s), c)
<1>1. GotN2(j, d, s) = j \/ \E t, a : GotN2(j, d, s) = Got(j, t, a)
  BY DEF GotN2
<1>2. CASE GotN2(j, d, s) = j
  BY <1>2
<1>3. CASE \E t, a : GotN2(j, d, s) = Got(j, t, a)
  <2>1. PICK t, a : GotN2(j, d, s) = Got(j, t, a)
    BY <1>3
  <2>2. Building(j, c) => Got(j, t, a).stack = j.stack
    BY DEF Got, Building, Held
  <2> QED BY <2>1, <2>2, GotKept
<1> QED BY <1>1, <1>2, <1>3

\* The stack of builds: the top frame, a template entered, an op passed, a
\* template left
LEMMA StackTop ==
    ASSUME NEW st, NEW c, StackOK(st, c), st # <<>>
    PROVE  LET f == st[Len(st)]
           IN  f.slot \in Slots /\ c.list[f.slot] # None /\ f.loop \in Loops /\ FrameOK(f, c)
<1>1. PICK S : st \in Seq(S) /\ \A f \in S : FrameOK(f, c)
  BY DEF StackOK
<1>2. Len(st) \in Nat /\ Len(st) \in 1..Len(st)
  BY <1>1
<1>3. PICK f \in S : f = st[Len(st)]
  BY <1>1, <1>2
<1>4. FrameOK(f, c)
  BY <1>1
<1> QED BY <1>3, <1>4 DEF FrameOK

LEMMA StackChanged ==
    ASSUME NEW st, NEW c, StackOK(st, c), NEW f, FrameOK(f, c)
    PROVE  /\ StackOK(Append(st, f), c) /\ Append(st, f) # <<>>
           /\ st # <<>> => StackOK([st EXCEPT ![Len(st)] = f], c) /\ [st EXCEPT ![Len(st)] = f] # <<>>
           /\ Len(st) > 1 => StackOK(SubSeq(st, 1, Len(st) - 1), c) /\ SubSeq(st, 1, Len(st) - 1) # <<>>
<1>1. PICK S : st \in Seq(S) /\ \A g \in S : FrameOK(g, c)
  BY DEF StackOK
<1>2. PICK T : T = S \cup {f}
  OBVIOUS
<1>3. \A g \in T : FrameOK(g, c)
  BY <1>1, <1>2
<1>4. st \in Seq(T) /\ f \in T
  BY <1>1, <1>2, SMT
<1>5. Append(st, f) \in Seq(T) /\ Append(st, f) # <<>>
  BY <1>4, AppendProperties
<1>6. st # <<>> => [st EXCEPT ![Len(st)] = f] \in Seq(T) /\ Len([st EXCEPT ![Len(st)] = f]) = Len(st)
  BY <1>4, ExceptSeq
<1>7. st # <<>> => Len(st) # 0 /\ Len(<<>>) = 0
  BY <1>4
<1>8. Len(st) > 1 => SubSeq(st, 1, Len(st) - 1) \in Seq(T) /\ SubSeq(st, 1, Len(st) - 1) # <<>>
  <2> SUFFICES ASSUME Len(st) > 1 PROVE SubSeq(st, 1, Len(st) - 1) \in Seq(T) /\ SubSeq(st, 1, Len(st) - 1) # <<>>
    OBVIOUS
  <2>1. PICK n \in Nat : n = Len(st)
    BY <1>4
  <2>2. 1 \in 1 .. n + 1 /\ n - 1 \in 1 - 1 .. n /\ n - 1 # 0
    BY <2>1
  <2>3. SubSeq(st, 1, n - 1) \in Seq(T) /\ Len(SubSeq(st, 1, n - 1)) # Len(<<>>)
    BY <1>4, <2>1, <2>2, SubSeqProperties
  <2> QED BY <2>1, <2>3
<1> QED BY <1>3, <1>5, <1>6, <1>7, <1>8 DEF StackOK

LEMMA EnteredOK ==
    ASSUME NEW j, NEW c, Building(j, c), NEW s \in Slots, c.list[s] # None, NEW ct, NEW loop \in Loops
    PROVE  Building(Entered(j, s, ct, loop), c) /\ Entered(j, s, ct, loop).stack # <<>>
<1>1. PICK f : f = Frame(s, ct, j.base, loop)
  OBVIOUS
<1>2. FrameOK(f, c)
  BY <1>1 DEF Frame, FrameOK
<1>3. StackOK(Append(j.stack, f), c) /\ Append(j.stack, f) # <<>>
  BY <1>2, StackChanged DEF Building
<1>4. PICK k : k = Entered(j, s, ct, loop)
  OBVIOUS
<1>5. /\ k.phase = j.phase /\ k.addr = j.addr /\ k.slot = j.slot /\ k.stack = Append(j.stack, f)
      /\ k \in [phase : {"delays", "build"}, addr : Nat, slot : Slots, fall : Nat, bytes : Nat,
                stack : {k.stack}, base : {k.base}, count : {k.count}, got : {k.got}]
  BY <1>1, <1>4 DEF Entered, Held, Building
<1>6. Held(k, c)
  BY <1>5 DEF Held, Building
<1> QED BY <1>3, <1>4, <1>5, <1>6 DEF Building

\* The job with another stack of frames and perhaps another label base
LEMMA RestackedOK ==
    ASSUME NEW j, NEW c, Building(j, c), NEW st, StackOK(st, c), st # <<>>, NEW k,
           \/ k = [j EXCEPT !.stack = st]
           \/ \E b : k = [j EXCEPT !.stack = st, !.base = b]
    PROVE  Building(k, c) /\ k.stack # <<>>
<1>1. /\ k.phase = j.phase /\ k.addr = j.addr /\ k.slot = j.slot /\ k.stack = st
      /\ k \in [phase : {"delays", "build"}, addr : Nat, slot : Slots, fall : Nat, bytes : Nat,
                stack : {k.stack}, base : {k.base}, count : {k.count}, got : {k.got}]
  <2>1. CASE k = [j EXCEPT !.stack = st]
    BY <2>1 DEF Building, Held
  <2>2. CASE \E b : k = [j EXCEPT !.stack = st, !.base = b]
    BY <2>2 DEF Building, Held
  <2> QED BY <2>1, <2>2
<1>2. Held(k, c)
  BY <1>1 DEF Held, Building
<1> QED BY <1>1, <1>2 DEF Building

LEMMA AdvancedOK ==
    ASSUME Building(job, cache), job.stack # <<>>
    PROVE  Building(Advanced, cache) /\ Advanced.stack # <<>>
<1>1. PICK st, n : st = job.stack /\ n = Len(st)
  OBVIOUS
<1>2. StackOK(st, cache) /\ FrameOK(st[n], cache)
  BY <1>1, StackTop DEF Building
<1>3. PICK f : f = [st[n] EXCEPT !.ops = Tail(@)]
  OBVIOUS
<1>4. FrameOK(f, cache)
  BY <1>2, <1>3 DEF FrameOK
<1>5. PICK t : t = [st EXCEPT ![n] = f]
  OBVIOUS
<1>6. StackOK(t, cache) /\ t # <<>>
  BY <1>1, <1>2, <1>4, <1>5, StackChanged
<1>7. Advanced = [job EXCEPT !.stack = t]
  BY <1>1, <1>3, <1>5 DEF Advanced
<1> QED BY <1>6, <1>7, RestackedOK

\* Every way out leaves the pool in order and no job.
LEMMA FinishOK ==
    ASSUME NEW c, CacheOK(c), NEW outcome, Answered(outcome), Finish(c, outcome)
    PROVE  BuildOK(cache', job', done')
<1>1. c \in CacheType
  BY DEF CacheOK
<1>2. PICK r : r = [c EXCEPT !.pin = None]
  OBVIOUS
<1>3. r \in CacheType /\ r.list = c.list /\ r.hash = c.hash
  BY <1>1, <1>2 DEF CacheType
<1>4. CacheOK(r)
  BY <1>3 DEF CacheOK
<1> QED BY <1>2, <1>4 DEF Finish, BuildOK

LEMMA FailOK ==
    ASSUME NEW c, CacheOK(c), Fail(c)
    PROVE  BuildOK(cache', job', done')
<1>1. Answered([addr |-> job.addr, ok |-> FALSE])
  BY DEF Answered
<1> QED BY <1>1, FinishOK DEF Fail

\* While there is a job its phase tells which.
LEMMA Phases ==
    ASSUME BuildInv
    PROVE  /\ job.phase = "delays" => Preparing(job, cache)
           /\ job.phase = "build" => Building(job, cache) /\ job.stack # <<>>
           /\ CacheOK(cache) /\ code \in Programs /\ Answered(done)
<1>1. job = Idle => job.phase = "idle"
  BY DEF Idle
<1> QED BY <1>1 DEF BuildInv, BuildOK, JobOK, Preparing, Building

\* The frame on top while an op or its end is at hand
LEMMA TopFacts ==
    ASSUME BuildInv, job.phase = "build"
    PROVE  /\ Building(job, cache) /\ job.stack # <<>>
           /\ Top.slot \in Slots /\ cache.list[Top.slot] \in ParserContext /\ cache.list[Top.slot] # None
           /\ Top.loop \in Loops
           /\ CacheOK(cache) /\ code \in Programs /\ Answered(done)
<1>1. Building(job, cache) /\ job.stack # <<>> /\ CacheOK(cache) /\ code \in Programs /\ Answered(done)
  BY Phases
<1>2. Top.slot \in Slots /\ cache.list[Top.slot] # None /\ Top.loop \in Loops
  BY <1>1, StackTop DEF Building, Top
<1>3. cache.list[Top.slot] \in ParserContext
  BY <1>1, <1>2 DEF CacheOK, CacheType
<1> QED BY <1>1, <1>2, <1>3

LEMMA StartedOK ==
    ASSUME BuildInv, NEW a \in DOMAIN code, TranslateInstructionAt(a)
    PROVE  BuildOK(cache', job', done')
<1>1. CacheOK(cache) /\ code \in Programs /\ Answered(done) /\ a \in Nat
  BY CodeFacts DEF BuildInv, BuildOK
<1>2. PICK r : r = ObtainPcodeContext(cache, a, code)
  OBVIOUS
<1>3. Gets(cache, r, a) /\ (r.ok => r.cache.list[r.slot].state = Pcode /\ r.cache.list[r.slot].n2 = None)
  BY <1>1, <1>2, PcodeContextObtained
<1>3a. PICK c : c = r.cache
  OBVIOUS
<1>4. PICK s \in Slots : s = r.slot /\ c = r.cache /\ CacheOK(c)
  BY <1>3, <1>3a DEF Gets, Moved, Obtained
<1>5. CASE ~r.ok
  <2>1. job' = Idle /\ done' = [addr |-> a, ok |-> FALSE] /\ cache' = c
    BY <1>2, <1>4, <1>5 DEF TranslateInstructionAt
  <2> QED BY <1>4, <2>1 DEF BuildOK, Answered
<1>6. CASE r.ok
  <2>1. PICK x \in ParserContext : x = c.list[s] /\ x.addr = a /\ x.state = Pcode /\ x # None /\ x.n2 = None
    BY <1>3, <1>4, <1>6, SlotFacts DEF Gets, Obtained
  <2>2. /\ cache' = [c EXCEPT !.pin = s]
        /\ job' = [phase |-> "delays", addr |-> a, slot |-> s, fall |-> x.len, bytes |-> 0,
                   stack |-> <<>>, base |-> 0, count |-> 0, got |-> {<<s, a>>}]
        /\ done' = None
    BY <1>2, <1>4, <1>6, <2>1 DEF TranslateInstructionAt
  <2>3. cache' \in CacheType /\ cache'.list = c.list /\ cache'.hash = c.hash /\ cache'.pin = s
    <3>1. c \in CacheType
      BY <1>4 DEF CacheOK
    <3> QED BY <2>2, <3>1 DEF CacheType
  <2>4. CacheOK(cache')
    BY <1>4, <2>3 DEF CacheOK
  <2>5. x.len \in Nat /\ x.len + 0 = x.len
    BY <2>1 DEF ParserContext
  <2>6. Held(job', cache')
    BY <1>1, <2>1, <2>2, <2>3, <2>5 DEF Held, AfterNextExact
  <2>6a. DelaySlotsLead(a, a + x.len)
    <3>1. x.len = code[a].len
      BY <1>4, <2>1 DEF CacheOK, ContextOK, Decoded, Disassembly, Pcode
    <3>2. PICK T \in SUBSET DOMAIN code : T = {}
      OBVIOUS
    <3>3. a + code[a].len \in T \cup {a + x.len}
      BY <3>1
    <3> QED BY <3>2, <3>3, Zenon DEF DelaySlotsLead
  <2>7. Preparing(job', cache')
    BY <2>1, <2>2, <2>3, <2>5, <2>6, <2>6a DEF Preparing
  <2> QED BY <2>2, <2>4, <2>7 DEF BuildOK, JobOK, Answered
<1> QED BY <1>5, <1>6

\* One more delay slot, and enough of them
LEMMA LeadFarther ==
    ASSUME NEW a, NEW e \in DOMAIN code, DelaySlotsLead(a, e),
           e < a + code[a].len + code[a].delay, code[e].len > 0
    PROVE  DelaySlotsLead(a, e + code[e].len)
<1>1. PICK first, enough, e2 : first = a + code[a].len /\ enough = first + code[a].delay /\ e2 = e + code[e].len
  OBVIOUS
<1>2. PICK T \in SUBSET DOMAIN code :
         /\ first \in T \cup {e}
         /\ \A t \in T : t < enough /\ code[t].len > 0 /\ t + code[t].len \in T \cup {e}
  BY <1>1, Zenon DEF DelaySlotsLead
<1>3. PICK U : U = T \cup {e}
  OBVIOUS
<1>4. U \in SUBSET DOMAIN code /\ first \in U \cup {e2}
  BY <1>2, <1>3
<1>5. \A t \in U : t < enough /\ code[t].len > 0 /\ t + code[t].len \in U \cup {e2}
  BY <1>1, <1>2, <1>3
<1>6. DelaySlotsLead(a, e2)
  BY <1>1, <1>4, <1>5, Zenon DEF DelaySlotsLead
<1> QED BY <1>1, <1>6

LEMMA LeadEnds ==
    ASSUME code \in Programs, NEW a \in DOMAIN code, NEW e, DelaySlotsLead(a, e),
           e >= a + code[a].len + code[a].delay, code[a].delay > 0
    PROVE  DelaySlotsEnd(a, e)
<1>1. PICK first, enough : first = a + code[a].len /\ enough = first + code[a].delay
  OBVIOUS
<1>2. PICK T \in SUBSET DOMAIN code :
         /\ first \in T \cup {e}
         /\ \A t \in T : t < enough /\ code[t].len > 0 /\ t + code[t].len \in T \cup {e}
  BY <1>1, Zenon DEF DelaySlotsLead
<1>3. first \in Nat /\ code[a].delay \in Nat
  BY <1>1, CodeFacts
<1>4. first # e
  BY <1>1, <1>3
<1>5. first \in T
  BY <1>2, <1>4
<1> QED BY <1>1, <1>2, <1>5, Zenon DEF DelaySlotsEnd

LEMMA DelayPreparedOK ==
    ASSUME BuildInv, PrepareDelaySlot
    PROVE  BuildOK(cache', job', done')
<1>1. Preparing(job, cache) /\ CacheOK(cache) /\ code \in Programs /\ Answered(done)
  BY Phases DEF PrepareDelaySlot
<1>2. PICK x \in ParserContext : x = cache.list[job.slot]
  BY <1>1 DEF Preparing, Held, CacheOK, CacheType
<1>3. PICK a \in Nat : a = x.addr + job.fall
  BY SMTT(30), <1>1, <1>2 DEF Preparing, Held, ParserContext
<1>4. PICK r : r = ObtainPcodeContext(cache, a, code)
  OBVIOUS
<1>5. Gets(cache, r, a)
  BY <1>1, <1>4, PcodeContextObtained
<1>6. PICK s, c, len : s = r.slot /\ c = r.cache /\ len = c.list[s].len
  OBVIOUS
<1>6a. s \in Slots /\ CacheOK(c) /\ Moved(cache, c) /\ len \in Nat
  BY <1>5, <1>6 DEF Gets, Moved, Obtained, ParserContext
<1>7. CASE r.ok /\ len > 0
  <2>1. cache' = c /\ done' = done
        /\ job' = Got([job EXCEPT !.fall = @ + len, !.bytes = @ + len], s, a)
    BY <1>2, <1>3, <1>4, <1>6, <1>7 DEF PrepareDelaySlot
  <2>2. PICK k : k = [job EXCEPT !.fall = @ + len, !.bytes = @ + len]
    OBVIOUS
  <2>3. Preparing(job, c)
    BY <1>1, <1>6, <1>6a, PreparingMoved
  <2>3a. job.fall \in Nat /\ job.bytes \in Nat /\ job.fall + len \in Nat /\ job.bytes + len \in Nat
    BY SMTT(30), <1>6a, <2>3 DEF Preparing, Held
  <2>4. /\ k.phase = "delays" /\ k.addr = job.addr /\ k.slot = job.slot /\ k.stack = <<>>
        /\ k.fall = job.fall + len /\ k.bytes = job.bytes + len
        /\ k \in [phase : {"delays", "build"}, addr : Nat, slot : Slots, fall : Nat, bytes : Nat,
                  stack : {k.stack}, base : {k.base}, count : {k.count}, got : {k.got}]
    BY <2>2, <2>3, <2>3a DEF Preparing, Held
  <2>5. Held(k, c)
    BY <2>3, <2>4 DEF Preparing, Held
  <2>6. k.fall = c.list[k.slot].len + k.bytes
    <3>1. c.list[job.slot] \in ParserContext
      BY <1>6a, <2>3 DEF Preparing, Held, CacheOK, CacheType
    <3>2. PICK l \in Nat, b \in Nat : l = c.list[job.slot].len /\ b = job.bytes /\ job.fall = l + b
      BY <2>3, <2>3a, <3>1 DEF Preparing, ParserContext
    <3> QED BY SMTT(30), <1>6a, <2>4, <3>2
  <2>6a. DelaySlotsLead(k.addr, k.addr + k.fall)
    <3>1. r.ok => r.cache.list[r.slot].state = Pcode
      BY <1>1, <1>4, PcodeContextObtained
    <3>2. PICK z \in ParserContext : z = c.list[s] /\ z.addr = a /\ z.state = Pcode /\ z # None /\ z.len = len
      BY <1>5, <1>6, <1>7, <3>1, SlotFacts DEF Gets, Obtained
    <3>3. a \in DOMAIN code /\ code[a].len = len
      BY <1>6a, <3>2 DEF CacheOK, ContextOK, Decoded, Disassembly, Pcode
    <3>4. /\ x.addr = job.addr /\ x.addr \in DOMAIN code /\ x.len = code[x.addr].len /\ x.delay = code[x.addr].delay
          /\ job.bytes < x.delay /\ job.fall = x.len + job.bytes
      <4>1. x.addr = job.addr /\ x.state = Pcode /\ job.fall = x.len + job.bytes
        BY <1>1, <1>2 DEF Preparing, Held
      <4>2. ContextOK(x)
        BY SMTT(30), <1>1, <1>2, SlotFacts DEF Preparing, Held, CacheOK
      <4>3. job.bytes < x.delay
        BY <1>2 DEF PrepareDelaySlot
      <4> QED BY <4>1, <4>2, <4>3 DEF ContextOK, Decoded, Disassembly, Pcode
    <3>5. a < x.addr + x.len + x.delay
      BY <1>2, <1>3, <2>3a, <3>4 DEF ParserContext
    <3>6. DelaySlotsLead(x.addr, a)
      BY <1>1, <1>3, <3>4 DEF Preparing
    <3>7. DelaySlotsLead(x.addr, a + len)
      BY <1>7, <3>3, <3>4, <3>5, <3>6, LeadFarther
    <3>8. a + len = k.addr + k.fall
      <4>1. PICK n \in Nat, f \in Nat : n = x.addr /\ f = job.fall /\ a = n + f
        BY <1>2, <1>3, <2>3a DEF ParserContext
      <4>2. k.addr = n /\ k.fall = f + len
        BY <2>4, <3>4, <4>1
      <4> QED BY <1>6a, <4>1, <4>2
    <3> QED BY <2>4, <3>4, <3>7, <3>8
  <2>7. Preparing(Got(k, s, a), c)
    BY <2>4, <2>5, <2>6, <2>6a, GotKept DEF Preparing
  <2>8. job' = Got(k, s, a)
    BY <2>1, <2>2
  <2> QED BY SMTT(30), <1>1, <1>6a, <2>1, <2>7, <2>8 DEF BuildOK, JobOK
<1>8. CASE ~(r.ok /\ len > 0)
  <2>1. Fail(c)
    BY <1>2, <1>3, <1>4, <1>6, <1>8 DEF PrepareDelaySlot
  <2> QED BY SMTT(30), <1>6, <1>6a, <2>1, FailOK
<1> QED BY SMTT(30), <1>7, <1>8

LEMMA BuildEnteredOK ==
    ASSUME BuildInv, EnterBuild
    PROVE  BuildOK(cache', job', done')
<1>1. Preparing(job, cache) /\ CacheOK(cache) /\ code \in Programs /\ Answered(done)
  BY Phases DEF EnterBuild
<1>2. PICK s \in Slots, x \in ParserContext : s = job.slot /\ x = cache.list[s] /\ x # None
  BY <1>1 DEF Preparing, Held, CacheOK, CacheType
<1>3. ContextOK(x) /\ x.state = Pcode /\ x.addr = job.addr
  BY SMTT(30), <1>1, <1>2 DEF Preparing, Held, CacheOK
<1>4. /\ x.addr \in Nat /\ x.len \in Nat /\ x.delay \in Nat /\ job.bytes \in Nat
      /\ job.fall = x.len + job.bytes /\ job.bytes >= x.delay
      /\ x.delay = code[x.addr].delay /\ x.len = code[x.addr].len
  BY SMTT(30), <1>1, <1>2, <1>3 DEF Preparing, Held, ParserContext, EnterBuild, ContextOK, Decoded, Disassembly, Pcode
<1>5. PICK c : c = IF x.delay = 0 THEN cache ELSE [cache EXCEPT !.list[s].naddr = behindSlots(x, job.fall)]
  OBVIOUS
<1>6. CacheOK(c) /\ c.pin = cache.pin /\ c.list[s] \in ParserContext /\ c.list[s] # None
      /\ c.list[s].addr = x.addr /\ c.list[s].state = Pcode /\ c.list[s].len = x.len /\ PastDelays(c.list[s])
      /\ c.list[s].n2 = x.n2
  <2>1. CASE x.delay = 0
    <3>1. c = cache /\ c.list[s] = x
      BY <1>2, <1>5, <2>1
    <3>2. PastDelays(x)
      BY <1>4, <2>1 DEF PastDelays
    <3> QED BY <1>1, <1>2, <1>3, <3>1, <3>2
  <2>2. CASE x.delay # 0
    <3>1. PICK n \in Nat : n = x.addr + job.fall /\ n >= x.addr + x.len + x.delay
      BY <1>4
    <3>1a. DelaySlotsEnd(x.addr, n)
      <4>1. x.addr \in DOMAIN code /\ code[x.addr].delay > 0
        BY <1>3, <1>4, <2>2 DEF ContextOK, Decoded, Disassembly, Pcode
      <4>2. DelaySlotsLead(x.addr, n)
        BY <1>1, <1>3, <3>1 DEF Preparing
      <4> QED BY <1>1, <1>4, <3>1, <4>1, <4>2, LeadEnds
    <3>2. PICK y : y = [x EXCEPT !.naddr = n]
      OBVIOUS
    <3>3. /\ y \in ParserContext /\ y.naddr = n /\ y.addr = x.addr /\ y.len = x.len /\ y.delay = x.delay
          /\ y.state = x.state /\ y.lazy = x.lazy /\ y.n2 = x.n2
      BY <3>2 DEF ParserContext
    <3>4. NextExact(y.addr, y.naddr)
      BY <3>1a, <3>3 DEF NextExact
    <3>5. ContextOK(y) /\ PastDelays(y)
      BY <1>3, <3>1a, <3>3, <3>4 DEF ContextOK, Decoded, PastDelays
    <3>6. c = [cache EXCEPT !.list[s] = y]
      BY <1>2, <1>5, <2>2, <3>1, <3>2 DEF behindSlots
    <3>7. CacheOK(c) /\ c.list[s] = y /\ c.pin = cache.pin
      BY SMTT(30), <1>1, <3>3, <3>5, <3>6, PutOK
    <3> QED BY <1>3, <3>3, <3>5, <3>7, SlotFacts
  <2> QED BY <2>1, <2>2
<1>7. Preparing(job, c)
  <2>1. Held(job, c)
    BY <1>1, <1>2, <1>3, <1>6 DEF Preparing, Held
  <2> QED BY <1>1, <1>2, <1>4, <1>6, <2>1 DEF Preparing
<1>8. PICK j1, j2 : j1 = GotN2(job, c, s) /\ j2 = [j1 EXCEPT !.phase = "build"]
  OBVIOUS
<1>9. Preparing(j1, c)
  BY <1>7, <1>8, GotN2Kept
<1>10. Building(j2, c)
  <2>1. /\ j2.phase = "build" /\ j2.addr = j1.addr /\ j2.slot = j1.slot /\ j2.stack = <<>>
        /\ j2 \in [phase : {"delays", "build"}, addr : Nat, slot : Slots, fall : Nat, bytes : Nat,
                   stack : {j2.stack}, base : {j2.base}, count : {j2.count}, got : {j2.got}]
    BY <1>8, <1>9 DEF Preparing, Held
  <2>2. Held(j2, c)
    BY <1>9, <2>1 DEF Preparing, Held
  <2>3. StackOK(<<>>, c)
    <3>1. PICK S : S = {}
      OBVIOUS
    <3>2. <<>> \in Seq(S) /\ \A f \in S : FrameOK(f, c)
      BY <3>1
    <3> QED BY <3>2 DEF StackOK
  <2>4. c.pin = s /\ j2.slot = s
    BY <1>1, <1>2, <1>6, <2>2 DEF Preparing, Held
  <2> QED BY <1>6, <2>1, <2>2, <2>3, <2>4 DEF Building
<1>11. PICK r : r = WithN2addr(c, s, code)
  OBVIOUS
<1>12. Moved(c, r)
  BY <1>1, <1>6, <1>11, N2addrAsked
<1>13. CacheOK(r) /\ r.list[s] # None /\ Building(j2, r)
  BY SMTT(30), <1>6, <1>10, <1>12, BuildingMoved DEF Moved
<1>14. cache' = r /\ done' = done /\ \E ct : job' = Entered(j2, s, ct, NoLoop)
  BY <1>2, <1>5, <1>8, <1>11 DEF EnterBuild
<1>15. PICK ct : job' = Entered(j2, s, ct, NoLoop)
  BY <1>14
<1>16. NoLoop \in Loops
  BY DEF Loops
<1>17. Building(job', cache') /\ job'.stack # <<>>
  BY <1>13, <1>14, <1>15, <1>16, EnteredOK
<1> QED BY SMTT(30), <1>1, <1>13, <1>14, <1>17 DEF BuildOK, JobOK

LEMMA DumpOK ==
    ASSUME BuildInv, NEW k, Dump(k)
    PROVE  BuildOK(cache', job', done')
<1>1. job.phase = "build"
  BY DEF Dump, AtOp
<1>2. Building(job, cache) /\ job.stack # <<>> /\ CacheOK(cache) /\ code \in Programs /\ Answered(done)
      /\ Top.slot \in Slots /\ cache.list[Top.slot] # None
  BY <1>1, TopFacts
<1>3. PICK c : c = WithN2addr(cache, Top.slot, code)
  OBVIOUS
<1>4. Moved(cache, c)
  BY <1>2, <1>3, N2addrAsked
<1>5. CacheOK(c)
  BY <1>4 DEF Moved
<1>6. Building(Advanced, cache) /\ Advanced.stack # <<>>
  BY <1>2, AdvancedOK
<1>7. Building(Advanced, c)
  BY <1>2, <1>4, <1>6, BuildingMoved
<1>8. PICK j : j = GotN2(Advanced, cache, Top.slot)
  OBVIOUS
<1>9. Building(j, c) /\ j.stack # <<>>
  BY <1>6, <1>7, <1>8, GotN2Kept
<1>10. cache' = c /\ job' = j /\ done' = done
  BY <1>3, <1>8 DEF Dump
<1> QED BY <1>2, <1>5, <1>9, <1>10 DEF BuildOK, JobOK

LEMMA RefusedOK ==
    ASSUME BuildInv, LowerRefused
    PROVE  BuildOK(cache', job', done')
<1>1. job.phase = "build"
  BY DEF LowerRefused, AtOp
<1>2. CacheOK(cache) /\ code \in Programs /\ Top.slot \in Slots /\ cache.list[Top.slot] # None
  BY <1>1, TopFacts
<1>3. Moved(cache, WithN2addr(cache, Top.slot, code))
  BY <1>2, N2addrAsked
<1> QED BY <1>3, FailOK DEF LowerRefused, Moved

LEMMA LabelOK ==
    ASSUME BuildInv, SetLabel
    PROVE  BuildOK(cache', job', done')
<1>1. job.phase = "build" /\ cache' = cache /\ job' = Advanced /\ done' = done
  BY DEF SetLabel, AtOp
<1>2. Building(job, cache) /\ job.stack # <<>> /\ CacheOK(cache) /\ Answered(done)
  BY <1>1, Phases
<1>3. Building(Advanced, cache) /\ Advanced.stack # <<>>
  BY <1>2, AdvancedOK
<1> QED BY <1>1, <1>2, <1>3 DEF BuildOK, JobOK

LEMMA AppendOK ==
    ASSUME BuildInv, AppendBuild
    PROVE  BuildOK(cache', job', done')
<1>1. PICK ct : ct = Head(Top.ops).ct
  OBVIOUS
<1>2. job.phase = "build" /\ cache' = cache /\ done' = done /\ job' = Entered(Advanced, Top.slot, ct, NoLoop)
  BY <1>1 DEF AppendBuild, AtOp
<1>3. Building(job, cache) /\ job.stack # <<>> /\ CacheOK(cache) /\ Answered(done)
      /\ Top.slot \in Slots /\ cache.list[Top.slot] # None
  BY <1>2, TopFacts
<1>4. Building(Advanced, cache)
  BY <1>3, AdvancedOK
<1>5. NoLoop \in Loops
  BY DEF Loops
<1>6. PICK j : j = Entered(Advanced, Top.slot, ct, NoLoop)
  OBVIOUS
<1>7. Building(j, cache) /\ j.stack # <<>>
  BY <1>3, <1>4, <1>5, <1>6, EnteredOK
<1> QED BY <1>2, <1>3, <1>6, <1>7 DEF BuildOK, JobOK

\* The slot the table names for an address whose context has p-code
LEMMA HasPcodeFacts ==
    ASSUME NEW c, CacheOK(c), NEW a \in Nat, HasPcode(c, a)
    PROVE  LET s == c.hash[hashIndex(a)]
           IN  s \in Slots /\ c.list[s] # None /\ c.list[s] \in ParserContext /\ c.list[s].addr = a
<1>1. PICK s \in Slots : s = c.hash[hashIndex(a)] /\ c.list[s].addr = a
  BY SlotFacts DEF HasPcode, Cached, CacheOK, CacheType
<1>2. c.list[s] # None /\ c.list[s] \in ParserContext
  BY <1>1, SlotFacts DEF CacheOK, CacheType
<1> QED BY <1>1, <1>2

LEMMA DelayedOK ==
    ASSUME BuildInv, NEW j, Building(j, cache),
           NEW loop \in [start : Nat, fall : Nat, need : Nat], BuildDelayed(j, loop)
    PROVE  BuildOK(cache', job', done')
<1>1. CacheOK(cache) /\ code \in Programs /\ Answered(done)
  BY DEF BuildInv, BuildOK
<1>2. PICK a \in Nat : a = loop.start + loop.fall
  OBVIOUS
<1>3. PICK r, ct : r = RequireOrObtain(cache, a, code) /\ ct = code[a].ct
  OBVIOUS
<1>4. CASE HasPcode(cache, a)
  <2>1. PICK s \in Slots : s = cache.hash[hashIndex(a)] /\ cache.list[s] # None
    BY <1>1, <1>4, HasPcodeFacts
  <2>2. r.cache = cache /\ r.slot = s /\ r.ok
    BY <1>3, <1>4, <2>1 DEF RequireOrObtain
  <2>3. CASE cache.list[s].len > 0
    <3>1. PICK k : k = Entered(j, s, ct, loop)
      OBVIOUS
    <3>2. Building(k, cache) /\ k.stack # <<>>
      BY <2>1, <3>1, EnteredOK DEF Loops
    <3>3. PICK g : g = Got(k, s, a)
      OBVIOUS
    <3>4. Building(g, cache) /\ g.stack = k.stack
      <4>1. g.stack = k.stack
        BY <3>2, <3>3 DEF Got, Building, Held
      <4> QED BY <3>2, <3>3, <4>1, GotKept
    <3>5. job' = g /\ cache' = cache /\ done' = done
      BY <1>2, <1>3, <2>2, <2>3, <3>1, <3>3 DEF BuildDelayed
    <3> QED BY <1>1, <3>2, <3>4, <3>5 DEF BuildOK, JobOK
  <2>4. CASE ~(cache.list[s].len > 0)
    <3>1. Fail(cache)
      BY <1>2, <1>3, <2>2, <2>4 DEF BuildDelayed
    <3> QED BY <1>1, <3>1, FailOK
  <2> QED BY <2>3, <2>4
<1>5. CASE ~HasPcode(cache, a)
  <2>1. PICK q : q = ObtainContext(cache, a, Disassembly, code)
    OBVIOUS
  <2>2. CacheOK(q.cache)
    BY <1>1, <2>1, ContextObtained DEF Gets, Moved
  <2>3. q = [cache |-> q.cache, slot |-> q.slot, ok |-> q.ok]
    BY <2>1 DEF ObtainContext
  <2>4. r = [q EXCEPT !.ok = FALSE]
    BY <1>3, <1>5, <2>1 DEF RequireOrObtain
  <2>5. r.cache = q.cache /\ ~r.ok
    BY <2>3, <2>4
  <2>6. Fail(q.cache)
    BY <1>2, <1>3, <2>5 DEF BuildDelayed
  <2> QED BY <2>2, <2>6, FailOK
<1> QED BY <1>4, <1>5

LEMMA DelaySlotOK ==
    ASSUME BuildInv, DelaySlot
    PROVE  BuildOK(cache', job', done')
<1>1. job.phase = "build"
  BY DEF DelaySlot, AtOp
<1>2. Building(job, cache) /\ job.stack # <<>> /\ CacheOK(cache) /\ Answered(done)
  BY <1>1, Phases
<1>3. PICK src \in ParserContext : src = cache.list[Top.slot]
  BY <1>1, TopFacts
<1>4. Building(Advanced, cache) /\ Advanced.stack # <<>>
  BY <1>2, AdvancedOK
<1>5. PICK loop : loop = [start |-> src.addr, fall |-> src.len, need |-> src.delay]
  OBVIOUS
<1>6. loop \in [start : Nat, fall : Nat, need : Nat]
  BY <1>5 DEF ParserContext
<1>7. \/ Fail(cache)
      \/ job' = Advanced /\ cache' = cache /\ done' = done
      \/ BuildDelayed(Advanced, loop)
  BY <1>3, <1>5 DEF DelaySlot
<1>8. CASE Fail(cache)
  BY <1>2, <1>8, FailOK
<1>9. CASE job' = Advanced /\ cache' = cache /\ done' = done
  BY <1>2, <1>4, <1>9 DEF BuildOK, JobOK
<1>10. CASE BuildDelayed(Advanced, loop)
  BY <1>4, <1>6, <1>10, DelayedOK
<1> QED BY <1>7, <1>8, <1>9, <1>10

LEMMA LeaveOK ==
    ASSUME BuildInv, LeaveBuild
    PROVE  BuildOK(cache', job', done')
<1>1. job.phase = "build" /\ Len(job.stack) > 1
  BY DEF LeaveBuild
<1>2. Building(job, cache) /\ job.stack # <<>> /\ CacheOK(cache) /\ Answered(done)
      /\ cache.list[Top.slot] \in ParserContext /\ Top.loop \in Loops
  BY <1>1, TopFacts
<1>3. PICK len \in Nat : len = cache.list[Top.slot].len
  BY <1>2 DEF ParserContext
<1>4. PICK st : st = SubSeq(job.stack, 1, Len(job.stack) - 1)
  OBVIOUS
<1>5. StackOK(st, cache) /\ st # <<>>
  <2>1. StackOK(job.stack, cache) /\ FrameOK(job.stack[Len(job.stack)], cache)
    BY <1>2, StackTop DEF Building
  <2> QED BY <1>1, <1>4, <2>1, StackChanged
<1>6. PICK popped : popped = [job EXCEPT !.stack = st, !.base = Top.base]
  OBVIOUS
<1>7. Building(popped, cache) /\ popped.stack # <<>>
  BY <1>2, <1>5, <1>6, RestackedOK
<1>8. popped = [job EXCEPT !.stack = SubSeq(@, 1, Len(@) - 1), !.base = Top.base]
  BY <1>4, <1>6
<1>9. PICK loop : loop = [Top.loop EXCEPT !.fall = @ + len, !.need = @ - len]
  OBVIOUS
<1>10. \/ Fail(cache)
       \/ job' = popped /\ cache' = cache /\ done' = done
       \/ Top.loop # NoLoop /\ Top.loop.need > len /\ BuildDelayed(popped, loop)
  BY <1>3, <1>8, <1>9 DEF LeaveBuild
<1>11. CASE Fail(cache)
  BY <1>2, <1>11, FailOK
<1>12. CASE job' = popped /\ cache' = cache /\ done' = done
  BY <1>2, <1>7, <1>12 DEF BuildOK, JobOK
<1>13. CASE Top.loop # NoLoop /\ Top.loop.need > len /\ BuildDelayed(popped, loop)
  <2>1. PICK l \in [start : Nat, fall : Nat, need : Nat] : l = Top.loop /\ l.need > len
    BY <1>2, <1>13 DEF Loops
  <2>2. l.fall + len \in Nat /\ l.need - len \in Nat
    BY <2>1
  <2>3. loop \in [start : Nat, fall : Nat, need : Nat]
    BY <1>9, <2>1, <2>2
  <2> QED BY <1>7, <1>13, <2>3, DelayedOK
<1> QED BY <1>10, <1>11, <1>12, <1>13

LEMMA EmitOK ==
    ASSUME BuildInv, ResolveAndEmit
    PROVE  BuildOK(cache', job', done')
<1>1. job.phase = "build"
  BY DEF ResolveAndEmit
<1>2. Building(job, cache) /\ CacheOK(cache) /\ code \in Programs
  BY <1>1, Phases
<1>3. PICK d : d = [addr |-> job.addr, ok |-> TRUE, next |-> cache.list[job.slot].naddr,
                    ops |-> Emitted(ResolveRelatives(raw))]
  OBVIOUS
<1>4. Fail(cache) \/ Finish(cache, d)
  BY <1>3 DEF ResolveAndEmit
<1>5. PICK x \in ParserContext : x = cache.list[job.slot] /\ x.addr = job.addr /\ x.state = Pcode /\ ContextOK(x)
                                 /\ PastDelays(x)
  BY <1>2 DEF Building, Held, CacheOK, CacheType
<1>6. /\ x.addr \in DOMAIN code /\ x.len = code[x.addr].len /\ x.delay = code[x.addr].delay
      /\ NextExact(x.addr, x.naddr)
  BY <1>5 DEF ContextOK, Decoded, Disassembly, Pcode
<1>7. code[x.addr].delay \in Nat /\ code[x.addr].len \in Nat /\ x.addr \in Nat
  BY <1>2, <1>6, CodeFacts
<1>7a. code[x.addr].delay = 0 => ~DelaySlotsEnd(x.addr, x.naddr)
  BY <1>7 DEF DelaySlotsEnd
<1>8. Answered(d)
  <2>1. d.addr = x.addr /\ d.next = x.naddr
    BY <1>3, <1>5
  <2>2. IF code[x.addr].delay = 0 THEN x.naddr = x.addr + code[x.addr].len ELSE DelaySlotsEnd(x.addr, x.naddr)
    BY <1>5, <1>6, <1>7, <1>7a DEF NextExact, PastDelays
  <2> QED BY <2>1, <2>2 DEF Answered
<1> QED BY <1>2, <1>4, <1>8, FailOK, FinishOK

\* Every step of the translator keeps the pool and the translation in order.
LEMMA BuildStep ==
    ASSUME BuildInv, Next
    PROVE  BuildInv'
<1>1. CASE \E a \in DOMAIN code : TranslateInstructionAt(a)
  <2>1. PICK a \in DOMAIN code : TranslateInstructionAt(a)
    BY <1>1
  <2>2. code' = code
    BY <2>1 DEF TranslateInstructionAt
  <2> QED BY <2>1, <2>2, StartedOK, BuildKept
<1>2. CASE Work
  <2>1. code' = code
    BY <1>2 DEF Work, PrepareDelaySlot, EnterBuild, Dump, LowerRefused, SetLabel, AppendBuild, DelaySlot, LeaveBuild,
         ResolveAndEmit, BuildDelayed, Fail, Finish
  <2>2. BuildOK(cache', job', done')
    BY <1>2, DelayPreparedOK, BuildEnteredOK, DumpOK, RefusedOK, LabelOK, AppendOK, DelaySlotOK, LeaveOK, EmitOK DEF Work
  <2> QED BY SMTT(30), <2>1, <2>2, BuildKept
<1> QED BY <1>1, <1>2 DEF Next

LEMMA BuildInit ==
    ASSUME Init
    PROVE  BuildInv
<1>1. cache = EmptyCache /\ job = Idle /\ done = None /\ code \in Programs
  BY DEF Init
<1>2. EmptyCache \in CacheType
  <2>1. 0 \in Slots
    BY SlotFacts DEF Slots
  <2> QED BY <2>1 DEF EmptyCache, CacheType
<1>3. CacheOK(EmptyCache)
  BY <1>2 DEF EmptyCache, CacheOK
<1> QED BY <1>1, <1>3 DEF BuildInv, BuildOK, Answered

\* Contexts are typed and hold the decode of their own address, the instruction
\* being translated keeps its pinned context, and what the builder stands on is
\* there: the inductive invariant of a translation.
THEOREM TranslationInvariant == Spec => []BuildInv
<1>1. BuildInv /\ [Next]_vars => BuildInv'
  <2>1. BuildInv /\ UNCHANGED vars => BuildInv'
    <3> SUFFICES ASSUME BuildInv, UNCHANGED vars PROVE BuildInv'
      OBVIOUS
    <3>1. code' = code /\ cache' = cache /\ job' = job /\ done' = done
      BY DEF vars
    <3> QED BY <3>1, BuildKept DEF BuildInv
  <2> QED BY <2>1, BuildStep
<1> QED BY <1>1, BuildInit, PTL DEF Spec

\* A context past decoding holds the decode of its own address, whatever its
\* slot served before (ObtainParserContext in discache.go, Resolve in
\* resolve.go), for a pool, a hash table and code of any size.
THEOREM ContextsHoldTheirDecode == Spec => []ContextsOwnDecode
<1>1. BuildInv => ContextsOwnDecode
  BY DEF BuildInv, BuildOK, CacheOK, ContextOK, Decoded, ContextsOwnDecode
<1> QED BY <1>1, TranslationInvariant, PTL

\* The next address of a context past decoding is where its instruction ends, or
\* where its delay slots do, each of them counted with the bytes it has
\* (prepareDelaySlotContexts in translate.go), for any code and any pool.
THEOREM NextAddressStaysExact == Spec => []NextAddressExact
<1>1. BuildInv => NextAddressExact
  BY DEF BuildInv, BuildOK, CacheOK, ContextOK, Decoded, NextAddressExact
<1> QED BY <1>1, TranslationInvariant, PTL

\* The pinned context of the instruction being translated is its own until the
\* answer is out, the address after next in it is that of its own code, and the
\* answer goes on exactly where the instruction and its delay slots end
\* (PinContext and nextReuseSlot in discache.go, TranslateSubtable).
THEOREM RootContextSurvives == Spec => []RootSurvives
<1>1. BuildInv => RootSurvives
  <2> SUFFICES ASSUME BuildInv PROVE RootSurvives
    OBVIOUS
  <2>1. job # Idle => Held(job, cache)
    BY DEF BuildInv, BuildOK, JobOK, Preparing, Building
  <2>2. Answered(done)
    BY DEF BuildInv, BuildOK
  <2> QED BY <2>1, <2>2 DEF Held, Answered, RootSurvives
<1> QED BY <1>1, TranslationInvariant, PTL

-----------------------------------------------------------------------------
(* The staging area *)

\* One current pool, never longer than its capacity; every issued op views it,
\* in varnodes of its own, and a waiting branch is an issued op.
RawOK(r) ==
    /\ r \in [cap : Nat, pools : {r.pools}, issued : {r.issued}, refs : {r.refs}, labels : {r.labels}]
    /\ r.pools # <<>> /\ \E P : r.pools \in Seq(P)
    /\ \E V : Pool(r) \in Seq(V)
    /\ Len(Pool(r)) <= r.cap
    /\ \E R : r.issued \in Seq([rec : R, start : 1..Len(Pool(r)), gen : {Len(r.pools)}])
    /\ \A i \in 1..Len(r.issued) : \A k \in 1..i - 1 : r.issued[k].start < r.issued[i].start
    /\ \A ref \in r.refs :
          ref.at \in Nat /\ ref.at + 1 \in 1..Len(r.issued) /\ r.issued[ref.at + 1].start = ref.slot

LEMMA EmptyRawOK ==
    ASSUME NEW cap \in Nat
    PROVE  RawOK(EmptyRaw(cap))
<1>1. PICK r : r = EmptyRaw(cap)
  OBVIOUS
<1>2. r.cap = cap /\ r.pools = << <<>> >> /\ r.issued = <<>> /\ r.refs = {}
      /\ r \in [cap : Nat, pools : {r.pools}, issued : {r.issued}, refs : {r.refs}, labels : {r.labels}]
  BY <1>1 DEF EmptyRaw
<1>3. PICK P : P = {<<>>}
  OBVIOUS
<1>4. r.pools \in Seq(P) /\ Len(r.pools) = 1 /\ r.pools # <<>>
  BY <1>2, <1>3
<1>5. Pool(r) = <<>> /\ Len(Pool(r)) = 0 /\ Pool(r) \in Seq(P)
  BY <1>2, <1>4 DEF Pool
<1>6. r.issued \in Seq([rec : P, start : 1..Len(Pool(r)), gen : {Len(r.pools)}]) /\ Len(r.issued) = 0
  BY <1>2
<1>7. \A i \in 1..Len(r.issued) : \A k \in 1..i - 1 : r.issued[k].start < r.issued[i].start
  BY <1>6
<1> QED BY <1>1, <1>2, <1>4, <1>5, <1>6, <1>7 DEF RawOK

LEMMA ResetOK ==
    ASSUME NEW r, RawOK(r), NEW hint \in Nat
    PROVE  RawOK(Reset(r, hint))
<1>1. DefaultPool \in Nat /\ r.cap \in Nat /\ 3 * hint \in Nat
  BY StagingAssumption DEF RawOK
<1>2. PICK cap \in Nat : Reset(r, hint) = EmptyRaw(cap)
  BY <1>1 DEF Reset
<1> QED BY <1>2, EmptyRawOK

LEMMA GrownOK ==
    ASSUME NEW r, RawOK(r), NEW extra \in Nat
    PROVE  LET g == Grown(r, extra)
           IN  RawOK(g) /\ Pool(g) = Pool(r) /\ Len(Pool(r)) + extra <= g.cap /\ g.refs = r.refs
<1>1. PICK n \in Nat, cap \in Nat : n = Len(Pool(r)) /\ cap = r.cap
  <2>1. PICK V : Pool(r) \in Seq(V)
    BY DEF RawOK
  <2>2. Len(Pool(r)) \in Nat /\ r.cap \in Nat
    BY <2>1 DEF RawOK
  <2> QED BY <2>2
<1>2. CASE n + extra <= cap
  BY <1>1, <1>2 DEF Grown
<1>3. CASE ~(n + extra <= cap)
  <2>1. PICK more \in Nat : more = (n + extra) - cap
    BY <1>3
  <2>2. PICK step \in Nat : step = (IF more < PoolGrowth THEN PoolGrowth ELSE more) /\ step >= more
    BY StagingAssumption
  <2>3. PICK P : r.pools \in Seq(P)
    BY DEF RawOK
  <2>4. PICK m \in Nat : m = Len(r.pools) /\ m >= 1
    BY <2>3 DEF RawOK
  <2>5. r.pools[m] \in P
    BY <2>3, <2>4
  <2>6. PICK p : p = Append(r.pools, r.pools[m])
    OBVIOUS
  <2>7. p \in Seq(P) /\ p # <<>> /\ Len(p) = m + 1 /\ p[m + 1] = r.pools[m]
    BY <2>3, <2>4, <2>5, <2>6, AppendProperties
  <2>8. PICK q : q = Rebound(r.issued, m + 1)
    OBVIOUS
  <2>9. PICK R : r.issued \in Seq([rec : R, start : 1..n, gen : {m}])
    BY <1>1, <2>4 DEF RawOK
  <2>10. q \in Seq([rec : R, start : 1..n, gen : {m + 1}]) /\ Len(q) = Len(r.issued)
         /\ \A i \in 1..Len(q) : q[i].start = r.issued[i].start
    <3>1. PICK F, G : F = [rec : R, start : 1..n, gen : {m}] /\ G = [rec : R, start : 1..n, gen : {m + 1}]
      OBVIOUS
    <3>0. r.issued \in Seq(F)
      BY <2>9, <3>1
    <3>2. PICK l \in Nat : l = Len(r.issued) /\ DOMAIN r.issued = 1..l /\ \A i \in 1..l : r.issued[i] \in F
      BY <3>0
    <3>3. q = [i \in 1..l |-> [r.issued[i] EXCEPT !.gen = m + 1]]
      BY <2>8, <3>2 DEF Rebound
    <3>4. \A i \in 1..l : q[i] \in G /\ q[i].start = r.issued[i].start
      BY <3>1, <3>2, <3>3
    <3>5. q \in [1..l -> G]
      BY <3>3, <3>4
    <3>6. q \in Seq(G) /\ Len(q) = l
      BY <3>5, <3>2
    <3> QED BY <3>1, <3>2, <3>4, <3>6
  <2>11. PICK g : g = Grown(r, extra)
    OBVIOUS
  <2>12. g = [r EXCEPT !.cap = cap + step, !.pools = p, !.issued = q]
    BY <1>1, <1>3, <2>1, <2>2, <2>4, <2>6, <2>8, <2>11 DEF Grown, Pool
  <2>13. /\ g.cap = cap + step /\ g.pools = p /\ g.issued = q /\ g.refs = r.refs
         /\ g \in [cap : Nat, pools : {g.pools}, issued : {g.issued}, refs : {g.refs}, labels : {g.labels}]
    <3>1. cap + step \in Nat
      OBVIOUS
    <3>2. r \in [cap : Nat, pools : {r.pools}, issued : {r.issued}, refs : {r.refs}, labels : {r.labels}]
      BY DEF RawOK
    <3> QED BY <1>1, <2>12, <3>1, <3>2
  <2>14. Pool(g) = Pool(r)
    BY <2>4, <2>7, <2>13 DEF Pool
  <2>15. n + extra <= g.cap /\ n <= g.cap
    BY SMTT(30), <1>1, <2>1, <2>2, <2>13
  <2>16. \A i \in 1..Len(g.issued) : \A k \in 1..i - 1 : g.issued[k].start < g.issued[i].start
    <3> SUFFICES ASSUME NEW i \in 1..Len(q), NEW k \in 1..i - 1 PROVE q[k].start < q[i].start
      BY <2>13
    <3>1. Len(q) \in Nat
      BY <2>10
    <3>2. k \in 1..Len(q)
      BY <3>1
    <3>3. r.issued[k].start < r.issued[i].start
      BY <2>10 DEF RawOK
    <3> QED BY <2>10, <3>2, <3>3
  <2>17. \A ref \in g.refs : ref.at \in Nat /\ ref.at + 1 \in 1..Len(g.issued) /\ g.issued[ref.at + 1].start = ref.slot
    BY <2>10, <2>13 DEF RawOK
  <2>18. \E V : Pool(g) \in Seq(V)
    BY <2>14 DEF RawOK
  <2>19. g.issued \in Seq([rec : R, start : 1..Len(Pool(g)), gen : {Len(g.pools)}])
    BY <1>1, <2>7, <2>10, <2>13, <2>14
  <2>20. RawOK(g)
    BY <1>1, <2>7, <2>13, <2>14, <2>15, <2>16, <2>17, <2>18, <2>19 DEF RawOK
  <2> QED BY <1>1, <2>11, <2>13, <2>14, <2>15, <2>20
<1> QED BY <1>2, <1>3

LEMMA IssuedOK ==
    ASSUME NEW r, RawOK(r), NEW rec, NEW varnodes, NEW isRel \in BOOLEAN,
           (\E x : varnodes = <<x>>) \/ (\E x, y : varnodes = <<x, y>>)
    PROVE  RawOK(Issued(r, rec, varnodes, isRel))
<1>1. PICK e, W : e = Len(varnodes) /\ e \in Nat /\ e >= 1 /\ varnodes \in Seq(W)
  <2>1. CASE \E x : varnodes = <<x>>
    <3>1. PICK x : varnodes = <<x>>
      BY <2>1
    <3>2. Len(varnodes) = 1 /\ varnodes \in Seq({x})
      BY <3>1
    <3> QED BY <3>2
  <2>2. CASE \E x, y : varnodes = <<x, y>>
    <3>1. PICK x, y : varnodes = <<x, y>>
      BY <2>2
    <3>2. Len(varnodes) = 2 /\ varnodes \in Seq({x, y})
      BY <3>1
    <3> QED BY <3>2
  <2> QED BY <2>1, <2>2
<1>2. PICK g : g = Grown(r, e)
  OBVIOUS
<1>3. RawOK(g) /\ Len(Pool(g)) + e <= g.cap
  BY <1>1, <1>2, GrownOK
<1>4. PICK P, V : g.pools \in Seq(P) /\ Pool(g) \in Seq(V)
  BY <1>3 DEF RawOK
<1>5. PICK n \in Nat, m \in Nat : n = Len(Pool(g)) /\ m = Len(g.pools) /\ m >= 1 /\ g.pools[m] = Pool(g)
  <2>1. Len(Pool(g)) \in Nat /\ Len(g.pools) \in Nat
    BY <1>4
  <2>2. g.pools # <<>>
    BY <1>3 DEF RawOK
  <2>3. Len(g.pools) # 0
    BY <1>4, <2>2
  <2> QED BY <2>1, <2>3 DEF Pool
<1>6. PICK pool : pool = Pool(g) \o varnodes
  OBVIOUS
<1>7. pool \in Seq(V \cup W) /\ Len(pool) = n + e
  <2>1. Pool(g) \in Seq(V \cup W) /\ varnodes \in Seq(V \cup W)
    BY <1>1, <1>4
  <2> QED BY <1>1, <1>5, <1>6, <2>1, ConcatProperties
<1>8. PICK p : p = [g.pools EXCEPT ![m] = pool]
  OBVIOUS
<1>9. p \in Seq(P \cup {pool}) /\ Len(p) = m /\ p # <<>> /\ p[m] = pool
  <2>1. g.pools \in Seq(P \cup {pool}) /\ pool \in P \cup {pool} /\ m \in 1..Len(g.pools)
    BY <1>4, <1>5
  <2>2. p \in Seq(P \cup {pool}) /\ Len(p) = m /\ p[m] = pool
    BY <1>5, <1>8, <2>1, ExceptSeq
  <2>3. Len(<<>>) # m
    BY <1>5
  <2> QED BY <2>2, <2>3
<1>10. PICK R : g.issued \in Seq([rec : R, start : 1..n, gen : {m}])
  BY <1>3, <1>5 DEF RawOK
<1>11. PICK F, G : F = [rec : R, start : 1..n, gen : {m}] /\ G = [rec : R \cup {rec}, start : 1..n + e, gen : {m}]
  OBVIOUS
<1>12. g.issued \in Seq(F)
  BY <1>10, <1>11
<1>13. PICK l \in Nat : l = Len(g.issued) /\ \A i \in 1..l : g.issued[i] \in F
  BY <1>12
<1>14. \A i \in 1..l : g.issued[i].start \in 1..n
  BY <1>11, <1>13
<1>15. PICK f : f = [rec |-> rec, start |-> n + 1, gen |-> m]
  OBVIOUS
<1>16. PICK q : q = Append(g.issued, f)
  OBVIOUS
<1>17. q \in Seq(G) /\ Len(q) = l + 1 /\ q[l + 1] = f /\ \A i \in 1..l : q[i] = g.issued[i]
  <2>1. F \subseteq G /\ f \in G
    BY <1>1, <1>11, <1>15
  <2>2. g.issued \in Seq(G)
    BY <1>12, <2>1
  <2> QED BY <1>13, <1>16, <2>1, <2>2, AppendProperties
<1>18. PICK refs : refs = IF isRel THEN g.refs \cup {[slot |-> n + 1, at |-> l]} ELSE g.refs
  OBVIOUS
<1>19. PICK h : h = Issued(r, rec, varnodes, isRel)
  OBVIOUS
<1>20. h = [g EXCEPT !.pools = p, !.issued = q, !.refs = refs]
  BY Zenon, <1>1, <1>2, <1>5, <1>6, <1>8, <1>13, <1>15, <1>16, <1>18, <1>19 DEF Issued
<1>21. /\ h.cap = g.cap /\ h.pools = p /\ h.issued = q /\ h.refs = refs
       /\ h \in [cap : Nat, pools : {h.pools}, issued : {h.issued}, refs : {h.refs}, labels : {h.labels}]
  <2>1. g \in [cap : Nat, pools : {g.pools}, issued : {g.issued}, refs : {g.refs}, labels : {g.labels}]
    BY <1>3 DEF RawOK
  <2> QED BY <1>20, <2>1
<1>22. Pool(h) = pool
  BY <1>9, <1>21 DEF Pool
<1>23. Len(Pool(h)) <= h.cap
  BY <1>3, <1>5, <1>7, <1>21, <1>22
<1>24. \A i \in 1..Len(q) : \A k \in 1..i - 1 : q[k].start < q[i].start
  <2> SUFFICES ASSUME NEW i \in 1..l + 1, NEW k \in 1..i - 1 PROVE q[k].start < q[i].start
    BY <1>17
  <2>1. k \in 1..l
    OBVIOUS
  <2>2. q[k].start = g.issued[k].start /\ g.issued[k].start \in 1..n
    BY <1>14, <1>17, <2>1
  <2>3. CASE i = l + 1
    BY <1>15, <1>17, <2>2, <2>3
  <2>4. CASE i # l + 1
    <3>1. i \in 1..l
      BY <2>4
    <3>2. g.issued[k].start < g.issued[i].start
      BY <1>3, <1>13, <3>1 DEF RawOK
    <3> QED BY <1>17, <2>2, <3>1, <3>2
  <2> QED BY <2>3, <2>4
<1>25. \A ref \in refs : ref.at \in Nat /\ ref.at + 1 \in 1..Len(q) /\ q[ref.at + 1].start = ref.slot
  <2> SUFFICES ASSUME NEW ref \in refs
               PROVE  ref.at \in Nat /\ ref.at + 1 \in 1..l + 1 /\ q[ref.at + 1].start = ref.slot
    BY <1>17
  <2>1. CASE ref \in g.refs
    <3>1. ref.at \in Nat /\ ref.at + 1 \in 1..l /\ g.issued[ref.at + 1].start = ref.slot
      BY <1>3, <1>13, <2>1 DEF RawOK
    <3> QED BY <1>17, <3>1
  <2>2. CASE ref \notin g.refs
    <3>1. ref = [slot |-> n + 1, at |-> l]
      BY <1>18, <2>2
    <3> QED BY <1>15, <1>17, <3>1
  <2> QED BY <2>1, <2>2
<1>26. q \in Seq([rec : R \cup {rec}, start : 1..Len(Pool(h)), gen : {Len(h.pools)}])
  BY <1>7, <1>9, <1>11, <1>17, <1>21, <1>22
<1>27. h.pools # <<>> /\ (\E Q : h.pools \in Seq(Q)) /\ \E U : Pool(h) \in Seq(U)
  BY <1>7, <1>9, <1>21, <1>22
<1> QED BY <1>19, <1>21, <1>23, <1>24, <1>25, <1>26, <1>27 DEF RawOK

LEMMA StagingStep ==
    ASSUME BuildInv, RawOK(raw), [Next]_vars
    PROVE  RawOK(raw')
<1>1. CASE raw' = raw
  BY <1>1
<1>2. CASE EnterBuild
  <2>1. Preparing(job, cache) /\ CacheOK(cache) /\ code \in Programs
    BY Zenon, <1>2, Phases DEF EnterBuild
  <2>2. PICK x : x = cache.list[job.slot] /\ x.addr \in DOMAIN code
    BY <2>1 DEF Preparing, Held, CacheOK, ContextOK, Decoded, Disassembly, Pcode
  <2>3. PICK hint \in Nat : hint = Len(code[x.addr].ct.ops)
    BY SMTT(30), <2>1, <2>2, ProgramAssumption
  <2>4. raw' = Reset(raw, hint)
    BY <1>2, <2>2, <2>3 DEF EnterBuild
  <2> QED BY SMTT(30), <2>4, ResetOK
<1>3. ASSUME NEW k, Dump(k) PROVE RawOK(raw')
  <2>1. PICK rec, varnodes :
           /\ raw' = Issued(raw, rec, varnodes, k = "rel")
           /\ (\E x : varnodes = <<x>>) \/ (\E x, y : varnodes = <<x, y>>)
    BY <1>3 DEF Dump
  <2> QED BY <2>1, IssuedOK
<1>4. CASE SetLabel
  <2>1. PICK t : raw' = [raw EXCEPT !.labels = t]
    BY <1>4 DEF SetLabel
  <2>2. /\ raw'.cap = raw.cap /\ raw'.pools = raw.pools /\ raw'.issued = raw.issued /\ raw'.refs = raw.refs
        /\ raw' \in [cap : Nat, pools : {raw'.pools}, issued : {raw'.issued}, refs : {raw'.refs}, labels : {raw'.labels}]
    BY <2>1 DEF RawOK
  <2> QED BY <2>2 DEF RawOK, Pool
<1>5. CASE \E c, outcome : Finish(c, outcome)
  <2>1. raw' = raw \/ raw' = Reset(raw, 0)
    BY <1>5 DEF Finish
  <2> QED BY <2>1, ResetOK
<1>6. \/ raw' = raw \/ EnterBuild \/ Dump("op") \/ Dump("rel") \/ SetLabel \/ \E c, outcome : Finish(c, outcome)
  BY DEF Next, Work, vars, TranslateInstructionAt, PrepareDelaySlot, LowerRefused, AppendBuild, DelaySlot, LeaveBuild,
     ResolveAndEmit, BuildDelayed, Fail
<1> QED BY <1>1, <1>2, <1>3, <1>4, <1>5, <1>6

\* Wherever the pool of varnodes has moved to, every issued op views it in
\* varnodes of its own, and a waiting branch is an issued op (rawBuildState in
\* discache.go), for any sizes of the pool and its growth.
THEOREM StagedOpsViewThePool == Spec => []StagingSound
<1>1. Init => RawOK(raw)
  BY EmptyRawOK DEF Init
<1>2. BuildInv /\ RawOK(raw) /\ [Next]_vars => RawOK(raw)'
  BY StagingStep DEF RawOK, Pool
<1>3. RawOK(raw) => StagingSound
  <2> SUFFICES ASSUME RawOK(raw) PROVE StagingSound
    OBVIOUS
  <2>1. PICK R : raw.issued \in Seq([rec : R, start : 1..Len(Pool(raw)), gen : {Len(raw.pools)}])
    BY DEF RawOK
  <2>2. PICK F : F = [rec : R, start : 1..Len(Pool(raw)), gen : {Len(raw.pools)}]
    OBVIOUS
  <2>3. raw.issued \in Seq(F)
    BY <2>1, <2>2
  <2>4. DOMAIN raw.issued = 1..Len(raw.issued) /\ \A i \in 1..Len(raw.issued) : raw.issued[i] \in F
    BY <2>3
  <2> QED BY <2>2, <2>4 DEF RawOK, StagingSound
<1> QED BY <1>1, <1>2, <1>3, TranslationInvariant, PTL DEF Spec
=============================================================================
