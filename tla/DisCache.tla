------------------------------ MODULE DisCache ------------------------------
(***************************************************************************)
(* The parser-context pool of the SLEIGH translator: DisassemblyCache in   *)
(* src/pkg/sla/discache.go, the promotion of a context through its parse   *)
(* states (obtain_context.go, resolve.go, resolve_handles.go) and the lazy *)
(* address of the instruction after next (instruction_context.go).         *)
(*                                                                         *)
(* A cache is a record                                                     *)
(*   list  parserList: a context, or None, for every slot;                 *)
(*   hash  parserHash: a slot, or None.  A context never leaves the slot   *)
(*         it was made in, so a pointer to it is the number of its slot;   *)
(*   next  parserNext, the slot to recycle first;                          *)
(*   pin   pinnedCtx, a slot or None.                                      *)
(* The contexts map of the cache is left out: only SetParserContext fills  *)
(* it and no code of the repository calls that.                            *)
(*                                                                         *)
(* What decoding finds at an address is the table `code`: the length of    *)
(* the instruction there, the bytes of its delay slots, whether its        *)
(* operand handles resolve and its p-code template.  An address outside    *)
(* the table has no bytes to load.                                         *)
(***************************************************************************)
EXTENDS Naturals

CONSTANTS
    Reuse,      \* contexts in the circular list (8 in the code)
    Window,     \* entries of the hash table (256 in the code)
    None        \* a nil pointer or an invalid address

\* The parse states of a context, in their order.
Uninitialized == 0
Disassembly == 1
Pcode == 2

ParserContext ==
    [addr : Nat, state : {Uninitialized, Disassembly, Pcode}, len : Nat,
     naddr : Nat \cup {None}, delay : Nat, n2 : Nat \cup {None}, lazy : BOOLEAN]

\* A pool of one context has no slot to recycle beside the pinned one.
ASSUME PoolAssumption ==
    /\ Reuse \in Nat \ {0, 1} /\ Window \in Nat \ {0}
    /\ None \notin Nat /\ None \notin ParserContext

Slots == 0 .. Reuse - 1

EmptyCache ==
    [list |-> [s \in Slots |-> None],
     hash |-> [h \in 0 .. Window - 1 |-> None],
     next |-> 0,
     pin |-> None]

NewParserContext(a) ==
    [addr |-> a, state |-> Uninitialized, len |-> 0, naddr |-> None,
     delay |-> 0, n2 |-> None, lazy |-> FALSE]

hashIndex(a) == a % Window

\* The slot the hash table names for a, when its context is still about a.
Cached(c, a) ==
    LET s == c.hash[hashIndex(a)] IN s # None /\ c.list[s].addr = a

\* Mutant: the list is recycled in order, the pinned context too.
RecyclesPinned(c) == c.next

\* Recycling goes round the list and steps over the pinned context.
nextReuseSlot(c) ==
    (c.next + (IF c.next = c.pin THEN 1 ELSE 0)) % Reuse

\* The slot to recycle after slot s.
slotAfter(s) == (s + 1) % Reuse

\* Mutant: a recycled context keeps its parse state.
KeepsParseState(c, a) ==
    LET s == nextReuseSlot(c)
        old == c.list[s]
    IN  [c EXCEPT !.next = slotAfter(s),
                  !.hash[hashIndex(a)] = s,
                  !.list[s] = IF old = None
                              THEN NewParserContext(a)
                              ELSE [old EXCEPT !.addr = a, !.n2 = None, !.lazy = FALSE]]

\* A recycled context forgets the decode of its last instruction: its tree,
\* and so its length, its state and the lazy address.  The next address and
\* the delay bytes stay until the next resolve.
Recycle(c, a) ==
    LET s == nextReuseSlot(c)
        old == c.list[s]
    IN  [c EXCEPT !.next = slotAfter(s),
                  !.hash[hashIndex(a)] = s,
                  !.list[s] = IF old = None
                              THEN NewParserContext(a)
                              ELSE [old EXCEPT !.addr = a,
                                               !.state = Uninitialized,
                                               !.len = 0,
                                               !.n2 = None,
                                               !.lazy = FALSE]]

ObtainParserContext(c, a) == IF Cached(c, a) THEN c ELSE Recycle(c, a)

-----------------------------------------------------------------------------
(* Promotion *)

\* Resolve: decode the instruction at the address of the context.
Resolved(ctx, insn) ==
    [ctx EXCEPT !.state = Disassembly,
                !.len = insn.len,
                !.naddr = ctx.addr + insn.len,
                !.delay = insn.delay]

\* The context after the steps towards `target` that succeed.
Promoted(ctx, target, code) ==
    LET fresh == IF ctx.state = Uninitialized
                 THEN [ctx EXCEPT !.n2 = None, !.lazy = FALSE]
                 ELSE ctx
        dis == IF fresh.state < target /\ fresh.state < Disassembly
                  /\ fresh.addr \in DOMAIN code
               THEN Resolved(fresh, code[fresh.addr])
               ELSE fresh
    IN  IF dis.state < target /\ dis.state = Disassembly
           /\ code[dis.addr].handles
        THEN [dis EXCEPT !.state = Pcode]
        ELSE dis

\* ObtainContext: the cache after it, the slot and whether the context
\* reached the target state (otherwise the caller gets an error).
ObtainContext(c, a, target, code) ==
    LET c1 == ObtainParserContext(c, a)
        s == c1.hash[hashIndex(a)]
        c2 == [c1 EXCEPT !.list[s] = Promoted(@, target, code)]
    IN  [cache |-> c2, slot |-> s, ok |-> c2.list[s].state >= target]

\* ObtainPcodeContext also forgets the lazy address and binds its resolver.
ObtainPcodeContext(c, a, code) ==
    LET r == ObtainContext(c, a, Pcode, code)
    IN  IF r.ok
        THEN [r EXCEPT !.cache.list[r.slot] = [@ EXCEPT !.n2 = None, !.lazy = TRUE]]
        ELSE r

\* The address behind an instruction itself: from its length, or else from the
\* next address that decoding left.
pcodeFallthroughAddr(ctx) == IF ctx.len > 0 THEN ctx.addr + ctx.len ELSE ctx.naddr
next2addrFromContext(ctx) == IF ctx.len > 0 THEN ctx.addr + ctx.len ELSE ctx.naddr

\* GetN2addr: the first reader of the address after next disassembles the
\* next instruction, out of the same pool.  The result is stored in the
\* context that asked, whatever it is about by then.
WithN2addr(c, s, code) ==
    LET ctx == c.list[s]
        r == ObtainContext(c, pcodeFallthroughAddr(ctx), Disassembly, code)
    IN  IF ctx.n2 # None \/ ~ctx.lazy THEN c
        ELSE IF ~r.ok THEN r.cache
        ELSE [r.cache EXCEPT !.list[s] =
                 [@ EXCEPT !.n2 = next2addrFromContext(r.cache.list[r.slot]), !.lazy = FALSE]]

\* GetPcodeParserContext: the context cached for a, when it reached Pcode.
HasPcode(c, a) ==
    Cached(c, a) /\ c.list[c.hash[hashIndex(a)]].state = Pcode

\* requireOrObtainPcodeContext: on a miss the fallback disassembles the
\* instruction, which still leaves the caller without a p-code context.
RequireOrObtain(c, a, code) ==
    IF HasPcode(c, a)
    THEN [cache |-> c, slot |-> c.hash[hashIndex(a)], ok |-> TRUE]
    ELSE [ObtainContext(c, a, Disassembly, code) EXCEPT !.ok = FALSE]
=============================================================================
